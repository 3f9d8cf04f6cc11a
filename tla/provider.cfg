\* Environments of one provider run, each with the disturbances it names.
CONSTANTS
  w = w
  o1 = o1
  o2 = o2
  c1 = c1
  None = None
  Lines = {"limited", "completed", "junk"}
  ChildTraits <- Children
  Clients = {c1}
  Worker = w
  Others = {o1, o2}
  MaxLines = 2
  MaxTable = 6
  Envs <- Environments
SPECIFICATION FairSpec
INVARIANTS
  TypeOK
  TerminalEventMatches
  CancelConfirmed
  FailedStartLeavesNoProvider
  LateJudgementIsExact
PROPERTIES
  FeedSpec
  CancelEnds
  GoneRunIsJudged
\* A judged run rests.
CHECK_DEADLOCK FALSE
