\* A worker and its provider, and nothing that goes wrong.
CONSTANTS
  w = w
  o1 = o1
  o2 = o2
  c1 = c1
  None = None
  Lines = {"limited", "completed", "junk"}
  ChildTraits <- Children
  Clients = {c1}
  Worker = w
  Others = {o1, o2}
  MaxLines = 2
  MaxTable = 6
  Envs <- Undisturbed
SPECIFICATION Spec
INVARIANTS
  WorkerLeavesTerminalEvent
CHECK_DEADLOCK FALSE
