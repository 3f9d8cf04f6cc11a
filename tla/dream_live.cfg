\* The same transcripts, under fairness.
CONSTANTS
  Files <- MCFiles
  Procs <- MCProcs
  MaxLines = 3
  HugeLines = 2
  MaxMessages = 2
  MaxChunks = 2
  Threshold = 1
  KeepFull = 1
  Limit = 1
  Envs <- MCLiveEnvs
  None = None
  p1 = p1
  p2 = p2
SPECIFICATION FairSpec
PROPERTY EverythingIsPrepared
CHECK_DEADLOCK FALSE
