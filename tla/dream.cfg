\* Two transcripts of up to three lines; caps, huge size and compaction are
\* all reached.
CONSTANTS
  Files <- MCFiles
  Procs <- MCProcs
  MaxLines = 3
  HugeLines = 2
  MaxMessages = 2
  MaxChunks = 2
  Threshold = 1
  KeepFull = 1
  Limit = 1
  Envs <- MCEnvs
  None = None
  p1 = p1
  p2 = p2
SPECIFICATION Spec
INVARIANT ReadBeforeCursor
PROPERTY CursorsAdvance
CHECK_DEADLOCK FALSE
