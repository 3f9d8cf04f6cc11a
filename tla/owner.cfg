\* Three dispatcher processes and the job daemon, which may also be asked to
\* migrate the service; every process can be observed.
CONSTANTS
  Servers = {s1, s2, s3}
  Clients = {daemon}
  None = None
  Env = {"pid_reuse", "client_crash"}
  Daemon = daemon
SPECIFICATION FairSpec
INVARIANTS
  TypeOK
  OwnerInv
  ServingOwnsTheRow
PROPERTIES
  OneOwnerAtATime
  SchedulingResumes
\* A settled device without repeat intents needs no dispatcher and rests.
CHECK_DEADLOCK FALSE
