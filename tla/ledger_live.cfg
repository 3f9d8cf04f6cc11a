\* A dispatcher that keeps ticking, a second control process, and a worker that may die.
SPECIFICATION FairSpec
CONSTANTS
  Clients = {c1, c2}
  Worker = w
  Dispatcher = c1
  Envs = {{"pid_reuse", "worker_crash", "helper_failure"}}
PROPERTY SlotEventuallyFreed
\* An ended or pruned run needs nothing more.
CHECK_DEADLOCK FALSE
