\* Two control processes, and everything their surroundings can do: once with
\* processes that cannot be observed, once with an operator who cancels.
SPECIFICATION Spec
CONSTANTS
  Clients = {c1, c2}
  Worker = w
  Dispatcher = c1
  Envs = {
    {"unobservable", "pid_reuse", "worker_crash", "client_crash", "helper_failure", "prune"},
    {"pid_reuse", "worker_crash", "client_crash", "helper_failure", "kill_failure", "cancel", "prune"}}
INVARIANTS
  TypeOK
  IInv
  EndedRunIsDead
  EndedRunReturnedLease
  HandedOverLeaseIsGone
  NamedProviderKeepsSlot
  NoForeignJudgement
SYMMETRY Symmetry
\* An ended or pruned run needs nothing more.
CHECK_DEADLOCK FALSE
