\* One project and one command that saves its role as continuous or once; the
\* role stops after two runs.
CONSTANTS
  p1 = p1
  p2 = p2
  planner = planner
  developer = developer
  None = None
  ProjectOrder <- OneProject
  RoleOrder <- OneRole
  Runs = {x1, x2}
  Activations = {a1, a2}
  PlanIds = {}
  Clients = {c1}
  DeviceMax = 1
  ProjectMax <- Project2
  RoleMax <- Developer2
  ExecutionLimit <- Developer2
  Requests <- NoDeveloper
  Env = {"config", "watch", "drops", "refuses", "pause"}
SPECIFICATION FairSpec
INVARIANTS
  WithinExecutionLimit
PROPERTIES
  RoleStops
\* A device without due intents and commands rests.
CHECK_DEADLOCK FALSE
