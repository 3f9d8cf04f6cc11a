\* One role whose slots the dispatcher shares with two control commands that
\* plan, start and retry.
CONSTANTS
  p1 = p1
  p2 = p2
  planner = planner
  developer = developer
  None = None
  ProjectOrder <- OneProject
  RoleOrder <- OneRole
  Runs = {x1, x2}
  Activations = {a1}
  PlanIds = {i1}
  Clients = {c1, c2}
  DeviceMax = 1
  ProjectMax <- Project1
  RoleMax <- Developer1
  ExecutionLimit <- DeveloperNoLimit
  Requests <- OneDeveloper
  Env = {"manual", "consent", "quick", "crash", "dies"}
SPECIFICATION Spec
INVARIANTS
  TypeOK
  AutomaticWithinLimits
  PlanHasOneTaker
SYMMETRY Symmetry
\* A device without due intents and commands rests.
CHECK_DEADLOCK FALSE
