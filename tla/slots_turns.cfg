\* Two projects with two roles each on a device with one slot.
CONSTANTS
  p1 = p1
  p2 = p2
  planner = planner
  developer = developer
  None = None
  ProjectOrder <- TwoProjects
  RoleOrder <- TwoRoles
  Runs = {x1}
  Activations = {a1, a2, a3, a4}
  PlanIds = {}
  Clients = {}
  DeviceMax = 1
  ProjectMax <- EachProject1
  RoleMax <- Roles1
  ExecutionLimit <- NoLimits
  Requests <- NoRequests
  Env = {}
SPECIFICATION FairSpec
PROPERTIES
  RoleServed
\* A device without due intents and commands rests.
CHECK_DEADLOCK FALSE
