\* Updating and migrating a device, on all three platforms.
CONSTANTS
  Versions <- MCVersions
  VersionString <- MCVersionString
  Updaters <- MCUpdaters
  Envs <- MCEnvs
  None = None
  u1 = u1
  u2 = u2
SPECIFICATION Spec
INVARIANTS
  TypeOK
  LauncherRuns
  OkMeansCurrent
  MigrationRestores
PROPERTY UpdateAsReported
SYMMETRY Symmetry
CHECK_DEADLOCK FALSE
