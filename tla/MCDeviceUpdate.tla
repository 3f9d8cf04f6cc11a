--------------------------- MODULE MCDeviceUpdate ---------------------------
(* Small devices, each with the troubles of one kind.                      *)
EXTENDS DeviceUpdate, TLC

CONSTANTS u1, u2

MCVersions == 1 .. 3
\* The second commit left __version__ as it was.
MCVersionString == [v \in MCVersions |-> IF v = 3 THEN 2 ELSE 1]
MCUpdaters == {u1, u2}
Symmetry == Permutations(MCUpdaters)

MCEnvs ==
  {{"apply", "launchd", "registered", "downloads", "fails"},
   {"apply", "tasks", "registered", "downloads", "fails"},
   {"apply", "systemd", "registered", "downloads", "service", "runs"},
   {"apply", "launchd", "downloads", "dies"},
   {"git", "systemd", "registered", "service", "inside"},
   {"git", "launchd", "registered", "fails", "service"},
   {"git", "launchd", "manual", "service", "dies"},
   {"git", "tasks", "registered", "fails"},
   {"migrate", "launchd", "foreign", "fails"},
   {"migrate", "launchd", "foreign", "registered", "fails"},
   {"migrate", "launchd", "registered", "service"},
   {"migrate", "systemd", "registered", "fails"},
   {"migrate", "systemd", "registered", "service", "dies"},
   {"migrate", "systemd", "registered", "off", "fails"},
   {"migrate", "tasks", "registered", "fails"},
   {"migrate", "tasks", "fails"},
   {"apply", "systemd", "registered", "downloads", "two"}}
=============================================================================
