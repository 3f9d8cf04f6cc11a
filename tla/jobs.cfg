SPECIFICATION FairSpec
CONSTANTS
  p1 = p1
  p2 = p2
  t1 = t1
  t2 = t2
  dream = dream
  build = build
  watch = watch
  main_group = main_group
  side_group = side_group
  l1 = l1
  l2 = l2
  l3 = l3
  None = None
  Procs = {p1, p2}
  Threads = {t1, t2}
  JobOrder <- JobOrderValue
  InBase = {dream, watch}
  InJobsD = {build}
  Extra = {build}
  Groups = {main_group, side_group}
  FirstGroup <- FirstGroupValue
  Quota <- QuotaValue
  Long = {watch}
  Launches = {l1, l2}
  Envs <- EnvsValue
INVARIANTS TypeOK GroupSerial QuotaHolds NoJobVanishes
PROPERTY DueJobIsJudged
