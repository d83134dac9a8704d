\* Two tasks of one scope under different limits compete for two resources, both may
\* retry, adapters may hang.
SPECIFICATION Spec
CONSTANTS
  s1 = s1  t1 = t1  t2 = t2
  Tasks <- TwoTasks
  Scopes <- OneScope
  ScopeOf <- AllInOne
  MaxInFlight <- Uneven
  MaxAttempts <- TwiceEach
  Repeatable <- TwoTasks
  Managed <- TwoTasks
  Resources <- TwoResources
  Bundles <- Singles
INVARIANTS
  TypeOK
  SlotAccounting
  GuardedAdmission
  NothingKept
  NoSharing
  LeaseDiscipline
PROPERTIES
  LimitKept
  TasksReturn
  SlotsComeBack
