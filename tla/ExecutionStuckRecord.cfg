\* The record of a task whose attempt ends in an exception.
SPECIFICATION Spec
CONSTANTS
  s1 = s1  t1 = t1  t2 = t2
  Tasks <- TwoTasks
  Scopes <- OneScope
  ScopeOf <- AllInOne
  MaxInFlight <- Uneven
  MaxAttempts <- TwiceEach
  Repeatable <- TwoTasks
  Managed <- TwoTasks
  Resources <- TwoResources
  Bundles <- Singles
INVARIANTS
  RunsConverge
