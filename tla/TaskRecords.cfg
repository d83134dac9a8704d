\* Two submissions of one task id, a clock of two readings, a query that interleaves.
SPECIFICATION Spec
CONSTANTS
  None = None  s1 = s1  s2 = s2  q1 = q1  q2 = q2  ok = ok  ko = ko  e1 = e1  e2 = e2
  Submissions <- Both
  Requests = {q1, q2}
  Successes = {ok}
  Failures = {ko}
  ObservabilityOf <- MCObservability
  EntryId <- MCEntryId
  MaxTime = 2
SYMMETRY Symmetry
INVARIANTS
  TypeOK
  ExecutesOnRecord
  SuccessIsDurable
PROPERTIES
  TruthKept
  LoadTellsTruth
  ObservabilityGrows
