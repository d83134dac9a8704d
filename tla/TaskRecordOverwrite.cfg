\* A write that read the record before another submission finished it puts an older one back.
SPECIFICATION Spec
CONSTANTS
  None = None  s1 = s1  s2 = s2  q1 = q1  q2 = q2  ok = ok  ko = ko  e1 = e1  e2 = e2
  Submissions <- Both
  Requests = {q1, q2}
  Successes = {ok}
  Failures = {ko}
  ObservabilityOf <- MCObservability
  EntryId <- MCEntryId
  MaxTime = 2
SYMMETRY Symmetry
PROPERTY TerminalStays
