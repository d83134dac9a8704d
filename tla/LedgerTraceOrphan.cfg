\* A crash or a failed roll back between the two writes.
SPECIFICATION Spec
CONSTANTS
  t1 = t1  t2 = t2  a1 = a1  c1 = c1  c2 = c2
  Accounts <- OneAccount
  Proxies <- OneProxy
  Adapters <- OneAdapter
  ManagedBy <- AllManaged
  Tasks <- OneTask
  Callers <- TwoCallers
  Times <- NoClock
  Reasons <- OneReason
  SlotRequests <- AccountFirst
  Batches <- OneBatch
  FaultKinds <- AllFaults
  MaxLeases = 2
  MaxFaults = 1
SYMMETRY CallerSymmetry
INVARIANTS
  TraceInLockstep
