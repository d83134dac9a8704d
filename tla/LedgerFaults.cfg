\* Any read or write may fail, a caller may crash, the clock may step back.
SPECIFICATION Spec
CONSTANTS
  t1 = t1  t2 = t2  a1 = a1  c1 = c1  c2 = c2
  Accounts <- OneAccount
  Proxies <- OneProxy
  Adapters <- OneAdapter
  ManagedBy <- AllManaged
  Tasks <- OneTask
  Callers <- TwoCallers
  Times <- TwoTimes
  Reasons <- OneReason
  SlotRequests <- AccountFirst
  Batches <- OneBatch
  FaultKinds <- AllFaults
  MaxLeases = 2
  MaxFaults = 1
SYMMETRY CallerSymmetry
INVARIANTS
  TypeOK
  LeaseExclusivity
  SnapshotsValid
  TraceCoversLedger
