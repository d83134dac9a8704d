\* Two callers compete for two accounts and a proxy; a snapshot write may fail.
SPECIFICATION Spec
CONSTANTS
  t1 = t1  t2 = t2  a1 = a1  c1 = c1  c2 = c2
  Accounts <- TwoAccounts
  Proxies <- OneProxy
  Adapters <- OneAdapter
  ManagedBy <- AllManaged
  Tasks <- OneTask
  Callers <- TwoCallers
  Times <- NoClock
  Reasons <- OneReason
  SlotRequests <- AccountFirst
  Batches <- TwoBatches
  FaultKinds <- WriteFaults
  MaxLeases = 2
  MaxFaults = 1
SYMMETRY CallerSymmetry
INVARIANTS
  TraceInLockstep
PROPERTIES
  ImplementsPool
  LedgerAppendOnly
  InvalidIsTerminal
  ReleaseAnswerHonest
