CONSTANTS
  None = None
  p = p
  q = q
  other = other
  s1 = s1
  s2 = s2
  r1 = r1
  r2 = r2
  Proposals <- MCProposals
  HandOpened <- MCHandOpened
  TreeAt <- MCTreeAt
  PushTargets <- MCPushTargets
  IssueReplies <- MCIssueReplies
  LiveReplies <- MCLiveReplies
  MaxEdits = 2
  MaxRuns = 2
  Inputs <- MCInputs
  Registries <- MCRegistries
  Requests <- MCRequests
  FirstCursors <- MCFirstCursors
  Answers <- MCAnswersTo
  MaxPages = 3
  Urls <- MCUrls
  Materials <- MCMaterials
  XhsSigns <- MCSigns
  XhsDetails <- MCXhsDetails
  XhsPages <- MCXhsPages
  XhsTabs <- MCTabs
  XhsStates <- MCXhsStates
  DouyinSigns <- MCSigns
  DouyinDetails <- MCDouyinDetails
  DouyinTabs <- MCTabs
  DouyinStates <- MCDouyinStates
  DouyinContexts <- MCDouyinContexts
  DouyinRequests <- MCDouyinRequests
  Failures <- MCFailures
  MaxAttempts = 3
  HealthReports <- MCHealthReports
  MaxHealthReports = 3
  AdmissionCalls <- MCAdmissionCalls
  Ledgers <- MCLedgers
  AccountIds <- MCAccountIds
  Rehearsals <- MCRehearsals
  GateArguments <- MCGateArguments
  Revisions <- MCRevisions
  Certifications <- MCCertifications
\* A path ends at a decision, a reply or a verdict.
CHECK_DEADLOCK FALSE
SPECIFICATION Spec
INVARIANT TimeoutsAreCounted
