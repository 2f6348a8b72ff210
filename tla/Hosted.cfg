SPECIFICATION FairSpec
CONSTANTS
  Agents = {a1, a2}
  Events <- Reports
  NoExt = NoExt
  NoEvent = NoEvent
  Deliverers = {d1}
  Batch = 2
  MaxStops = 1
INVARIANTS HostedTypeOK EvidenceHasOneIdentity EvidenceOutlivesDispatch
  SuccessIsRecorded NotificationsAgree
PROPERTIES ImplementsExecution HostedWorkflowCloses
CHECK_DEADLOCK FALSE
