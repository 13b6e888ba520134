CONSTANTS
  Service = {s1}
  Client = {c1}
  Branch = branch
  Verbs = {"start", "stop", "suspend", "deploy"}
  Switched = {s1}
  MaxFaults = 1
SPECIFICATION FairSpec
INVARIANTS NoRequestCut OneMutator RowAgreesWithDocker WaitersHaveAWake
PROPERTIES StoppedStaysDown SnapshotRecordsOutcomes HeldRequestsSettle AlwaysOnComesBack
