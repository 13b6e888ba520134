CONSTANTS
  Service = {s1, s2}
  Client = {c1}
  Branch = branch
  Verbs = {}
  Switched = {}
  MaxFaults = 0
SPECIFICATION FairSpec
INVARIANT NoRequestCut
PROPERTIES HeldRequestsSettle
