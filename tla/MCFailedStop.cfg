CONSTANTS
  Service = {s1}
  Client = {c1}
  Branch = branch
  Verbs = {"stop", "suspend"}
  Switched = {}
  MaxFaults = 1
SPECIFICATION Spec
PROPERTIES FailedStopChangesNothing
