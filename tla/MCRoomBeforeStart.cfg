CONSTANTS
  Service = {s1}
  Client = {c1}
  Branch = branch
  Verbs = {"start"}
  Switched = {}
  MaxFaults = 0
SPECIFICATION Spec
PROPERTIES RoomBeforeStart
