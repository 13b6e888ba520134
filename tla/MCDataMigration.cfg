CONSTANTS
  MdPath = {db, configdb}
  MaxWrites = 2
  MaxFaults = 2
SPECIFICATION Spec
SYMMETRY MdPaths
INVARIANTS SomeWholeCopy SourceAtRest  CleanBootStamps
PROPERTY ManagedKeepsWrites
