CONSTANTS
  MdPath = {db}
  MaxWrites = 1
  MaxFaults = 1
SPECIFICATION Spec
PROPERTY KeptVolumeStays
