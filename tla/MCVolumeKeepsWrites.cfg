CONSTANTS
  MdPath = {db}
  MaxWrites = 1
  MaxFaults = 0
SPECIFICATION Spec
PROPERTY VolumeKeepsWrites
