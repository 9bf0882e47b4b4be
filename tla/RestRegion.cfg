SPECIFICATION Spec
CONSTANTS
  Servers = {euw, na}
  None = None
PROPERTY RegionIsHonoured
