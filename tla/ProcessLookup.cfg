\* A system of three processes, in which two League clients run in turn or at
\* the same time, on either platform.
SPECIFICATION FairSpec
CONSTANTS
  Pids = {1, 2, 3}
  Lcus = {l1, l2}
  l1 = l1
  l2 = l2
  None = None
  Foreign = Foreign
  PortOf <- PortsOfTwo
  PortRange = 64
  IntMax = 100
INVARIANTS
  TypeOK
  HandlesAreClosed
  ParametersAreReal
PROPERTIES
  KeepsLookup
  LookupAdvances
  LookupEnds
