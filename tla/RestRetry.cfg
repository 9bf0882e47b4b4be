SPECIFICATION Spec
CONSTANTS
  Servers = {s1, s2, s3}
  None = None
INVARIANTS
  TypeOK
  NoNeedlessFailure
  ExecutedOnce
