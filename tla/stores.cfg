CONSTANTS
  Ids = {"i1", "i2"}
  Keys = {"a", "b"}
  Members = {"m1", "m2"}
  None = None
  Callers = {c1, c2}
  Nobody = Nobody
  Corrupt = Corrupt
  Requested <- MCRequested
  MaxCalls = 3
  MaxCrashes = 2
SPECIFICATION Spec
INVARIANTS
  StoresTypeOK
  MemoryMatchesFile
  NeverCorrupt
  UniqueKeys
PROPERTIES
  AtomicSpec
CHECK_DEADLOCK FALSE
