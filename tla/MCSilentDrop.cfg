INIT SyncInit
NEXT SyncNext
CONSTANTS
  Ops = {1}
  Online = {}
  Workers = {w1, w2}
  Resolvers = {}
  Flushes = {f1}
  Keys = {"person"}
  EntityOf <- MCEntityOf
  KeyOf <- MCKeyOf
  ValueOf <- MCValueOf
  Copies = 1
  MaxBatch = 2
  MaxFaults = 0
  None = None
CHECK_DEADLOCK FALSE
INVARIANT SavedMeansApplied
