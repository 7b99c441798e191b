SPECIFICATION SyncSpec
CONSTANTS
  Ops = {1, 2}
  Online = {}
  Workers = {w1, w2}
  Resolvers = {}
  Flushes = {f1}
  Keys = {"person"}
  EntityOf <- MCEntityOf
  KeyOf <- MCKeyOf
  ValueOf <- MCValueOf
  Copies = 1
  MaxBatch = 2
  MaxFaults = 2
  None = None
CHECK_DEADLOCK FALSE
PROPERTY EveryEntryAnswered
