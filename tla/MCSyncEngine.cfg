SPECIFICATION Spec
CONSTANTS
  Ops = {1, 2}
  Online = {101}
  Workers = {w1, w2}
  Resolvers = {r1, r2}
  Keys = {"key"}
  EntityOf <- PaymentEntity
  KeyOf <- MCKeyOf
  ValueOf <- MCValueOf
  Copies = 1
INVARIANTS
  AtMostOnce
  LedgerMatchesData
  OneOwner
  RepliesAreTrue
PROPERTIES
  PaymentIsWrittenOnce
  ImplementsPromise
