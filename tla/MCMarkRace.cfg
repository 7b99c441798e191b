SPECIFICATION Spec
CONSTANTS
  Ops = {1, 2}
  Online = {101}
  Workers = {w1, w2}
  Resolvers = {r1}
  Keys = {"key"}
  EntityOf <- MarkEntity
  KeyOf <- MCKeyOf
  ValueOf <- MCValueOf
  Copies = 1
PROPERTY DivergenceNeverOverwrites
