SPECIFICATION BilSpec
CONSTANTS
  Payers = {1, 2}
  ProgrammeLevel <- MCProgrammeLevel
  Nationality <- MCNationality
  Amounts = {5}
  Coverages <- MCCoverages
  LodgingFee = 2
  BilCalls = {c1, c2}
  Nothing = Nothing
INVARIANT BatchesGoOn
