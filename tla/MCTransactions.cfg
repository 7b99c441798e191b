SPECIFICATION MCSpec
CONSTANTS
  Requests = {"cash", "confirm", "again", "reject", "admit", "import"}
  Payments = {"slip"}
  Scopes = {"receipt_no", "student_id"}
  Program <- MCProgram
  MaxAttempts <- MCAttempts
INVARIANTS
  ChainIntact
  NumbersAreNotShared
  NoGaps
  AuditMatchesCommits
PROPERTY EveryRequestEnds
CHECK_DEADLOCK FALSE
