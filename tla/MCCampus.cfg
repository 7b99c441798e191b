INIT CampusInit
NEXT CampusNext
SYMMETRY Symmetry
CONSTRAINTS NoRace FeeOnly MfaOnly OneMissed OneRecord BucketsDiffer
CHECK_DEADLOCK FALSE
CONSTANTS
  Applications = {"application"}
  Reviewers = {v1, v2}
  ReviewScores = {1, 2}
  AdmCalls = {c1, c2}
  NoScore = NoScore
  MaxStudents = 2
  Candidates = {1, 2, 3}
  ScoreValues = {1}
  Attributes = {"gender", "state"}
  MaxSeats = 2
  MaxReserved = 2
  Absent = Absent
  Numbers = {"", "n1"}
  Blank = ""
  MaxBatch = 2
  MaxHistory = 3
  RegCalls = {c1, c2}
  NoStudent = NoStudent
  Requests = {"q1", "q2"}
  Serials = {"d1", "d2", "d3"}
  DocCalls = {c1, c2}
  NoRequest = NoRequest
  Loans = {"l1", "l2"}
  MaxCopies = 1
  MaxLate = 1
  Rates = {1}
  LibCalls = {c1, c2}
  NoLoan = NoLoan
  Residents = {"s1", "s2"}
  HostelRooms = {"room"}
  Genders = {"f", "m"}
  MaxBeds = 2
  TermlyFee = 1
  HosCalls = {c1, c2}
  NoBed = NoBed
  Employees = {"head1", "head2", "officer"}
  Hods = {"head1", "head2"}
  HrOfficers = {"officer"}
  Unscoped = {"head2"}
  Department <- MCDepartment
  Leaves = {"leave"}
  Contracts = {"contract"}
  Salaries = {1, 2}
  Ratings = {1}
  HrCalls = {c1, c2}
  NoOne = NoOne
  Users = {"root", "clerk"}
  Root = "root"
  Codes = {"examinations", "finance"}
  MaxTrail = 2
  AccCalls = {c1, c2}
  NoUser = NoUser
  People = {"ann", "ben", "eve"}
  Classes = {"law", "arts"}
  NoClass = "no class"
  ClassOf <- MCClassOf
  Channels <- MCChannels
  Senders = {"hod", "registrar"}
  Broadcasters = {"registrar"}
  OwnClasses <- MCOwnClasses
  Notices = {"notice"}
  NoNotice = NoNotice
  Payers = {1, 2}
  ProgrammeLevel <- MCProgrammeLevel
  Nationality <- MCNationality
  Amounts = {5}
  Coverages <- MCCoverages
  LodgingFee = 2
  BilCalls = {c1, c2}
  Nothing = Nothing
  MaxAttempts = 2
  MaxFailures = 3
  MaxSecrets = 2
  MaxIssues = 2
  SigCalls = {c1, c2}
  Invoices = {"invoice"}
  Payments = {"slip", "mobile", "cash"}
  Refunds = {"refund1", "refund2"}
  Calls = {c1, c2}
  InvoiceOf <- MCInvoiceOf
  MethodOf <- MCMethodOf
  PaymentOf <- MCPaymentOf
  Bills <- MCBills
  Amount <- MCAmount
  None = "no row"
INVARIANTS
  CampusTypeOK
  MeritListIsFair
  ApplicationsAreSound
  HistoryChains
  OneDocumentPerRequest
  RoomsAreSound
  RolesAreAccounted
  NoticesAreTrue
  BillingIsSound
  SignInIsSound
  InvoiceStatusIsCurrent
  ReceiptMeansConfirmed
  PaidOutWasApproved
PROPERTIES
  LendingIsSound
  HrRecordsAreSound
