INIT AcademicInit
NEXT AcademicNext
SYMMETRY Symmetry
CONSTRAINTS NoRace CalendarOrder
CHECK_DEADLOCK FALSE
CONSTANTS
  Courses = {1, 2, 3}
  Versions = {v1}
  Editors = {c1, c2}
  Students = {s1}
  Offered = {1, 2}
  Semesters = {1, 2}
  Providers = {p1}
  EnrCalls = {c1, c2}
  CreditHours <- MCCreditHours
  MaxCredits = 2
  Required <- MCRequired
  Letters = {"A", "B", "C"}
  Top = 3
  MaxPoint = 1
  Credits = {0, 1, 2, 3}
  Points = {0, 150, 233, 400}
  MaxCourses = 2
  NoBand = NoBand
  Assessments = {"cat", "exam"}
  Schemes <- MCSchemes
  Scores = {1, 3}
  Scale <- MCScale
  MarkCalls = {m1}
  Programmes = {q1, q2}
  All = All
  Appeals = {a1}
  ResCalls = {c1, c2}
  Roster = {c1, c2}
  Sessions = {d1, d2}
  Threshold = 6000
  Entries = {c1, c2}
  Days = {1}
  ExamDays = {1}
  Times = {1, 2, 3}
  Rooms = {h1}
  NoRoom = NoRoom
  Staff = {t1}
  TtCalls = {u1}
  NoSlot = NoSlot
INVARIANTS
  AcademicTypeOK
  EveryCourseCanBeTaken
  RegistrationsAreSound
  ValidScalesGradeEveryMark
  SummariesAgreeWithCourses
  SoundMarksAreGraded
  FlagStaysUntilCleared
  ShownWasApproved
  NoDoubleBooking
PROPERTIES
  DecisionsAreFinal
  BarredOnlyByAbsence
