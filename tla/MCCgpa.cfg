SPECIFICATION GradingSpec
CONSTANTS
  Letters = {"A"}
  Top = 1
  MaxPoint = 1
  NoBand = NoBand
  Credits = {1, 2, 3}
  Points = {0, 150, 233, 400}
  MaxCourses = 2
INVARIANT SummariesEqualCourses
