CONSTANTS
  N = 4
  Scores = {1, 2, 3}
  Boxes <- MCBoxes
SPECIFICATION Spec
CHECK_DEADLOCK FALSE
INVARIANTS TypeOK SectionsApart SortedOnReturn ReportsBest
PROPERTIES Answers
