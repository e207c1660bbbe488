SPECIFICATION Spec
CONSTANTS
  Tab = {t1, t2}
  Project = {p1, p2}
  None = none
  Change = {c1}
  Flush = {"f1"}
  MaxUnderWay = 2
  First = c1
INVARIANTS
  ChangesStayHome
SYMMETRY Symmetry
CONSTRAINT Bound
CHECK_DEADLOCK FALSE
