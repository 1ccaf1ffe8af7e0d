SPECIFICATION SessionSpec
CONSTANTS
  Users = {u1, u2}
  Events = {e1, e2}
  Messages = {m1}
  Genders = {g1, g2}
  Calls = {c1, c2}
  NoRow = NoRow
  g1 = g1
  Admits <- MCNobody
  Datetime <- MCLevel
  Distance <- MCLevel
  IdLen = 2
  Bytes = {0, 1}
SYMMETRY SessionSymmetry
INVARIANTS
  GenderTracked
  CreatorJoins
  AnswersHold
CHECK_DEADLOCK FALSE
