SPECIFICATION TablesSpec
CONSTANTS
  Users = {u1, u2}
  Events = {e1, e2}
  Messages = {m1, m2}
  Genders = {g1, g2}
  Calls = {c1}
  NoRow = NoRow
  g1 = g1
  Admits <- MCAdmits
  Datetime <- MCLevel
  Distance <- MCLevel
  IdLen = 2
  Bytes = {0, 1}
SYMMETRY Symmetry
INVARIANTS
  TypeOK
  References
  CountsAgree
  HistoryComplete
  IdsReturn
  EnumsReturn
PROPERTIES
  MessagesKept
CHECK_DEADLOCK FALSE
