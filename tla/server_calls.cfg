SPECIFICATION RpcFairSpec
CONSTANTS
  c1 = c1
  c2 = c2
  Calls = {c1, c2}
  Offered <- MCOffered
  Users = {u1}
  NoUser = NoUser
  Settings <- MCSettings
  Unset = Unset
  Junk = Junk
  DefaultConns = 2
  Wrap = 8
INVARIANTS
  TypeOK
  AnswerHonest
  Prepared
PROPERTIES
  CallsAnswered
