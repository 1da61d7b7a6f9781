CONSTANTS
  MAX_SOCKET = 2
  MAX_PORT = 1
  Programs = {p1, p2}
  Messages = {m1, m2}
  NULL = NULL
SPECIFICATION Spec
INVARIANTS
  TypeOK
  InOnePlace
  TwoEnds
  AnswersReturn
