SPECIFICATION Spec
CONSTANTS
  Clients = {a, b, c}
  Online = {a, b}
  Creators = {a}
  MaxEntity = 3
  Values = {1, 2}
  Removes = FALSE
  Deletes = FALSE
  MaxCalls = 3
  None = None
INVARIANTS RoomAgreement
CHECK_DEADLOCK FALSE
