SPECIFICATION Spec
CONSTANTS
  Clients = {a, b}
  Online = {a}
  Creators = {a}
  MaxEntity = 3
  Values = {1, 2}
  Removes = TRUE
  Deletes = FALSE
  MaxCalls = 3
  None = None
INVARIANTS RoomAgreement
CHECK_DEADLOCK FALSE
