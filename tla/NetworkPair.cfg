SPECIFICATION Spec
CONSTANTS
  Clients = {a, b}
  Online = {a, b}
  Creators = {a, b}
  MaxEntity = 4
  Values = {1, 2}
  Removes = TRUE
  Deletes = TRUE
  MaxCalls = 4
  None = None
SYMMETRY Symmetry
INVARIANTS TypeOK OneEntityPerKey RoomAgreement
CHECK_DEADLOCK FALSE
