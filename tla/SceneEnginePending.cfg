SPECIFICATION Spec
CONSTANTS
  Scene = scene
  Peers = {p1}
  Numbers = {1}
  MaxVersion = 1
  FirstNumber = 1
  MaxCompositeEntity = 0
  Values = {1, 2}
  PreloadedNumbers = {1}
  WritesBetweenTicks = FALSE
  MaxCalls = 4
INVARIANTS RemovedIsNotUsed
CHECK_DEADLOCK FALSE
