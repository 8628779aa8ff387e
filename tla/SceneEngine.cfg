SPECIFICATION Spec
CONSTANTS
  Scene = scene
  Peers = {p1, p2}
  Numbers = {1, 2}
  MaxVersion = 1
  FirstNumber = 1
  MaxCompositeEntity = 1
  Values = {1, 2}
  PreloadedNumbers = {}
  WritesBetweenTicks = FALSE
  MaxCalls = 4
INVARIANTS TypeOK QuiescentAgreement RemovedIsNotUsed
PROPERTIES EngineSettles
CHECK_DEADLOCK FALSE
