SPECIFICATION Spec
CONSTANTS
  ReservedStaticEntities = 1
  MaxCompositeEntity = 0
  MaxEntityNumber = 3
  MaxVersion = 1
INVARIANTS TypeOK OlderVersionsTombstoned OneLiveVersion
PROPERTIES GeneratedIdWasUnknown TombstonesRefineGrowOnlySet
