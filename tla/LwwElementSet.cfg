SPECIFICATION Spec
SYMMETRY Symmetry
CONSTANTS
  Replicas = {r1, r2}
  Values = {1, 2}
  MaxTimestamp = 3
  WritesBetweenTicks = FALSE
  SilentDeletes = FALSE
  Snapshots = TRUE
INVARIANTS TypeOK CleanReplicaHoldsJoin Convergence SuppressionLosesNothing
