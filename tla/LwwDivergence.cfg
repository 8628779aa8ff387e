SPECIFICATION Spec
SYMMETRY Symmetry
CONSTANTS
  Replicas = {r1, r2}
  Values = {1, 2}
  MaxTimestamp = 2
  WritesBetweenTicks = TRUE
  SilentDeletes = FALSE
  Snapshots = FALSE
INVARIANTS Convergence
