SPECIFICATION Spec
CONSTANTS
  Process = {w1, w2, w3, w4}
  Helper = {h}
  Passes = {"adopt"}
  Nobody = nobody
SYMMETRY AnyServer
INVARIANTS MarkerElectsOne
CHECK_DEADLOCK FALSE
