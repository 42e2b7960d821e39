SPECIFICATION Spec
CONSTANTS
  Process = {w1, w2, w3, w4}
  Helper = {h}
  Passes = {"adopt", "reap"}
  Nobody = nobody
SYMMETRY AnyServer
PROPERTIES SupervisedIsNotSignalled
CHECK_DEADLOCK FALSE
