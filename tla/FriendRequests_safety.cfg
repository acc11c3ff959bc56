SPECIFICATION Spec
CONSTANTS
  Ids = {a, t}
  Test = {t}
  Admins = {g, h}
  Failing = TRUE
  Crashes = TRUE
  Idle = Idle
  Panicked = Panicked
SYMMETRY Symmetry
INVARIANTS
  Bidirectional
  AskedFirst
