SPECIFICATION Spec
CONSTANTS
  Ids = {a, b}
  Test = {}
  Admins = {}
  Failing = FALSE
  Crashes = FALSE
  Idle = Idle
  Panicked = Panicked
INVARIANT MutualAutoAccept
