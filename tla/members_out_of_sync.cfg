CONSTANTS
  alice = alice
  Members = {alice}
  Workers = {w1, w2}
  Names = {n1}
  Verdicts = {"approved", "rejected"}
  NoDoc = NoDoc
  CacheMayFail = FALSE
  StepsMayFail = FALSE
SPECIFICATION Spec
INVARIANT TraderInSync
