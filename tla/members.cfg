CONSTANTS
  alice = alice
  Members = {alice}
  Workers = {w1, w2}
  Names = {n1}
  Verdicts = {"approved"}
  NoDoc = NoDoc
  CacheMayFail = TRUE
  StepsMayFail = TRUE
SPECIFICATION FairSpec
INVARIANT DecisionsStick
PROPERTY CacheConverges
PROPERTY EveryoneKnown
