CONSTANTS
  dep1 = dep1
  dep2 = dep2
  buy1 = buy1
  sell1 = sell1
  wd1 = wd1
  adj1 = adj1
  alice = alice
  bob = bob
  Users = {alice}
  Workers = {w1, w2}
  Keys = {dep1, buy1, sell1, adj1}
  KindOf <- MCKind
  OwnerOf <- AliceOnly
  AmountOf <- MCAmount
  Free = Free
  Orphan = Orphan
  DecisionsRace = FALSE
  LockMayLapse = FALSE
  StepsMayFail = TRUE
  MayCrash = TRUE
SPECIFICATION FairSpec
INVARIANT MutualExclusion
INVARIANT LedgerAgrees
PROPERTY KeepsPromise
PROPERTY LockFreedAgain
