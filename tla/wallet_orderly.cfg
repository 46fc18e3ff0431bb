CONSTANTS
  dep1 = dep1
  dep2 = dep2
  buy1 = buy1
  sell1 = sell1
  wd1 = wd1
  adj1 = adj1
  alice = alice
  bob = bob
  Users = {alice, bob}
  Workers = {w1, w2}
  Keys = {dep1, dep2, adj1, wd1}
  KindOf <- MCKind
  OwnerOf <- TwoOwners
  AmountOf <- MCAmount
  Free = Free
  Orphan = Orphan
  DecisionsRace = FALSE
  LockMayLapse = FALSE
  StepsMayFail = FALSE
  MayCrash = FALSE
SPECIFICATION FairSpec
INVARIANT WithdrawalPaidOnce
INVARIANT NoticesAgree
INVARIANT HistoryExplainsBalance
PROPERTY DepositCredited
