CONSTANTS
  buy1 = buy1
  buy2 = buy2
  buy3 = buy3
  sell1 = sell1
  sell2 = sell2
  dep1 = dep1
  alice = alice
  acme = acme
  Free = Free
  Orphan = Orphan
  NoPosition = NoPosition
  Members = {alice}
  Stocks = {acme}
  Orders = {buy1}
  Deposits = {dep1}
  SideOf <- MCSide
  MemberOf <- MCMember
  StockOf <- MCStock
  SharesOf <- MCShares
  PriceOf <- MCPrice
  LockMayLapse = FALSE
  CallsMayFail = TRUE
  StepsMayFail = FALSE
  MayCrash = FALSE
SPECIFICATION Spec
CHECK_DEADLOCK FALSE
INVARIANT RejectedUnpaid
