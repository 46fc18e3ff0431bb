CONSTANTS
  buy1 = buy1
  buy2 = buy2
  buy3 = buy3
  sell1 = sell1
  sell2 = sell2
  dep1 = dep1
  alice = alice
  acme = acme
  Free = Free
  Orphan = Orphan
  NoPosition = NoPosition
  Members = {alice}
  Stocks = {acme}
  Orders = {buy1, buy2, buy3, sell1, sell2}
  Deposits = {dep1}
  CalmOrders = {buy1, buy2, buy3, sell1}
  TroubledOrders = {buy1, buy2, sell2}
  SideOf <- MCSide
  MemberOf <- MCMember
  StockOf <- MCStock
  SharesOf <- MCShares
  PriceOf <- MCPrice
  LockMayLapse = TRUE
  CallsMayFail = TRUE
  StepsMayFail = TRUE
  MayCrash = TRUE
SPECIFICATION MCSpec
CHECK_DEADLOCK FALSE
INVARIANT TypeOK
INVARIANT NothingUnpaid
INVARIANT SharesBacked
INVARIANT CalmSharesAgree
INVARIANT CalmBooksAgree
INVARIANT CalmAverage
PROPERTY OrderSettled
