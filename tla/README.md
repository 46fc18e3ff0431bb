# A verification project for the stock-market platform

TLA+ specifications, TLC model checking and TLAPS proofs for the services under
`src/apps/`: a NestJS monorepo in which members fund a wallet, trade stocks, are
managed from a CMS and are notified by e-mail. Services keep their own MongoDB
databases, share Redis, call each other over HTTP and publish events on Kafka.

## 1. Inventory

| Component | State | Operations | Interaction |
|---|---|---|---|
| **Wallet** (`wallet-service`) | wallets (balance, `lastDepositAt`), transaction documents with a unique idempotency key, the Redis key `lock:wallet:{user}` | Stripe deposit, internal deduct and credit, withdrawal request, approve, reject, manual adjustment | Stripe webhooks in, HTTP from trading, wallet events out |
| **Orders** (`trading-service` order, lock, cache, position schema) | order documents, positions, `lock:member:{id}`, cached stocks | buy, sell, position upsert, compensation | HTTP to the wallet with a 10 s timeout, `trade.executed` out |
| **Stocks** (`trading-service` stock) | stock documents with a bounded price history, entries per stock and for the catalogue in Redis | create, reprice, edit, delist, read | `stock.price.updated` out |
| **Traders** (`trading-service` trader) | Trader documents, the read model that gates orders | upsert, status, KYC | member events in |
| **Members** (`user-service`) | member documents, `cache:member:{id}` | create, read, edit, suspend, unsuspend, KYC | `member.registered` in, member events out |
| **Notifications** (`notification-service`) | notification log with a unique key, Redis marks | process with retries | Kafka in, SMTP out |
| **Price alerts** (`trading-service` alert, `alert-worker`) | alert documents | create, remove, paged scan | price events in, `notification.price.alert` out |
| **Member accounts** (`auth-service` auth, otp, token) | users, OTPs, refresh-token hash | register, verify, resend, set password, login, refresh, logout, forgot, reset | `member.registered`, OTP events out |
| **CMS accounts** (`auth-service` cms-auth) | CMS users, tokens of 8 hours | seed, create, deactivate, login, change password | provisioning event out |
| **Reports** (`trading-service` analytics, portfolio; `user-service` growth) | the cached portfolio | volume, traded stocks, assets, sectors, growth, portfolio | read orders, positions, stocks, members |
| **Listings** (order, transaction, member, withdrawal queue) | none | pages by cursor, or by number and total | read the collections above |
| **API gateway** (`api-gateway`) | the throttler's count | guards, proxies, time-outs, filters | HTTP in, HTTP to every service |
| **Shared library, deployment, seed script** | none | constants and configuration | |

**What is hard.** Every operation is a chain of awaited calls without a database
transaction, so two requests interleave between any two of them, and a throw or
the death of the process leaves the chain half done. What protects the data is
different in each place: a Redis lock with a TTL (wallet, orders), conditional
updates (`balance >= amount`, `shares >= n`), unique indexes on idempotency
keys, deletes of cached copies, and at-least-once redelivery (Stripe, Kafka).
Clients time out while the server goes on. `PROJECT.json` lists each hazard at
its line.

**What makes each component correct.**

- Wallet: no overdraft; money moves once per operation; the documents say what
  moved; no update is lost; the lock is exclusive and freed; an acknowledged or
  announced operation has happened.
- Orders: nothing handed out unpaid, no share from nowhere or lost, order,
  shares and money agree, the average cost is right, every order is settled.
- Stocks, portfolios: a cached copy or a published price that differs from the
  document is about to be replaced, or differs for one of a few named reasons.
- Reports: those computed at one moment contradict each other by the trades that
  are half done or broke off, and by nothing else; the numbers of a growth report
  by the members who join while it is computed.
- Listings: a walk through the pages shows what stays listed.
- Members and traders: no decision is lost, caches converge, registrations
  arrive, the read model follows.
- Notifications: one mail per key, a truthful log, every event settled.
- Alerts: notified once; a scan triggers all that are due.
- Member accounts: one account per email and national id; a spent or superseded
  OTP is refused; a revoked session stays revoked.
- CMS accounts: one administrator remains; a mailed password opens its account.
- Gateway: every request is answered, and a refusal is final: nothing was done
  and nothing will be.

## 2. Modules

| Module | Models |
|---|---|
| `WalletService` | all wallet operations, the transaction documents and the lock: one action per awaited call, `Workers` are the requests in flight |
| `WalletInvariants`, `OrderInvariants` | the inductive strengthenings of the wallet and of the orders |
| `WalletPromise` | abstract specification: an operation is asked for, then applied whole or refused |
| `WalletRefinement` | the refinement mapping: `fate` from the balance writes and the REJECTED documents |
| `OrderService` | buy and sell, composed with `WalletPromise` (`INSTANCE`) across a lossy HTTP exchange |
| `StockService` | the catalogue, its entries in Redis, the price event |
| `PriceAlerts` | alerts and the alert-worker's paged scan |
| `TradingReports` | the reports of the trading-service as operators over trades that go on, and the cached portfolio |
| `MemberGrowth` | the growth report: four queries sent at once, answered one by one while members join |
| `Listings` | pages by cursor and by number, and a client that walks through them |
| `NotificationService` | `ProcessorService.process` with retries, log and marks, fed by Kafka |
| `MemberService` | user-service members with the profile cache, the member events, and the Trader read model that consumes them |
| `AccountService` | registration, one-time codes, the password flows, sessions |
| `CmsStaff`, `CmsAuthService` | staff accounts behind the gateway's token check and the role guard |
| `ApiGateway` | one operation of a client, tried again after a failure, from the throttler to a handler and back |
| `MCWalletService`, `MCOrderService`, `MCNotificationService`, `MCMemberService` | values for the constants |
| `MCOrders` | orders in a calm and a rough setting, each with orders of its own (`CalmOrders`, `TroubledOrders`) |
| `MCAccountService`, `MCMarket`, `MCEdges` | parts that share no state, each in focus in some behaviours |
| `SumTheorems` | lemmas about sums over a finite set, by which money and shares are counted |
| `WalletServiceProofs`, `OrderServiceProofs`, `MemberServiceProofs`, `CmsAuthServiceProofs` | the theorems of one module each (of `MCOrders` too) |
| `AccountServiceProofs`, `MarketProofs`, `EdgesProofs` | the theorems of the parts of `MCAccountService`, `MCMarket` and `MCEdges`, and of each whole |

**How state maps to code.** `at[w]` is the next awaited call of request `w`, and
`job[w]` its local variables that a later call uses (a balance read before, the
document loaded). A document's status or fields are a function from its key or
id. Data is cut down to what properties distinguish: amounts are small
integers, a notification is its key, a profile is one field. Variables marked
*history* are not in the code; they count what has really happened (money
moved, mails sent, shares booked, a read overtaken by a write) so that
properties can compare the books with it. Actions carry the names of the methods
where one action is one method, and otherwise the name of the call
(`CreatePending`, `MarkCompleted`).

**Wallet.** A key stands for one business operation. `DeliverFirst` and
`DeliverDuplicate` are the two results of `existsByIdempotencyKey` outside the
lock; `Acquire`/`Contended` one `SET NX EX`; `Release` the check-and-delete
script in the `finally` block. An awaited call that throws is `Fail`; a dead
process, which leaves its token in Redis, is `Crash`; `ExpireOrphan` is the TTL
of such a token and `Lapse` the TTL of a holder that is still working.

**Orders.** `Quote` reads the price through the cache (a hit yields `NaN`, for
the entry is the JSON of a Decimal128). `Post`, `WalletSettles`, `WalletRefuses`,
`Answered`, `TimeOut` are the exchange with the wallet: it may apply the
operation after the client gave up. The specification takes the member to be
active and KYC-approved, which today needs a trader document set by other means
than the member events (see the last finding).

**Stocks.** A write is the document, then the delete of the stock's entry, then
that of the catalogue, then the event, each in a step of its own; a read that
misses is the query and, later, the `SET`. `priceHistory` is `$push` with
`$slice`. Whether the request that reads or publishes was overtaken by another
write is history.

**Alerts.** `FindPage` is `find` with `skip` and `limit` in order of insertion,
`MarkTriggered` the `updateMany`, `EmitAlert` one emit. An event is committed
when the handler returns and is handled again after `Fail`. As deployed the
handler gets no event: `alert-worker.module.ts:27` lists its class among the
providers, where `@EventPattern` is not looked for, and its schema names another
collection than the trading-service's. `Wired` stands for both being mended.

**Reports.** Trades are those of `OrderService`, one at a time per member, with
the steps that the reports can see. Each report is an operator with the name of
its method. Dates are instants, of which a day has `DayLength` and a month
`MonthLength` days; a range of the trading volume includes both its ends, as
`$gte` and `$lte` do. Money is in cents. `adrift` is history: the shares that
trades which broke off have moved without an order that says so.

**Growth.** `Promise.all` sends four queries and MongoDB answers each from the
collection as it is then (`Ask`, `Answer`); one that fails ends the report
(`Fail`). `Register` dates a member's document, `Insert` stores it later, so the
month may end in between. The growth in percent is left out.

**Listings.** The page and the total of `findHistory`, `findPendingWithdrawals`
and the member list are two queries sent together (`FindItems`,
`CountDocuments`); `OrderHistory` is the one query of the cursor.

**Notifications.** The event of Kafka, the Redis mark, the insert that elects a
sender, the retry loop with `markRetrying` and `markDead`, and what a throw at
each call does.

**Members.** A decision loads a document and later saves the fields it changed,
as mongoose does: a save that changes nothing writes nothing. Events carry the
field names that each side really uses, because the properties are about them.

**Member accounts.** A form is one set of personal data; forms with one email or
one national id are rivals. A one-time code stands for one OTP of a user and
purpose, kept in the order of `createdAt`, fresh for 10 minutes (the default of
`OTP_EXPIRES_MINUTES`) and forgotten after 15, when neither `validate` nor
`wasVerified` takes it. `job[w].stale` is history: whether the code was spent or
superseded when the request came in. A session is a stored refresh-token hash;
which token it is the hash of does not matter, because bcrypt compares the first
72 bytes and these are the same in every token of one account.

**Staff accounts.** A temporary password is named after the request that drew
it. The role in a token is that of the account at login; a token ends after 8
hours and not before, so a deactivated account may go on with the one it has.

**Gateway.** `route` is a route as far as service, guards and time-outs tell
routes apart, `work[t]` what goes on in the service for attempt `t`, whatever
becomes of the gateway's call. A handler is reduced to whether the operation took
place and what it returned or threw; `Late` says which exceptions can come after
the fact. Success is no proof of it: the `quiet` handlers, `resendOtp` and
`forgotPassword`, answer it for an address that nobody has. `Misrouted` are the
routes forwarded to paths that do not exist, the webhook of Stripe among them. `StatusOf` are the exception filters of the services, which differ.

## 3. Runs

| Run | Shows |
|---|---|
| `wallet_adverse` | lapsing locks, racing decisions and failures: no overdraft, one movement per key, truthful statuses, no foreign lock released |
| `wallet_crashes` | no lapse, but crashes: exclusive lock, no lost update, refinement of `WalletPromise`, lock freed again |
| `wallet_orderly` | no failures: withdrawals paid once, notices truthful, the statement explains the balance, deposits credited |
| `wallet_double_approval` | **violated**: two overlapping approvals debit one withdrawal twice |
| `wallet_lost_deposit` | **violated**: a half-made deposit is acknowledged as done |
| `orders` | rough: failures, timeouts, lapses, crashes: nothing unpaid, shares backed; calm: shares and books agree, average cost, settlement |
| `orders_rejected_but_paid` | **violated**: a buy that times out is rejected and paid |
| `market` | alerts notified once and none missed by an undisturbed scan; copies in Redis; reports contradict each other, and the growth report itself, only by what goes on meanwhile; walks through listings |
| `members` | decisions stick, caches converge, registrations arrive |
| `members_out_of_sync` | **violated**: suspensions and KYC decisions never reach the read model |
| `accounts` | one account per email and national id; stale codes refused; revocation holds; the last administrator; mailed passwords |
| `edges` | mails: one per key, a truthful log, settlement under redelivery, rebalancing, failures, crashes; requests: each is answered, and refusals are final |

Some properties hold only under the assumptions of their run; the pass runs say
which switch matters. With `StepsMayFail` or `MayCrash`, `HistoryExplainsBalance`
and `AckedIsDone` fail; with `LockMayLapse`, `MutualExclusion` and `LedgerAgrees`
do: an adjustment overwrites what moved since its read, although the comment in
`lock.service.ts` on the release calls an expired lock "safe by design". With
crashes, timeouts or failures an order may stay PENDING for good, or be rejected
though it was paid; nothing in the code looks for such orders. Properties named
`Calm...` hold in the calm setting of `orders` and fail in the other.

Other properties name their exceptions, each of which the model reaches:

- `RevocationHolds`: a login or refresh under way stores its token after a revocation.
- `AdministratorRemains`: of two deactivations that overlap, the second removes
  the last administrator. The comment at `cms-auth.service.ts:168`, "first admin
  can never be deactivated", is about something else than the code does: any
  administrator may go as long as another one is counted. `seedSuperAdmin` counts
  inactive ones too and will not mend it.
- `CachesAgree`: a read overtaken by a write fills an old copy; a failed delete
  leaves one; two repricings may publish in the other order; a sell that is
  rolled back leaves a portfolio cached meanwhile, until the TTL.
- `ScanMissesNothing`: a full page that triggers something, or a removal, shifts
  the pages, and the alerts that are skipped wait for the next price event.
- `WalkComplete`: only the cursor shows each order exactly once. The CMS queue,
  read with `skip` while decisions shrink it, misses requests.
- `MailedOnce`, `LogTellsMail`: a mail that is out before `markSent` or
  `markProcessed` throws may go out again, or its log entry end as DEAD.
- `ReportsAgree`: executed orders and shares differ by exactly the lots of the
  trade that goes on and of those that broke off; of two ranges that meet in an
  instant both have its orders; the four numbers of a growth report differ by at
  most the members who joined while it was computed.
- `RefusalsFinal`: after a 408 or a 5xx the operation may have been carried out,
  or be carried out later. The comment at `timeout.interceptor.ts:15`, "Kills any
  handler exceeding the timeout", is not so: handler and service go on. After a
  success it need not have been carried out: the quiet handlers do nothing for an
  unknown address, and the wallet-service acknowledges the redelivered webhook of
  a half-made deposit (`wallet_lost_deposit`; by way of the gateway that webhook
  gets a 404).

Where an exception is the very race or failure that `PROJECT.json` lists as a
hazard, the hazard stands there without a property and with a note: the property
says that nothing else has the same effect, and does not catch it.

**Focus.** `MCAccountService`, `MCMarket` and `MCEdges` hold several parts that
share no state. Their first state chooses one, and only its actions are taken: a
behaviour of all of them together is a behaviour of each, so a property of one
part is checked in full where it is in focus, at the sum of the state spaces and
not their product. `MCOrders` chooses a setting in the same way.

**Bounds.** Two requests in the wallet, at the members, stocks and accounts, three
handlers of notifications, and up to four orders: each violation found, and each
mutant, needs at most two actors in conflict and a third that profits. Keys are
chosen so that a debit is covered by some credits and not by others. Wallets of
different members share nothing but the code, so most runs have one member;
`wallet_orderly` has two. `members` gives the profile one value: staleness shows
in the status as well, and with two values the state space is six times larger.
Retries are bounded by `MaxAttempts`, as in the code; requests are unbounded in
number where a slot is free again after each (wallet, members, accounts, stocks)
and one per order or delivery elsewhere. `accounts` has two rival forms and two
verification codes: a stale code that is still unused takes two resends, and a
freed code can be issued again; with two staff emails an administrator can be
the last, and a creation can race another of the same email. `market`: three
alerts on pages of two, two of them due at the high price and one at the low, so
that scans have one page, two, and an empty one at the end, and two events; two
prices and a history of two, so that it slides; two orders of one share at five
instants, in days of two and months of two days, so that two orders may share an
instant, a day, a month or nothing; two members, and four months of which the
growth report shows two (the code shows six), so that a member may join before,
while and after a report is computed, and be older than it shows; five documents on pages of two, three pages of which the last is short.
`edges`: two attempts, limits of 2 and 1 so that each throttler can refuse. No
state constraint is used.

**Deadlock** is checked in the wallet and member runs. An order, a notification,
a walk or an attempt is made once, and where several parts share a run the one
in focus may be over, so those systems really end.

**Fairness.** `WF` of each request's next call: Node runs a handler whose
promise is settled, and every call has a timeout. `WF` of the TTL. `SF` of the
delivery of a deposit webhook or a Kafka message: both are repeated until
acknowledged, so a slot or lock that is only sometimes free is enough. At the
gateway, `WF` of its guards and of its two timers; nothing says that a service
ever answers. Nothing is assumed fair of members, agents, crashes or failures;
`EventSettled` and `CacheConverges` state the calm they need as a premise.

## 4. Proofs

TLAPS proves these for all values of the constants that satisfy the module's
assumption: any number of requests, members, orders, documents, pages. Every
invariant and action property that a passing run checks is stated by a theorem.
Where a theorem needs more, a switch of the specification is off in its
hypothesis, and the run that checks the property has it off as well.

- **Wallet, whatever happens.** `SafetyInv` is inductive without any assumption on
  lapses, failures or crashes, and yields `NeverOverdrawn`, `MovesOnce` and
  `StatusHonest`. None of the three is inductive alone: "once" needs that the
  request whose insert won the unique index is the only owner of the document
  (`OneOwner`), with the document PENDING and `moved` telling its place; the
  overdraft needs that what an adjustment is about to write is not negative
  (`SolventWrites`). `ReleasesOnlyOwn` holds for every step: the script compares
  the token before it deletes.
- **Wallet, no lapse.** `ExclusionInv` adds that a holder's token is in Redis and
  that an adjustment's read is still current; it gives `LockIsExclusive` and
  `NoUpdateLost`.
- **Wallet, decisions in turn, nothing fails or crashes.** `DecisionInv` knows of
  each withdrawal the one request that decides on it (`OneDecider`) and how far it
  is (`DecisionSteps`), so the status and that place tell whether the money moved.
  It gives `WithdrawalsPaidOnce` and `NoticesTrue`. `StatementInv` adds that each
  movement is recorded or about to be, and that the ledger is the sum of the
  movements; without lapses `StatementExplains` follows. The run
  `wallet_double_approval` shows that the first hypothesis is needed.
- **Refinement.** `WalletKeepsPromise`: without lapses, and for instances without
  withdrawals (which the code debits twice), each step of `WalletService` is a
  step of `WalletPromise` or a stutter.
- **Orders, whatever happens.** `OrderInv` (`SidesFit`, `PaidFirst`) gives
  `NothingIsUnpaid`. `BackedInv` compares each position with what is owed to it,
  the shares booked less those taken, and gives `NoShareFromNowhere`: the
  decrement is conditional on the shares that are there, so no lapse, timeout or
  crash adds any.
- **Orders, no lapse.** `ShareInv` makes that an equation, because what a request
  read of its position stays true while it is in its lock and relies on it
  (`SeenHeld`): `NoShareLost`. Its cost is kept along with it (`CostsKept`):
  `AveragesRight`. If moreover nothing fails, `StepsFit` tells from where an order
  is what it has left behind, and `BooksTellOneStory` follows. `MCOrdersInv` joins
  the two settings of the run: `CalmSharesKept`, `CalmBooksKept`, `CalmAverageKept`.
- **Notifications.** `SenderInv` is inductive: one sender per key, and at each
  call it knows what was mailed (`Knows`). `NeverMailedTwice`, `LogHonest` and the bound
  of mails per key follow.
- **Gateway.** `GatewayInv` says of every attempt what its service has done when
  it is where it is, and what a status on its way back stands for;
  `RefusalsBelievable` follows, for any number of attempts.
- **Members.** `DecisionsLast`, with `LoadedExists`: a document once loaded stays.
- **Member accounts.** `AccountInv` adds to `OneAccount` and `StaleCodeRefused`
  that a request which brought a stale code still finds it refused while it is
  checked (`StaleKept`): marking used, a newer OTP, expiry and forgetting all keep
  it so, because live codes of a box differ. `RevocationsHold` needs that
  every request about to store a token for a revoked account is one that had loaded
  it before (`SessionInv`).
- **Staff.** `StaffInv` ties the password of each account to the request that is
  about to mail it, and says of every request under way that its account exists;
  `MailedPasswordsOpen` follows. For `AdministratorsRemain` a deactivation that
  is not overtaken must still find another active administrator when it writes.
  `BothMailed` and `BothAdministered` state the same of `MCAccountService`.
- **Alerts.** `NoticeInv`: only marked alerts are notified, and those still to be
  emitted are marked and not notified yet. `ScanInv`: as long as nothing has
  shifted, every expected alert is triggered, due on this page, or stands on a
  later one. Its arithmetic is that of places in a list: `PlaceFacts` and
  `PageFacts` count the alerts before another one, and show that a page that is
  not full is the last; that holds for every page size and number of alerts.
- **Catalogue.** `CatalogInv` is `CopiesAgree` with what it rests on: the history
  ends in the document's price, the local variables of each request fit its
  operation (`RequestsOK`), and a read that is not overtaken holds what its `SET`
  will find in the collection.
- **Portfolio.** `ReportsInv` includes `PortfolioAgrees`: a read that no trade
  came between holds the present shares (`PortfolioOK`).
- **Reports.** `BooksOK` is an equation for every member and stock: executed buys
  with the lots added ahead of their order are executed sells, the shares held,
  and the lots taken ahead of theirs, with `adrift` for trades that broke off.
  It is `OrdersExplainShares` over counts that each step changes by one lot.
  `GroupsAddUp`, that a sum over groups is the sum over their members, gives
  the sums over sectors, days, months and stocks, and ranges that share an
  instant are counted by inclusion and exclusion.
- **Growth.** `GrowthInv`: stored members are dated, and every query that is
  answered found all that were stored before the report was asked for. So any two
  answers differ by latecomers only, and `CountCovered` turns that into bounds on
  the numbers. Both parts together are `ReportsReconciled`.
- **Listings.** `ListsInv` places each document by the number of documents before
  it (`Ranked`). Newest first places only grow as documents are created, oldest
  first they only shrink as documents leave, so what lies before a page has been
  shown, or has not been shown twice (`SkipOK`, `QueueOK`); a total counted is
  above every place, so a page that reaches it is the last one needed. By cursor,
  `NewestFacts` shows that a query which returns fewer than asked for returned
  all, and `CursorPage` that what a page shows is what lies between two cursors.
  `WalksComplete` follows.

`SumTheorems` proves what the counting needs from the definition of
`SumFunctionOnSet` as a fold: what an element adds, that sums of disjoint sets
and of groups add up. A fold takes out one chosen element at a time; the
induction runs over the set of subsets for which a fact holds (`SubsetInduction`,
from `WFMin`), so no predicate has to be instantiated.

`MCMarket`, `MCAccountService` and `MCEdges` have one theorem each that joins the
invariants of their parts (`MarketSafe`, `BothTyped`, `EdgesTyping`): a step of one
part leaves the variables of the others alone.

Only model-checked: the liveness properties, for fairness and ENABLED are out of
the prover's reach (`DepositCredited`, `LockFreedAgain`, `OrderSettled`,
`EverythingServed`, `CacheConverges`, `EveryoneKnown`), and the refinement for
instances with withdrawals, where it fails.

## 5. Not modelled, and what is left

Not modelled: configuration, templates, validation of input, health checks, the
seed script, Stripe's own API; headers, bodies and logs at the gateway; the
profit figures of a portfolio and the rounding of reports. The 48-hour hold is
in the wallet model, but no property is about it. These are called by nobody and
left out: `checkAlerts` (`stock.service.ts:192`), `checkAlertsForStock`
(`alert.service.ts:80`).

What the code does that a reader of its docs may not expect, and that the models
follow:

- `getActiveMembers` is refused by MongoDB (`preserveNullAndEmpty` is no option of
  `$unwind`, `analytics.service.ts:277`), so there is no report to model.
- The balances in the assets under management are always 0: the route asked for
  does not exist in the wallet-service. A member's portfolio in the CMS is always
  empty for the same reason: the trading-service's route is `portfolio/portfolio/...`.
- The user-service keeps portfolios under `portfolio:{id}`, the trading-service deletes
  `cache:portfolio:{id}`; the comment at `member.service.ts:132` takes them for one key.
- A date in `to` of the trading volume is an instant, so a day given without a
  time ends with its midnight; months in which nobody joined are missing from the
  growth's breakdown; the catalogue's key in Redis ignores the page size.
- At the gateway the throttler named "auth" applies to every route, so the limit
  of the default one never binds; no route asks its `RolesGuard` for a role; the
  rejection of a withdrawal, the withdrawal summary, the negative balances and a
  member's history are forwarded to paths that the wallet-service does not have,
  and the webhook of Stripe to its path without the prefix `api/v1`
  (`wallet-proxy.service.ts:73`, `Misrouted`), so deposits are credited only if
  Stripe is pointed at the wallet-service itself, as `WalletService` has it; `x-idempotency-key` is allowed and read by nobody. The
  auth-service's `@Throttle` has no guard that would read it.

Left for later: a refinement of the notification pipeline to "each event is
mailed or dropped", and one of the cached reads to a register that may be stale.
