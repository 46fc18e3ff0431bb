--------------------------- MODULE WalletService ---------------------------
(***************************************************************************)
(* The wallet-service: every operation that moves or promises money, one   *)
(* step per awaited database or Redis call.                                *)
(*                                                                         *)
(* An idempotency key stands for one business operation: one Stripe        *)
(* checkout session, one leg of a trading order, one withdrawal, one CMS   *)
(* adjustment.  KindOf, OwnerOf and AmountOf say which operation a key     *)
(* will stand for once it is generated; the keys that are never issued are *)
(* operations nobody asked for.  Transaction documents are identified by   *)
(* their key: the code copies kind, user and amount into the document from *)
(* the same input, so only the status needs to be kept.                    *)
(*                                                                         *)
(* Workers are the requests in flight at one time, in one or several       *)
(* instances of the service.                                               *)
(***************************************************************************)
EXTENDS Integers, FiniteSetsExt

CONSTANTS
  Users,          \* wallet owners
  Workers,        \* request slots
  Keys,           \* idempotency keys
  KindOf,         \* KindOf[k]: the operation key k is generated for
  OwnerOf,        \* OwnerOf[k]: the user whose wallet it touches
  AmountOf,       \* AmountOf[k]: its amount, signed for an adjustment
  Free, Orphan,   \* lock values: not held; held by a token whose owner died
  DecisionsRace,  \* may two CMS decisions on one withdrawal overlap?
  LockMayLapse,   \* may the TTL elapse while the holder is still working?
  StepsMayFail,   \* may an awaited call throw?
  MayCrash        \* may a request die with its process?

TradeKinds == {"deduct", "credit"}
KeyedKinds == TradeKinds \cup {"deposit"}
Kinds == KeyedKinds \cup {"withdrawal", "adjust"}

ASSUME WalletAssumption ==
  /\ Keys # {}
  /\ KindOf \in [Keys -> Kinds]
  /\ OwnerOf \in [Keys -> Users]
  /\ AmountOf \in [Keys -> Int]
  /\ \A k \in Keys : KindOf[k] # "adjust" => AmountOf[k] > 0
  /\ Free \notin Workers /\ Orphan \notin Workers /\ Free # Orphan
  /\ {DecisionsRace, LockMayLapse, StepsMayFail, MayCrash} \subseteq BOOLEAN

VARIABLES
  opened,    \* users with a wallet document
  balance,   \* balance[u]: wallet balance
  onHold,    \* onHold[u]: lastDepositAt is less than 48 hours ago
  issued,    \* keys generated so far
  tx,        \* tx[k]: status of the transaction document, "none" if absent
  lock,      \* lock[u]: the value of lock:wallet:{u} in Redis
  at,        \* at[w]: the call request w is about to make
  job,       \* job[w]: what request w works on and the balance it read
  notices,   \* wallet events published, as <<key, what>>
  acked,     \* keys for which a repeated call was answered "already processed"
  moved,     \* history: how many balance writes were made for a key
  ledger     \* history: the sum of those movements, per user

wallet == <<opened, balance, onHold>>
books  == <<issued, tx>>
ghosts == <<moved, ledger>>
vars == <<wallet, books, lock, at, job, notices, acked, ghosts>>

-----------------------------------------------------------------------------
(* Operations and the state they keep.                                     *)

Statuses == {"none", "PENDING", "COMPLETED", "REJECTED"}

\* KeyedKinds and "adjust" are operations of their own; a withdrawal takes a
\* request and a decision.
LockedOps == KeyedKinds \cup {"adjust", "approve"}
Ops == LockedOps \cup {"request", "refuse"}

Points == {"idle", "lock", "read", "create", "move", "mark", "reject",
           "notify", "decline", "release"}
\* Where a request believes that it holds the lock.
Critical == Points \ {"idle", "lock"}

Verdicts == {"credited", "requested", "approved", "declined"}

Job == [op : Ops, key : Keys, seen : Int]
NoJob == [op |-> "refuse", key |-> CHOOSE k \in Keys : TRUE, seen |-> 0]

Key(w) == job[w].key
Op(w) == job[w].op
Owner(w) == OwnerOf[Key(w)]
Amount(w) == AmountOf[Key(w)]
Busy(w) == at[w] # "idle"
InLock(w) == Op(w) \in LockedOps /\ at[w] \in Critical

\* What a movement under key k adds to its owner's balance.
Delta(k) == IF KindOf[k] \in {"deduct", "withdrawal"}
            THEN 0 - AmountOf[k] ELSE AmountOf[k]

Init ==
  /\ opened = {}
  /\ balance = [u \in Users |-> 0]
  /\ onHold = [u \in Users |-> FALSE]
  /\ issued = {}
  /\ tx = [k \in Keys |-> "none"]
  /\ lock = [u \in Users |-> Free]
  /\ at = [w \in Workers |-> "idle"]
  /\ job = [w \in Workers |-> NoJob]
  /\ notices = {}
  /\ acked = {}
  /\ moved = [k \in Keys |-> 0]
  /\ ledger = [u \in Users |-> 0]

-----------------------------------------------------------------------------
(* Requests arriving.                                                      *)

\* The request takes slot w and is about to make the call p.
Start(w, op, k, p) ==
  /\ ~Busy(w)
  /\ job' = [job EXCEPT ![w] = [op |-> op, key |-> k, seen |-> 0]]
  /\ at' = [at EXCEPT ![w] = p]

Goto(w, p) == at' = [at EXCEPT ![w] = p] /\ UNCHANGED job

\* The request is answered and its slot is free again.
Finish(w) ==
  /\ at' = [at EXCEPT ![w] = "idle"]
  /\ job' = [job EXCEPT ![w] = NoJob]

\* initiateDeposit: a fresh key goes into the metadata of a checkout session.
InitiateDeposit(k) ==
  /\ KindOf[k] = "deposit"
  /\ k \notin issued
  /\ issued' = issued \cup {k}
  /\ UNCHANGED <<wallet, tx, lock, at, job, notices, acked, ghosts>>

\* GET balance creates the wallet on first access, without the lock.
OpenWallet(u) ==
  /\ u \notin opened
  /\ opened' = opened \cup {u}
  /\ UNCHANGED <<balance, onHold, books, lock, at, job, notices, acked, ghosts>>

\* The trading-service creates an order and will ask for its money.
PlaceOrder(k) ==
  /\ KindOf[k] \in TradeKinds
  /\ k \notin issued
  /\ issued' = issued \cup {k}
  /\ UNCHANGED <<wallet, tx, lock, at, job, notices, acked, ghosts>>

\* existsByIdempotencyKey said no: go on to take the lock.
DeliverFirst(w, k) ==
  /\ KindOf[k] \in KeyedKinds
  /\ k \in issued
  /\ tx[k] = "none"
  /\ Start(w, KindOf[k], k, "lock")
  /\ UNCHANGED <<wallet, books, lock, notices, acked, ghosts>>

\* existsByIdempotencyKey said yes: answered as a duplicate, outside the lock.
DeliverDuplicate(w, k) ==
  /\ ~Busy(w)
  /\ KindOf[k] \in KeyedKinds
  /\ k \in issued
  /\ tx[k] # "none"
  /\ acked' = acked \cup {k}
  /\ UNCHANGED <<wallet, books, lock, at, job, notices, ghosts>>

\* requestWithdrawal up to its insert: wallet, hold and balance are checked
\* without the lock.
RequestWithdrawal(w, k) ==
  /\ KindOf[k] = "withdrawal"
  /\ k \notin issued
  /\ OwnerOf[k] \in opened
  /\ ~onHold[OwnerOf[k]]
  /\ balance[OwnerOf[k]] >= AmountOf[k]
  /\ Start(w, "request", k, "create")
  /\ issued' = issued \cup {k}
  /\ UNCHANGED <<wallet, tx, lock, notices, acked, ghosts>>

\* Mutant: a decision does not look at the status it decides on.
MayDecideSettled(k) ==
  /\ KindOf[k] = "withdrawal"
  /\ tx[k] # "none"
  /\ DecisionsRace \/ \A w \in Workers : Busy(w) => Key(w) # k

\* approveWithdrawal and rejectWithdrawal start by reading the transaction,
\* before any lock.  Nothing in the code keeps two decisions apart: without
\* DecisionsRace the support agents do.
MayDecide(k) ==
  /\ KindOf[k] = "withdrawal"
  /\ tx[k] = "PENDING"
  /\ DecisionsRace \/ \A w \in Workers : Busy(w) => Key(w) # k

ApproveWithdrawal(w, k) ==
  /\ MayDecide(k)
  /\ Start(w, "approve", k, "lock")
  /\ UNCHANGED <<wallet, books, lock, notices, acked, ghosts>>

RejectWithdrawal(w, k) ==
  /\ MayDecide(k)
  /\ Start(w, "refuse", k, "reject")
  /\ UNCHANGED <<wallet, books, lock, notices, acked, ghosts>>

\* manualAdjustment goes straight for the lock.  The code draws the random key
\* after the balance write; reserving it here changes nothing it can observe.
ManualAdjustment(w, k) ==
  /\ KindOf[k] = "adjust"
  /\ k \notin issued
  /\ Start(w, "adjust", k, "lock")
  /\ issued' = issued \cup {k}
  /\ UNCHANGED <<wallet, tx, lock, notices, acked, ghosts>>

-----------------------------------------------------------------------------
(* The Redis lock.                                                         *)

\* Mutant: SET without NX.
AcquireAnyway(w) ==
  /\ at[w] = "lock"
  /\ lock' = [lock EXCEPT ![Owner(w)] = w]
  /\ Goto(w, IF Op(w) = "approve" THEN "move" ELSE "read")
  /\ UNCHANGED <<wallet, books, notices, acked, ghosts>>

\* SET NX succeeded.  An approval goes straight to the conditional debit.
Acquire(w) ==
  /\ at[w] = "lock"
  /\ lock[Owner(w)] = Free
  /\ lock' = [lock EXCEPT ![Owner(w)] = w]
  /\ Goto(w, IF Op(w) = "approve" THEN "move" ELSE "read")
  /\ UNCHANGED <<wallet, books, notices, acked, ghosts>>

\* SET NX failed: 503, one attempt only.
Contended(w) ==
  /\ at[w] = "lock"
  /\ lock[Owner(w)] # Free
  /\ Finish(w)
  /\ UNCHANGED <<wallet, books, lock, notices, acked, ghosts>>

\* Mutants: a release that deletes without comparing, and one that is lost.
UnlockedBlindly(w) == [lock EXCEPT ![Owner(w)] = Free]

NeverUnlocked(w) == lock

\* The value of the lock after w's check-and-delete script.
Unlocked(w) ==
  [lock EXCEPT ![Owner(w)] = IF lock[Owner(w)] = w THEN Free ELSE lock[Owner(w)]]

\* The finally block.
Release(w) ==
  /\ at[w] = "release"
  /\ lock' = Unlocked(w)
  /\ Finish(w)
  /\ UNCHANGED <<wallet, books, notices, acked, ghosts>>

\* Mutant: SET without EX.
NoExpiry(u) == FALSE

\* The TTL removes a lock nobody will release.
ExpireOrphan(u) ==
  /\ lock[u] = Orphan
  /\ lock' = [lock EXCEPT ![u] = Free]
  /\ UNCHANGED <<wallet, books, at, job, notices, acked, ghosts>>

\* The TTL removes the lock of a slow request that is still working.
Lapse(u) ==
  /\ LockMayLapse
  /\ lock[u] \in Workers
  /\ lock' = [lock EXCEPT ![u] = Free]
  /\ UNCHANGED <<wallet, books, at, job, notices, acked, ghosts>>

-----------------------------------------------------------------------------
(* Inside the lock: read the wallet.                                       *)

\* Keep the balance that was read and go on to p.
Saw(w, p) ==
  /\ job' = [job EXCEPT ![w] = [op |-> Op(w), key |-> Key(w),
                                seen |-> balance[Owner(w)]]]
  /\ at' = [at EXCEPT ![w] = p]

\* processStripeDeposit creates the wallet if there is none.
ReadDeposit(w) ==
  /\ at[w] = "read" /\ Op(w) = "deposit"
  /\ opened' = opened \cup {Owner(w)}
  /\ Saw(w, "create")
  /\ UNCHANGED <<balance, onHold, books, lock, notices, acked, ghosts>>

\* deduct needs a wallet with enough money, credit needs a wallet.
TradeAdmitted(w) ==
  /\ Owner(w) \in opened
  /\ Op(w) = "deduct" => balance[Owner(w)] >= Amount(w)

ReadTrade(w) ==
  /\ at[w] = "read" /\ Op(w) \in TradeKinds
  /\ IF TradeAdmitted(w) THEN Saw(w, "create") ELSE Goto(w, "release")
  /\ UNCHANGED <<wallet, books, lock, notices, acked, ghosts>>

\* An adjustment needs a wallet and may not make its balance negative.
AdjustAdmitted(w) ==
  /\ Owner(w) \in opened
  /\ balance[Owner(w)] + Amount(w) >= 0

ReadAdjust(w) ==
  /\ at[w] = "read" /\ Op(w) = "adjust"
  /\ IF AdjustAdmitted(w) THEN Saw(w, "move") ELSE Goto(w, "release")
  /\ UNCHANGED <<wallet, books, lock, notices, acked, ghosts>>

-----------------------------------------------------------------------------
(* Transaction documents.                                                  *)

\* Mutant: no unique index on the idempotency key.
CreateUnindexed(w) ==
  /\ at[w] = "create" /\ Op(w) \in KeyedKinds
  /\ tx' = [tx EXCEPT ![Key(w)] = "PENDING"]
  /\ Goto(w, "move")
  /\ UNCHANGED <<wallet, issued, lock, notices, acked, ghosts>>

\* Insert a PENDING document; the unique index refuses a second one.
CreatePending(w) ==
  /\ at[w] = "create" /\ Op(w) \in KeyedKinds
  /\ IF tx[Key(w)] = "none"
     THEN tx' = [tx EXCEPT ![Key(w)] = "PENDING"] /\ Goto(w, "move")
     ELSE UNCHANGED tx /\ Goto(w, "release")
  /\ UNCHANGED <<wallet, issued, lock, notices, acked, ghosts>>

CreateRequest(w) ==
  /\ at[w] = "create" /\ Op(w) = "request"
  /\ tx' = [tx EXCEPT ![Key(w)] = "PENDING"]
  /\ Goto(w, "notify")
  /\ UNCHANGED <<wallet, issued, lock, notices, acked, ghosts>>

\* Mutant: the adjustment's insert is forgotten.
AdjustUnrecorded(w) ==
  /\ at[w] = "create" /\ Op(w) = "adjust"
  /\ Goto(w, "release")
  /\ UNCHANGED <<wallet, books, lock, notices, acked, ghosts>>

\* manualAdjustment records the movement after it was made.
RecordAdjust(w) ==
  /\ at[w] = "create" /\ Op(w) = "adjust"
  /\ tx' = [tx EXCEPT ![Key(w)] = "COMPLETED"]
  /\ Goto(w, "release")
  /\ UNCHANGED <<wallet, issued, lock, notices, acked, ghosts>>

\* Mutant: the status takes the word of the event.
MarkApproved(w) ==
  /\ at[w] = "mark"
  /\ tx' = [tx EXCEPT ![Key(w)] = "approved"]
  /\ Goto(w, IF Op(w) \in TradeKinds THEN "release" ELSE "notify")
  /\ UNCHANGED <<wallet, issued, lock, notices, acked, ghosts>>

\* markCompleted and markRejected overwrite the status unconditionally.
MarkCompleted(w) ==
  /\ at[w] = "mark"
  /\ tx' = [tx EXCEPT ![Key(w)] = "COMPLETED"]
  /\ Goto(w, IF Op(w) \in TradeKinds THEN "release" ELSE "notify")
  /\ UNCHANGED <<wallet, issued, lock, notices, acked, ghosts>>

MarkRejected(w) ==
  /\ at[w] = "reject"
  /\ tx' = [tx EXCEPT ![Key(w)] = "REJECTED"]
  /\ Goto(w, IF Op(w) \in TradeKinds THEN "release" ELSE "decline")
  /\ UNCHANGED <<wallet, issued, lock, notices, acked, ghosts>>

-----------------------------------------------------------------------------
(* Balance writes.                                                         *)

\* History: one more movement of Delta under w's key.
CountMove(w) ==
  /\ moved' = [moved EXCEPT ![Key(w)] = @ + 1]
  /\ ledger' = [ledger EXCEPT ![Owner(w)] = @ + Delta(Key(w))]

\* Unconditional $inc; a deposit also restarts the 48-hour hold.
CreditBalance(w) ==
  /\ at[w] = "move" /\ Op(w) \in {"deposit", "credit"}
  /\ balance' = [balance EXCEPT ![Owner(w)] = @ + Amount(w)]
  /\ onHold' = IF Op(w) = "deposit" THEN [onHold EXCEPT ![Owner(w)] = TRUE]
                                    ELSE onHold
  /\ CountMove(w)
  /\ Goto(w, "mark")
  /\ UNCHANGED <<opened, books, lock, notices, acked>>

\* Mutant: the $inc has no condition on the balance.
AlwaysCovered(w) == TRUE

\* $inc guarded by balance >= amount in one atomic update.
Covered(w) == balance[Owner(w)] >= Amount(w)

DebitBalance(w) ==
  /\ at[w] = "move" /\ Op(w) \in {"deduct", "approve"}
  /\ Covered(w)
  /\ balance' = [balance EXCEPT ![Owner(w)] = @ - Amount(w)]
  /\ CountMove(w)
  /\ Goto(w, "mark")
  /\ UNCHANGED <<opened, onHold, books, lock, notices, acked>>

\* Mutant: a debit that matched no wallet is marked completed.
DebitMissTaken(w) ==
  /\ at[w] = "move" /\ Op(w) \in {"deduct", "approve"}
  /\ ~Covered(w)
  /\ Goto(w, "mark")
  /\ UNCHANGED <<wallet, books, lock, notices, acked, ghosts>>

DebitRefused(w) ==
  /\ at[w] = "move" /\ Op(w) \in {"deduct", "approve"}
  /\ ~Covered(w)
  /\ Goto(w, "reject")
  /\ UNCHANGED <<wallet, books, lock, notices, acked, ghosts>>

\* $set of a balance computed from the one that was read.
SetBalance(w) ==
  /\ at[w] = "move" /\ Op(w) = "adjust"
  /\ balance' = [balance EXCEPT ![Owner(w)] = job[w].seen + Amount(w)]
  /\ CountMove(w)
  /\ Goto(w, "create")
  /\ UNCHANGED <<opened, onHold, books, lock, notices, acked>>

-----------------------------------------------------------------------------
(* Events, failures and time.                                              *)

\* Mutant: the refusal branch falls through to the approval event.
VerdictOfOperation(w) ==
  CASE Op(w) = "deposit" -> "credited"
    [] Op(w) = "request" -> "requested"
    [] OTHER -> "approved"

\* What the event published by w says.
Verdict(w) ==
  CASE at[w] = "decline" -> "declined"
    [] Op(w) = "deposit" -> "credited"
    [] Op(w) = "request" -> "requested"
    [] OTHER -> "approved"

Notify(w) ==
  /\ at[w] \in {"notify", "decline"}
  /\ notices' = notices \cup {<<Key(w), Verdict(w)>>}
  /\ IF Op(w) \in LockedOps THEN Goto(w, "release") ELSE Finish(w)
  /\ UNCHANGED <<wallet, books, lock, acked, ghosts>>

\* An awaited call throws: the finally block runs if the lock was taken.
\* (A write that was applied but whose answer was lost is the write followed
\* by the failure of the next call.)
Fail(w) ==
  /\ StepsMayFail
  /\ at[w] \notin {"idle", "notify", "decline", "release"}
  /\ IF InLock(w) THEN Goto(w, "release") ELSE Finish(w)
  /\ UNCHANGED <<wallet, books, lock, notices, acked, ghosts>>

\* The process dies: no finally block, the lock waits for its TTL.  So does a
\* request whose acquire was applied but not answered, or whose release threw.
Crash(w) ==
  /\ MayCrash
  /\ Busy(w)
  /\ lock' = [lock EXCEPT ![Owner(w)] =
                IF lock[Owner(w)] = w THEN Orphan ELSE lock[Owner(w)]]
  /\ Finish(w)
  /\ UNCHANGED <<wallet, books, notices, acked, ghosts>>

\* 48 hours have passed since the last deposit.
HoldExpires(u) ==
  /\ onHold[u]
  /\ onHold' = [onHold EXCEPT ![u] = FALSE]
  /\ UNCHANGED <<opened, balance, books, lock, at, job, notices, acked, ghosts>>

-----------------------------------------------------------------------------
Arrive(w, k) ==
  \/ DeliverFirst(w, k)
  \/ DeliverDuplicate(w, k)
  \/ RequestWithdrawal(w, k)
  \/ ApproveWithdrawal(w, k)
  \/ RejectWithdrawal(w, k)
  \/ ManualAdjustment(w, k)

Proceed(w) ==
  \/ Acquire(w) \/ Contended(w) \/ Release(w)
  \/ ReadDeposit(w) \/ ReadTrade(w) \/ ReadAdjust(w)
  \/ CreatePending(w) \/ CreateRequest(w) \/ RecordAdjust(w)
  \/ MarkCompleted(w) \/ MarkRejected(w)
  \/ CreditBalance(w) \/ DebitBalance(w) \/ DebitRefused(w) \/ SetBalance(w)
  \/ Notify(w)

Next ==
  \/ \E k \in Keys : InitiateDeposit(k) \/ PlaceOrder(k)
  \/ \E w \in Workers, k \in Keys : Arrive(w, k)
  \/ \E w \in Workers : Proceed(w) \/ Fail(w) \/ Crash(w)
  \/ \E u \in Users : ExpireOrphan(u) \/ Lapse(u) \/ HoldExpires(u) \/ OpenWallet(u)

Spec == Init /\ [][Next]_vars

\* Requests keep running, the TTL keeps counting, and Stripe redelivers a
\* webhook until it is answered 200.
Fairness ==
  /\ \A w \in Workers : WF_vars(Proceed(w))
  /\ \A u \in Users : WF_vars(ExpireOrphan(u))
  /\ \A k \in Keys : KindOf[k] = "deposit"
                       => SF_vars(\E w \in Workers : DeliverFirst(w, k))

FairSpec == Spec /\ Fairness

-----------------------------------------------------------------------------
(* Properties.                                                             *)

\* Every variable keeps its type.
TypeOK ==
  /\ opened \subseteq Users
  /\ balance \in [Users -> Int]
  /\ onHold \in [Users -> BOOLEAN]
  /\ issued \subseteq Keys
  /\ tx \in [Keys -> Statuses]
  /\ lock \in [Users -> Workers \cup {Free, Orphan}]
  /\ at \in [Workers -> Points]
  /\ job \in [Workers -> Job]
  /\ notices \subseteq Keys \X Verdicts
  /\ acked \subseteq Keys
  /\ moved \in [Keys -> Nat]
  /\ ledger \in [Users -> Int]

\* The wallets NegativeBalanceScheduler would report.
NegativeBalances == {u \in Users : balance[u] < 0}

\* No interleaving of deposits, trades, withdrawals and adjustments makes a
\* balance negative, even when the lock lapses or a request dies half-way:
\* the negative-balance scheduler never has anything to report.
NonNegativeBalance == NegativeBalances = {}

\* Webhook redelivery, repeated trade calls, crashes and lapsed locks never
\* make a deposit, a trade leg or an adjustment move money twice.
MovedAtMostOnce ==
  \A k \in Keys : KindOf[k] # "withdrawal" => moved[k] <= 1

\* The status of a deposit, trade leg or adjustment tells whether its money
\* moved, once the request that worked on it has written one.
StatusTellsMoney ==
  \A k \in Keys : KindOf[k] # "withdrawal" =>
    /\ tx[k] = "COMPLETED" => moved[k] = 1
    /\ tx[k] = "REJECTED" => moved[k] = 0

\* "Execute fn() inside an exclusive wallet lock": two requests are never
\* between acquire and release for one user.
MutualExclusion ==
  \A v, w \in Workers :
    InLock(v) /\ InLock(w) /\ Owner(v) = Owner(w) => v = w

\* No update is lost: a balance is the sum of the movements made, although an
\* adjustment writes an absolute value computed from an earlier read.
LedgerAgrees == balance = ledger

\* The check-and-delete script: finishing a request never removes a lock that
\* another request holds, whoever's token had expired.
ReleaseOnlyOwn ==
  [][\A w \in Workers : at[w] = "release" /\ at'[w] = "idle" =>
       \A u \in Users : lock[u] # w => lock'[u] = lock[u]]_vars

\* approveWithdrawal debits only a transaction that "must be PENDING": no
\* withdrawal is ever debited twice.
WithdrawalDebitedOnce ==
  \A k \in Keys : KindOf[k] = "withdrawal" => moved[k] <= 1

\* rejectWithdrawal: "No balance change. Transaction marked REJECTED."
RejectedUnmoved ==
  \A k \in Keys :
    KindOf[k] = "withdrawal" /\ tx[k] = "REJECTED" => moved[k] = 0

\* A withdrawal is debited at most once, and a settled one exactly if it was
\* approved.
WithdrawalPaidOnce ==
  /\ WithdrawalDebitedOnce
  /\ RejectedUnmoved
  /\ \A k \in Keys :
       KindOf[k] = "withdrawal" /\ tx[k] = "COMPLETED" => moved[k] = 1

\* A member is told the truth, and one thing only: money announced has moved,
\* and no withdrawal is announced both approved and declined.
NoticesAgree ==
  \A k \in Keys :
    /\ <<k, "credited">> \in notices => moved[k] = 1
    /\ <<k, "approved">> \in notices => moved[k] = 1
    /\ <<k, "declined">> \in notices => moved[k] = 0

\* What the transaction history adds up to for user u.
Booked(u) ==
  SumFunctionOnSet([k \in Keys |-> Delta(k)],
                   {k \in Keys : OwnerOf[k] = u /\ tx[k] = "COMPLETED"})

\* When nothing is in flight for a user, the COMPLETED records add up to the
\* balance: the statement of a member explains the money in the wallet.
HistoryExplainsBalance ==
  \A u \in Users :
    (\A w \in Workers : Busy(w) => Owner(w) # u) => balance[u] = Booked(u)

\* A repeated call answered "already processed" is about money that moved, or
\* that the request which created the document is still about to move.
AckedIsDone ==
  \A k \in acked :
    \/ moved[k] = 1
    \/ \E w \in Workers : at[w] = "move" /\ Key(w) = k

\* A deposit that was paid is credited and recorded.
DepositCredited ==
  \A k \in Keys : KindOf[k] = "deposit" =>
    (k \in issued ~> (moved[k] = 1 /\ tx[k] = "COMPLETED"))

\* The TTL promises that no crash leaves a wallet locked for good.
LockFreedAgain ==
  \A u \in Users : lock[u] # Free ~> lock[u] = Free

=============================================================================
