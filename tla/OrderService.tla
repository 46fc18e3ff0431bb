---------------------------- MODULE OrderService ----------------------------
(***************************************************************************)
(* The order module of the trading-service: buy and sell, one step per     *)
(* awaited call, composed with the wallet-service.  The wallet is the one  *)
(* WalletPromise describes (which WalletService is shown to implement),    *)
(* reached over HTTP by WalletClient.                                      *)
(*                                                                         *)
(* An order is one request: it is placed once, with the member, stock,     *)
(* side and number of shares that the constants give it.  The members are  *)
(* active and KYC-approved, the stocks are listed.                         *)
(***************************************************************************)
EXTENDS Integers, FiniteSetsExt

CONSTANTS
  Members, Stocks,
  Orders,        \* order ids, also the idempotency keys of the wallet calls
  Deposits,      \* the deposits that fund the wallets
  SideOf,        \* SideOf[o]: "BUY" or "SELL"
  MemberOf,      \* MemberOf[k]: whose order or deposit k is
  StockOf,       \* StockOf[o]: the stock traded
  SharesOf,      \* SharesOf[o]: how many shares
  PriceOf,       \* PriceOf[o]: price per share when o is placed; the amount
                 \* of a deposit
  Free, Orphan,  \* lock values: not held; held by a token whose owner died
  NoPosition,
  LockMayLapse,  \* may the TTL elapse while the holder is still working?
  CallsMayFail,  \* may a wallet call time out, or fail after the money moved?
  StepsMayFail,  \* may a database call throw?
  MayCrash       \* may a request die with its process?

ASSUME OrderAssumption ==
  /\ SideOf \in [Orders -> {"BUY", "SELL"}]
  /\ MemberOf \in [Orders \cup Deposits -> Members]
  /\ StockOf \in [Orders -> Stocks]
  /\ SharesOf \in [Orders -> Nat \ {0}]
  /\ PriceOf \in [Orders \cup Deposits -> Nat \ {0}]
  /\ Orders \cap Deposits = {}
  /\ Free \notin Orders /\ Orphan \notin Orders /\ Free # Orphan
  /\ NoPosition \notin [shares : Nat, invested : Nat, avg : Nat \X Nat]
  /\ {LockMayLapse, CallsMayFail, StepsMayFail, MayCrash} \subseteq BOOLEAN

VARIABLES
  cached,   \* stocks with an entry in the Redis cache
  priced,   \* orders for which the price read was a number
  lock,     \* lock[m]: the value of the member lock in Redis
  at,       \* at[o]: the call the request of o is about to make
  seen,     \* seen[o]: the position the request read or wrote last
  status,   \* status[o]: status of the order document, "none" if absent
  pos,      \* pos[<<m, s>>]: position document
  net,      \* net[o]: the HTTP exchange with the wallet
  traded,   \* trade.executed events published
  issued, balance, fate,  \* the wallet, see WalletPromise
  booked,   \* history: buys whose shares entered a position
  taken     \* history: sells whose shares left one and were not restored

wallet == <<issued, balance, fate>>
ghosts == <<booked, taken>>
vars == <<cached, priced, lock, at, seen, status, pos, net, traded, wallet, ghosts>>

-----------------------------------------------------------------------------
(* The wallet as the trading-service sees it.                              *)

Calls == Orders \cup Deposits

WalletKind ==
  [k \in Calls |-> IF k \in Deposits THEN "deposit"
                   ELSE IF SideOf[k] = "BUY" THEN "deduct" ELSE "credit"]

Cost(o) == SharesOf[o] * PriceOf[o]

WalletAmount == [k \in Calls |-> IF k \in Deposits THEN PriceOf[k] ELSE Cost(k)]

Wallet == INSTANCE WalletPromise
            WITH Users <- Members, Keys <- Calls, KindOf <- WalletKind,
                 OwnerOf <- MemberOf, AmountOf <- WalletAmount

-----------------------------------------------------------------------------
(* Requests and positions.                                                 *)

Statuses == {"none", "PENDING", "EXECUTED", "REJECTED"}

Points == {"idle", "lock", "take", "create", "call", "wait", "restore",
           "reject", "read", "write", "drop", "execute", "announce",
           "release", "done"}

Critical == Points \ {"idle", "lock", "done"}

Position == [shares : Nat, invested : Nat, avg : Nat \X Nat]

Buys == {o \in Orders : SideOf[o] = "BUY"}
Sells == Orders \ Buys

Place(o) == <<MemberOf[o], StockOf[o]>>
Held(o) == pos[Place(o)]
Busy(o) == at[o] \notin {"idle", "done"}
InLock(o) == at[o] \in Critical

Init ==
  /\ cached = {} /\ priced = {} /\ traded = {}
  /\ lock = [m \in Members |-> Free]
  /\ at = [o \in Orders |-> "idle"]
  /\ seen = [o \in Orders |-> NoPosition]
  /\ status = [o \in Orders |-> "none"]
  /\ pos = [p \in Members \X Stocks |-> NoPosition]
  /\ net = [o \in Orders |-> "none"]
  /\ Wallet!Init
  /\ booked = {} /\ taken = {}

Goto(o, p) == at' = [at EXCEPT ![o] = p]

Store(o, p) == pos' = [pos EXCEPT ![Place(o)] = p]

\* $inc of the shares alone.
WithShares(p, n) == [shares |-> n, invested |-> p.invested, avg |-> p.avg]

-----------------------------------------------------------------------------
(* Before the lock.                                                        *)

\* findById: a cache hit returns the JSON of a Decimal128, which parseFloat
\* turns into NaN; a miss reads the document and fills the cache.
Quote(o) ==
  /\ at[o] = "idle"
  /\ cached' = cached \cup {StockOf[o]}
  /\ priced' = IF StockOf[o] \in cached THEN priced ELSE priced \cup {o}
  /\ Goto(o, "lock")
  /\ UNCHANGED <<lock, seen, status, pos, net, traded, wallet, ghosts>>

\* The cache entry's TTL elapses, or update deletes it.
CacheExpires(s) ==
  /\ s \in cached
  /\ cached' = cached \ {s}
  /\ UNCHANGED <<priced, lock, at, seen, status, pos, net, traded, wallet, ghosts>>

\* Mutant: SET without NX.
AcquireAnyway(o) ==
  /\ at[o] = "lock"
  /\ lock' = [lock EXCEPT ![MemberOf[o]] = o]
  /\ Goto(o, IF o \in Buys THEN "create" ELSE "take")
  /\ UNCHANGED <<cached, priced, seen, status, pos, net, traded, wallet, ghosts>>

Acquire(o) ==
  /\ at[o] = "lock"
  /\ lock[MemberOf[o]] = Free
  /\ lock' = [lock EXCEPT ![MemberOf[o]] = o]
  /\ Goto(o, IF o \in Buys THEN "create" ELSE "take")
  /\ UNCHANGED <<cached, priced, seen, status, pos, net, traded, wallet, ghosts>>

\* The lock was held at the last of three attempts: 409.
GiveUp(o) ==
  /\ at[o] = "lock"
  /\ lock[MemberOf[o]] # Free
  /\ Goto(o, "done")
  /\ UNCHANGED <<cached, priced, lock, seen, status, pos, net, traded, wallet, ghosts>>

Release(o) ==
  /\ at[o] = "release"
  /\ lock' = [lock EXCEPT ![MemberOf[o]] =
                IF lock[MemberOf[o]] = o THEN Free ELSE @]
  /\ Goto(o, "done")
  /\ UNCHANGED <<cached, priced, seen, status, pos, net, traded, wallet, ghosts>>

\* The TTL removes a lock: always one whose owner died, and the one of a slow
\* request (a wallet call alone may last as long as the TTL).
Expire(m) ==
  /\ lock[m] = Orphan \/ (LockMayLapse /\ lock[m] # Free)
  /\ lock' = [lock EXCEPT ![m] = Free]
  /\ UNCHANGED <<cached, priced, at, seen, status, pos, net, traded, wallet, ghosts>>

-----------------------------------------------------------------------------
(* Selling takes the shares first, in one conditional update.              *)

\* Mutant: the update is not conditional on shares >= dto.shares.
EnoughAssumed(o) == Held(o) # NoPosition

Enough(o) == Held(o) # NoPosition /\ Held(o).shares >= SharesOf[o]

TakeShares(o) ==
  /\ at[o] = "take"
  /\ Enough(o)
  /\ LET left == WithShares(Held(o), Held(o).shares - SharesOf[o])
     IN  Store(o, left) /\ seen' = [seen EXCEPT ![o] = left]
  /\ taken' = taken \cup {o}
  /\ Goto(o, "create")
  /\ UNCHANGED <<cached, priced, lock, status, net, traded, wallet, booked>>

\* "Insufficient shares or position not found".
TakeRefused(o) ==
  /\ at[o] = "take"
  /\ ~Enough(o)
  /\ Goto(o, "release")
  /\ UNCHANGED <<cached, priced, lock, seen, status, pos, net, traded, wallet, ghosts>>

CreateOrder(o) ==
  /\ at[o] = "create"
  /\ status' = [status EXCEPT ![o] = "PENDING"]
  /\ Goto(o, "call")
  /\ UNCHANGED <<cached, priced, lock, seen, pos, net, traded, wallet, ghosts>>

-----------------------------------------------------------------------------
(* The wallet call.                                                        *)

\* The catch block: a sell restores its shares before it is rejected.
Compensate(o) == Goto(o, IF o \in Buys THEN "reject" ELSE "restore")

Post(o) ==
  /\ at[o] = "call"
  /\ o \in priced
  /\ Wallet!Ask(o)
  /\ net' = [net EXCEPT ![o] = "asked"]
  /\ Goto(o, "wait")
  /\ UNCHANGED <<cached, priced, lock, seen, status, pos, traded, ghosts>>

\* An amount that is not a number does not pass the wallet's validation.
PostInvalid(o) ==
  /\ at[o] = "call"
  /\ o \notin priced
  /\ Compensate(o)
  /\ UNCHANGED <<cached, priced, lock, seen, status, pos, net, traded, wallet, ghosts>>

\* The wallet moves the money; what it does afterwards may still fail.
WalletSettles(o) ==
  /\ net[o] = "asked"
  /\ Wallet!Apply(o)
  /\ \E answer \in {"ok"} \cup (IF CallsMayFail THEN {"error"} ELSE {}) :
       net' = [net EXCEPT ![o] = answer]
  /\ UNCHANGED <<cached, priced, lock, at, seen, status, pos, traded, ghosts>>

\* The wallet refuses, with or without a REJECTED document: no funds, no
\* wallet, or its lock was busy.
WalletRefuses(o) ==
  /\ net[o] = "asked"
  /\ Wallet!Refuse(o) \/ UNCHANGED wallet
  /\ net' = [net EXCEPT ![o] = "error"]
  /\ UNCHANGED <<cached, priced, lock, at, seen, status, pos, traded, ghosts>>

\* Mutant: an error answer is taken for a success.
AnswerUnread(o) ==
  /\ at[o] = "wait"
  /\ net[o] \in {"ok", "error"}
  /\ Goto(o, IF o \in Buys THEN "read" ELSE "drop")
  /\ UNCHANGED <<cached, priced, lock, seen, status, pos, net, traded, wallet, ghosts>>

Answered(o) ==
  /\ at[o] = "wait"
  /\ \/ net[o] = "ok" /\ Goto(o, IF o \in Buys THEN "read" ELSE "drop")
     \/ net[o] = "error" /\ Compensate(o)
  /\ UNCHANGED <<cached, priced, lock, seen, status, pos, net, traded, wallet, ghosts>>

\* axios gives up after 10 s, whatever the wallet does with the request.
TimeOut(o) ==
  /\ CallsMayFail
  /\ at[o] = "wait"
  /\ Compensate(o)
  /\ UNCHANGED <<cached, priced, lock, seen, status, pos, net, traded, wallet, ghosts>>

\* Another member action: the wallet is funded, whole operations at a time.
Fund(d) ==
  /\ d \in Deposits
  /\ Wallet!Ask(d) \/ Wallet!Apply(d)
  /\ UNCHANGED <<cached, priced, lock, at, seen, status, pos, net, traded, ghosts>>

\* Mutant: the rollback forgets the shares.
RestoreNothing(o) ==
  /\ at[o] = "restore"
  /\ taken' = taken \ {o}
  /\ Goto(o, "reject")
  /\ UNCHANGED <<cached, priced, lock, seen, status, pos, net, traded, wallet, booked>>

\* Rollback of a sell; there is nothing to update if the position is gone.
RestoreShares(o) ==
  /\ at[o] = "restore"
  /\ IF Held(o) = NoPosition THEN UNCHANGED pos
     ELSE Store(o, WithShares(Held(o), Held(o).shares + SharesOf[o]))
  /\ taken' = taken \ {o}
  /\ Goto(o, "reject")
  /\ UNCHANGED <<cached, priced, lock, seen, status, net, traded, wallet, booked>>

\* Mutant: the catch block throws without touching the order.
RejectUnmarked(o) ==
  /\ at[o] = "reject"
  /\ Goto(o, "release")
  /\ UNCHANGED <<cached, priced, lock, seen, status, pos, net, traded, wallet, ghosts>>

MarkRejected(o) ==
  /\ at[o] = "reject"
  /\ status' = [status EXCEPT ![o] = "REJECTED"]
  /\ Goto(o, "release")
  /\ UNCHANGED <<cached, priced, lock, seen, pos, net, traded, wallet, ghosts>>

-----------------------------------------------------------------------------
(* After the money: positions.                                             *)

\* upsertPosition, first half: findOne.
ReadPosition(o) ==
  /\ at[o] = "read"
  /\ seen' = [seen EXCEPT ![o] = Held(o)]
  /\ Goto(o, "write")
  /\ UNCHANGED <<cached, priced, lock, status, pos, net, traded, wallet, ghosts>>

Opened(o) == [shares |-> SharesOf[o], invested |-> Cost(o), avg |-> <<PriceOf[o], 1>>]

\* Mutants: the shares are $set from those that were read; the new average
\* ignores what was paid before.
GrownFromRead(o) ==
  LET total == seen[o].invested + Cost(o)
  IN  [shares |-> seen[o].shares + SharesOf[o],
       invested |-> total,
       avg |-> <<total, seen[o].shares + SharesOf[o]>>]

GrownFromLastPrice(o) ==
  [shares |-> Held(o).shares + SharesOf[o],
   invested |-> seen[o].invested + Cost(o),
   avg |-> <<PriceOf[o], 1>>]

\* $inc of the shares that are there, $set of figures computed from those
\* that were read.
Grown(o) ==
  LET total == seen[o].invested + Cost(o)
  IN  [shares |-> Held(o).shares + SharesOf[o],
       invested |-> total,
       avg |-> <<total, seen[o].shares + SharesOf[o]>>]

\* No position was read: insert one.
OpenPosition(o) ==
  /\ at[o] = "write"
  /\ seen[o] = NoPosition
  /\ Held(o) = NoPosition
  /\ Store(o, Opened(o))
  /\ booked' = booked \cup {o}
  /\ Goto(o, "execute")
  /\ UNCHANGED <<cached, priced, lock, seen, status, net, traded, wallet, taken>>

\* ... but the unique index on member and stock refuses a second one.
OpenRefused(o) ==
  /\ at[o] = "write"
  /\ seen[o] = NoPosition
  /\ Held(o) # NoPosition
  /\ Goto(o, "release")
  /\ UNCHANGED <<cached, priced, lock, seen, status, pos, net, traded, wallet, ghosts>>

GrowPosition(o) ==
  /\ at[o] = "write"
  /\ seen[o] # NoPosition
  /\ Held(o) # NoPosition
  /\ Store(o, Grown(o))
  /\ booked' = booked \cup {o}
  /\ Goto(o, "execute")
  /\ UNCHANGED <<cached, priced, lock, seen, status, net, traded, wallet, taken>>

\* findOneAndUpdate matches nothing when the position has been deleted.
GrowMissed(o) ==
  /\ at[o] = "write"
  /\ seen[o] # NoPosition
  /\ Held(o) = NoPosition
  /\ Goto(o, "execute")
  /\ UNCHANGED <<cached, priced, lock, seen, status, pos, net, traded, wallet, ghosts>>

\* A sell deletes a position that was empty after its $inc.
DropEmpty(o) ==
  /\ at[o] = "drop"
  /\ IF seen[o].shares = 0 THEN Store(o, NoPosition) ELSE UNCHANGED pos
  /\ Goto(o, "execute")
  /\ UNCHANGED <<cached, priced, lock, seen, status, net, traded, wallet, ghosts>>

Execute(o) ==
  /\ at[o] = "execute"
  /\ status' = [status EXCEPT ![o] = "EXECUTED"]
  /\ Goto(o, "announce")
  /\ UNCHANGED <<cached, priced, lock, seen, pos, net, traded, wallet, ghosts>>

\* Drop the portfolio cache and publish trade.executed; neither can throw.
Announce(o) ==
  /\ at[o] = "announce"
  /\ traded' = traded \cup {o}
  /\ Goto(o, "release")
  /\ UNCHANGED <<cached, priced, lock, seen, status, pos, net, wallet, ghosts>>

-----------------------------------------------------------------------------
(* Failures.                                                               *)

\* A Redis or database call throws.
Fail(o) ==
  /\ StepsMayFail
  /\ Busy(o) /\ at[o] \notin {"call", "wait", "announce", "release"}
  /\ Goto(o, IF InLock(o) THEN "release" ELSE "done")
  /\ UNCHANGED <<cached, priced, lock, seen, status, pos, net, traded, wallet, ghosts>>

Crash(o) ==
  /\ MayCrash
  /\ Busy(o)
  /\ lock' = [lock EXCEPT ![MemberOf[o]] = IF @ = o THEN Orphan ELSE @]
  /\ Goto(o, "done")
  /\ UNCHANGED <<cached, priced, seen, status, pos, net, traded, wallet, ghosts>>

-----------------------------------------------------------------------------
Proceed(o) ==
  \/ Acquire(o) \/ GiveUp(o) \/ Release(o)
  \/ TakeShares(o) \/ TakeRefused(o) \/ CreateOrder(o)
  \/ Post(o) \/ PostInvalid(o) \/ Answered(o)
  \/ RestoreShares(o) \/ MarkRejected(o)
  \/ ReadPosition(o) \/ OpenPosition(o) \/ OpenRefused(o)
  \/ GrowPosition(o) \/ GrowMissed(o)
  \/ DropEmpty(o) \/ Execute(o) \/ Announce(o)

Respond(o) == WalletSettles(o) \/ WalletRefuses(o)

Next ==
  \/ \E o \in Orders :
       Quote(o) \/ Proceed(o) \/ Respond(o) \/ TimeOut(o) \/ Fail(o) \/ Crash(o)
  \/ \E d \in Deposits : Fund(d)
  \/ \E s \in Stocks : CacheExpires(s)
  \/ \E m \in Members : Expire(m)

Spec == Init /\ [][Next]_vars

-----------------------------------------------------------------------------
(* Properties.                                                             *)

\* Every variable keeps its type; in particular no position ever holds a
\* negative number of shares, whatever lapses, times out or dies.
TypeOK ==
  /\ cached \subseteq Stocks /\ priced \subseteq Orders /\ traded \subseteq Orders
  /\ lock \in [Members -> Orders \cup {Free, Orphan}]
  /\ at \in [Orders -> Points]
  /\ seen \in [Orders -> Position \cup {NoPosition}]
  /\ status \in [Orders -> Statuses]
  /\ pos \in [Members \X Stocks -> Position \cup {NoPosition}]
  /\ net \in [Orders -> {"none", "asked", "ok", "error"}]
  /\ issued \subseteq Calls
  /\ balance \in [Members -> Int]
  /\ fate \in [Calls -> {"open", "applied", "refused"}]
  /\ booked \subseteq Buys /\ taken \subseteq Sells

\* The code's promise to the member: an EXECUTED order, and any share bought,
\* was settled by the wallet first, however calls and requests fail.
NothingUnpaid ==
  \A o \in Orders :
    status[o] = "EXECUTED" \/ o \in booked \/ o \in traded => fate[o] = "applied"

\* What makes NothingUnpaid inductive: buys and sells keep to their own calls,
\* and a request that is past its wallet call was answered by a wallet that
\* had moved the money.
SidesFit ==
  \A o \in Orders :
    /\ at[o] \in {"read", "write"} => o \in Buys
    /\ at[o] \in {"take", "restore", "drop"} => o \in Sells
    /\ o \in Sells /\ at[o] \in {"create", "call", "wait", "drop"}
         => seen[o] # NoPosition

PaidFirst ==
  \A o \in Orders :
    net[o] = "ok" \/ at[o] \in {"read", "write", "drop", "execute", "announce"}
      => fate[o] = "applied"

OrderInv == SidesFit /\ PaidFirst /\ NothingUnpaid

Shares(set) == SumFunctionOnSet(SharesOf, set)

Costs(set) == SumFunctionOnSet([o \in Orders |-> Cost(o)], set)

At(p, set) == {o \in set : Place(o) = p}

SharesIn(p) == IF pos[p] = NoPosition THEN 0 ELSE pos[p].shares

\* No share comes from nowhere: a position never holds more than was bought
\* and paid, less what was sold, even when the member lock lapses.
SharesBacked ==
  \A p \in DOMAIN pos :
    SharesIn(p) <= Shares(At(p, booked)) - Shares(At(p, taken))

\* No share is lost: while the lock does its work, upserts, rollbacks and
\* clean-ups of empty positions leave exactly what was bought and not sold.
SharesAgree ==
  \A p \in DOMAIN pos :
    SharesIn(p) = Shares(At(p, booked)) - Shares(At(p, taken))

\* Orders and wallet tell one story once a request is over: executed orders
\* were paid, and no other order moved money or shares.
BooksAgree ==
  \A o \in Orders : at[o] = "done" =>
    /\ fate[o] = "applied" <=> status[o] = "EXECUTED"
    /\ o \in booked \cup taken <=> status[o] = "EXECUTED"

\* "Atomic position upsert with weighted average cost calculation": as long
\* as nothing was sold, the average is what the shares cost, however many
\* buys run at once.
AverageOfBuys ==
  \A p \in DOMAIN pos :
    pos[p] # NoPosition /\ At(p, taken) = {} =>
      pos[p].avg[1] * Shares(At(p, booked))
        = pos[p].avg[2] * Costs(At(p, booked))

\* "Compensate: mark order rejected": a rejected order took no money.
RejectedUnpaid ==
  \A o \in Orders : status[o] = "REJECTED" => fate[o] # "applied"
=============================================================================
