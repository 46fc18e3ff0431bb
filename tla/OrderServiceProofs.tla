------------------------- MODULE OrderServiceProofs -------------------------
(***************************************************************************)
(* Proofs about OrderService, for every set of orders: what holds under    *)
(* every setting of the failure switches, what holds as long as no lock    *)
(* lapses under a live holder, and what holds if nothing fails; then about *)
(* the two settings of MCOrders.                                           *)
(***************************************************************************)
EXTENDS MCOrders, SumTheorems

\* The types hold before the first order.
LEMMA TypesInit == ASSUME OrderAssumption, Init PROVE TypeOK
  BY DEF OrderAssumption, Init, TypeOK, Wallet!Init, Statuses, Points, Calls

\* What the wallet may do leaves the types of its variables alone.
LEMMA WalletTypes ==
  ASSUME OrderAssumption, TypeOK, NEW k \in Calls,
         \/ Wallet!Ask(k) \/ Wallet!Apply(k) \/ Wallet!Refuse(k)
  PROVE  /\ issued' \subseteq Calls
         /\ balance' \in [Members -> Int]
         /\ fate' \in [Calls -> {"open", "applied", "refused"}]
<1>1. WalletAmount \in [Calls -> Int]
  BY DEF OrderAssumption, WalletAmount, Calls, Cost
<1>2. MemberOf[k] \in Members
  BY DEF OrderAssumption, Calls
<1>3. Wallet!After(k) \in Int
  BY <1>1, <1>2 DEF Wallet!After, TypeOK
<1>4. CASE Wallet!Ask(k)
  BY <1>4 DEF Wallet!Ask, TypeOK
<1>5. CASE Wallet!Apply(k)
  BY <1>3, <1>5 DEF Wallet!Apply, TypeOK
<1>6. CASE Wallet!Refuse(k)
  BY <1>6 DEF Wallet!Refuse, TypeOK
<1> QED
  BY <1>4, <1>5, <1>6

\* A settled fate is final.
LEMMA AppliedStays ==
  ASSUME OrderAssumption, TypeOK, NEW k \in Calls,
         \/ Wallet!Ask(k) \/ Wallet!Apply(k) \/ Wallet!Refuse(k)
  PROVE  /\ \A c \in Calls : fate[c] = "applied" => fate'[c] = "applied"
         /\ Wallet!Apply(k) => fate'[k] = "applied"
  BY DEF Wallet!Ask, Wallet!Apply, Wallet!Refuse, TypeOK

-----------------------------------------------------------------------------
(* Positions keep their type.                                              *)

\* The guarded $inc of a sell leaves a position of zero shares or more.
LEMMA TakenPosition ==
  ASSUME OrderAssumption, TypeOK, NEW o \in Orders, Enough(o)
  PROVE  WithShares(Held(o), Held(o).shares - SharesOf[o]) \in Position
<1>1. Held(o) \in Position
  BY DEF OrderAssumption, TypeOK, Held, Place, Enough, Calls
<1>2. SharesOf[o] \in Nat /\ Held(o).shares \in Nat /\ Held(o).shares >= SharesOf[o]
  BY <1>1 DEF OrderAssumption, Enough, Position
<1>3. Held(o).shares - SharesOf[o] \in Nat
  BY <1>2
<1> QED
  BY <1>1, <1>3 DEF Position, WithShares

\* Giving the shares of a failed sell back leaves a position a position.
LEMMA RestoredPosition ==
  ASSUME OrderAssumption, TypeOK, NEW o \in Orders, Held(o) # NoPosition
  PROVE  WithShares(Held(o), Held(o).shares + SharesOf[o]) \in Position
<1>1. Held(o) \in Position
  BY DEF OrderAssumption, TypeOK, Held, Place
<1>2. Held(o).shares + SharesOf[o] \in Nat
  BY <1>1 DEF OrderAssumption, Position
<1> QED
  BY <1>1, <1>2 DEF Position, WithShares

\* The first buy of a stock creates a position.
LEMMA OpenedPosition ==
  ASSUME OrderAssumption, NEW o \in Orders
  PROVE  Opened(o) \in Position
  BY DEF OrderAssumption, Opened, Position, Cost

\* A further buy leaves a position a position, whatever price it priced in.
LEMMA GrownPosition ==
  ASSUME OrderAssumption, TypeOK, NEW o \in Orders,
         Held(o) # NoPosition, seen[o] # NoPosition
  PROVE  Grown(o) \in Position
<1>1. Held(o) \in Position /\ seen[o] \in Position
  BY DEF OrderAssumption, TypeOK, Held, Place
<1>2. Cost(o) \in Nat /\ SharesOf[o] \in Nat
  BY DEF OrderAssumption, Cost
<1> QED
  BY <1>1, <1>2 DEF Grown, Position

-----------------------------------------------------------------------------
\* Types are preserved by every step of an order and of the wallet.
LEMMA TypesStep ==
  ASSUME OrderAssumption, TypeOK, SidesFit, [Next]_vars
  PROVE  TypeOK'
<1> USE DEF TypeOK
<1> DEFINE CallSet == Orders \cup Deposits
<1>1. ASSUME NEW o \in Orders, Quote(o) PROVE TypeOK'
  BY <1>1 DEF Quote, Goto, wallet, ghosts, OrderAssumption, Points
<1>2. ASSUME NEW o \in Orders, Acquire(o) \/ GiveUp(o) \/ Release(o) \/ Crash(o) PROVE TypeOK'
  BY <1>2 DEF Acquire, GiveUp, Release, Crash, Goto, wallet, ghosts, OrderAssumption, Points
<1>3. ASSUME NEW o \in Orders, TakeShares(o) PROVE TypeOK'
  <2> DEFINE left == WithShares(Held(o), Held(o).shares - SharesOf[o])
  <2>1. left \in Position
    BY <1>3, TakenPosition DEF TakeShares
  <2>2. o \in Sells
    BY <1>3 DEF TakeShares, SidesFit
  <2>3. pos' = [pos EXCEPT ![Place(o)] = left] /\ seen' = [seen EXCEPT ![o] = left]
    BY <1>3 DEF TakeShares, Store
  <2>4. at' = [at EXCEPT ![o] = "create"] /\ taken' = taken \cup {o}
        /\ UNCHANGED <<cached, priced, lock, status, net, traded, wallet, booked>>
    BY <1>3 DEF TakeShares, Goto
  <2> HIDE DEF left
  <2>5. /\ pos' \in [Members \X Stocks -> Position \cup {NoPosition}]
        /\ seen' \in [Orders -> Position \cup {NoPosition}]
    BY <2>1, <2>3
  <2> QED
    BY <2>2, <2>4, <2>5 DEF wallet, Points
<1>4. ASSUME NEW o \in Orders,
             TakeRefused(o) \/ PostInvalid(o) \/ Answered(o) \/ TimeOut(o)
               \/ OpenRefused(o) \/ GrowMissed(o) \/ Fail(o)
      PROVE TypeOK'
  BY <1>4 DEF TakeRefused, PostInvalid, Answered, TimeOut, OpenRefused, GrowMissed,
              Fail, Compensate, Goto, wallet, ghosts, Points
<1>5. ASSUME NEW o \in Orders, CreateOrder(o) \/ MarkRejected(o) \/ Execute(o) PROVE TypeOK'
  BY <1>5 DEF CreateOrder, MarkRejected, Execute, Goto, wallet, ghosts, Points, Statuses
<1>6. ASSUME NEW o \in Orders, Post(o) PROVE TypeOK'
  <2>1. o \in Calls
    BY DEF Calls
  <2>2. /\ issued' \subseteq Calls
        /\ balance' \in [Members -> Int]
        /\ fate' \in [Calls -> {"open", "applied", "refused"}]
    BY <1>6, <2>1, WalletTypes DEF Post
  <2> QED
    BY <1>6, <2>2 DEF Post, Goto, ghosts, Points
<1>7. ASSUME NEW o \in Orders, WalletSettles(o) \/ WalletRefuses(o) PROVE TypeOK'
  <2>1. o \in Calls
    BY DEF Calls
  <2>2. /\ issued' \subseteq Calls
        /\ balance' \in [Members -> Int]
        /\ fate' \in [Calls -> {"open", "applied", "refused"}]
    <3>1. CASE Wallet!Apply(o) \/ Wallet!Refuse(o)
      BY <2>1, <3>1, WalletTypes
    <3>2. CASE UNCHANGED wallet
      BY <3>2 DEF wallet
    <3> QED
      BY <1>7, <3>1, <3>2 DEF WalletSettles, WalletRefuses
  <2>3. net' \in [Orders -> {"none", "asked", "ok", "error"}]
    <3>1. PICK answer \in {"ok", "error"} : net' = [net EXCEPT ![o] = answer]
      <4>1. CASE WalletSettles(o)
        BY <4>1, Zenon DEF WalletSettles
      <4>2. CASE WalletRefuses(o)
        BY <4>2 DEF WalletRefuses
      <4> QED
        BY <1>7, <4>1, <4>2
    <3> QED
      BY <3>1
  <2> QED
    BY <1>7, <2>2, <2>3 DEF WalletSettles, WalletRefuses, ghosts
<1>8. ASSUME NEW d \in Deposits, Fund(d) PROVE TypeOK'
  <2>1. d \in Calls
    BY DEF Calls
  <2>2. /\ issued' \subseteq Calls
        /\ balance' \in [Members -> Int]
        /\ fate' \in [Calls -> {"open", "applied", "refused"}]
    BY <1>8, <2>1, WalletTypes DEF Fund
  <2> QED
    BY <1>8, <2>2 DEF Fund, ghosts
<1>9. ASSUME NEW o \in Orders, RestoreShares(o) PROVE TypeOK'
  <2> DEFINE back == WithShares(Held(o), Held(o).shares + SharesOf[o])
  <2>1. Held(o) # NoPosition => back \in Position
    BY RestoredPosition
  <2>2. pos' = pos \/ (Held(o) # NoPosition /\ pos' = [pos EXCEPT ![Place(o)] = back])
    BY <1>9 DEF RestoreShares, Store
  <2> HIDE DEF back
  <2>3. pos' \in [Members \X Stocks -> Position \cup {NoPosition}]
    BY <2>1, <2>2
  <2> QED
    BY <1>9, <2>3 DEF RestoreShares, Goto, wallet, Points
<1>10. ASSUME NEW o \in Orders, ReadPosition(o) PROVE TypeOK'
  <2>1. Held(o) \in Position \cup {NoPosition}
    BY DEF Held, Place, OrderAssumption
  <2> QED
    BY <1>10, <2>1 DEF ReadPosition, Goto, wallet, ghosts, Points
<1>11. ASSUME NEW o \in Orders, OpenPosition(o) \/ GrowPosition(o) PROVE TypeOK'
  <2>1. PICK p \in Position : pos' = [pos EXCEPT ![Place(o)] = p]
    BY <1>11, OpenedPosition, GrownPosition DEF OpenPosition, GrowPosition, Store
  <2>2. o \in Buys
    BY <1>11 DEF OpenPosition, GrowPosition, SidesFit
  <2> QED
    BY <1>11, <2>1, <2>2 DEF OpenPosition, GrowPosition, Goto, wallet, Points
<1>12. ASSUME NEW o \in Orders, DropEmpty(o) PROVE TypeOK'
  BY <1>12 DEF DropEmpty, Store, Goto, wallet, ghosts, Points
<1>13. ASSUME NEW o \in Orders, Announce(o) PROVE TypeOK'
  BY <1>13 DEF Announce, Goto, wallet, ghosts, Points
<1>14. ASSUME NEW s \in Stocks, CacheExpires(s) PROVE TypeOK'
  BY <1>14 DEF CacheExpires, wallet, ghosts
<1>15. ASSUME NEW m \in Members, Expire(m) PROVE TypeOK'
  BY <1>15 DEF Expire, wallet, ghosts
<1>16. CASE UNCHANGED vars
  BY <1>16 DEF vars, wallet, ghosts
<1> QED
  BY <1>1, <1>2, <1>3, <1>4, <1>5, <1>6, <1>7, <1>8, <1>9, <1>10, <1>11, <1>12,
     <1>13, <1>14, <1>15, <1>16 DEF Next, Proceed, Respond

-----------------------------------------------------------------------------
\* A request reaches a call only along the path of its side.
LEMMA SidesStep ==
  ASSUME OrderAssumption, TypeOK, SidesFit, [Next]_vars
  PROVE  SidesFit'
<1> USE DEF SidesFit, TypeOK, Goto
<1>1. ASSUME NEW o \in Orders, TakeShares(o) PROVE SidesFit'
  <2>1. WithShares(Held(o), Held(o).shares - SharesOf[o]) # NoPosition
    BY <1>1, TakenPosition DEF TakeShares, OrderAssumption, Position
  <2>2. seen' = [seen EXCEPT ![o] = WithShares(Held(o), Held(o).shares - SharesOf[o])]
    BY <1>1 DEF TakeShares
  <2>3. at' = [at EXCEPT ![o] = "create"]
    BY <1>1 DEF TakeShares
  <2> QED
    BY <2>1, <2>2, <2>3
<1>2. ASSUME NEW o \in Orders, Acquire(o) PROVE SidesFit'
  BY <1>2 DEF Acquire, Sells
<1>3. ASSUME NEW o \in Orders, ReadPosition(o) PROVE SidesFit'
  BY <1>3 DEF ReadPosition, Buys, Sells
<1>4. ASSUME NEW o \in Orders, Answered(o) PROVE SidesFit'
  BY <1>4 DEF Answered, Compensate, Sells
<1>5. ASSUME NEW o \in Orders, PostInvalid(o) \/ TimeOut(o) PROVE SidesFit'
  BY <1>5 DEF PostInvalid, TimeOut, Compensate, Sells
<1>6. ASSUME NEW o \in Orders,
             Quote(o) \/ GiveUp(o) \/ Release(o) \/ TakeRefused(o) \/ CreateOrder(o)
               \/ Post(o) \/ RestoreShares(o) \/ MarkRejected(o) \/ OpenPosition(o)
               \/ OpenRefused(o) \/ GrowPosition(o) \/ GrowMissed(o) \/ DropEmpty(o)
               \/ Execute(o) \/ Announce(o) \/ Fail(o) \/ Crash(o)
      PROVE SidesFit'
  BY <1>6 DEF Quote, GiveUp, Release, TakeRefused, CreateOrder, Post, RestoreShares,
              MarkRejected, OpenPosition, OpenRefused, GrowPosition, GrowMissed,
              DropEmpty, Execute, Announce, Fail, Crash
<1>7. ASSUME NEW o \in Orders, Respond(o) PROVE SidesFit'
  BY <1>7 DEF Respond, WalletSettles, WalletRefuses
<1>8. ASSUME NEW d \in Deposits, Fund(d) PROVE SidesFit'
  BY <1>8 DEF Fund
<1>9. ASSUME NEW s \in Stocks, CacheExpires(s) PROVE SidesFit'
  BY <1>9 DEF CacheExpires
<1>10. ASSUME NEW m \in Members, Expire(m) PROVE SidesFit'
  BY <1>10 DEF Expire
<1>11. CASE UNCHANGED vars
  BY <1>11 DEF vars
<1> QED
  BY <1>1, <1>2, <1>3, <1>4, <1>5, <1>6, <1>7, <1>8, <1>9, <1>10, <1>11
  DEF Next, Proceed

\* What was applied stays applied, so PaidFirst and NothingUnpaid need only be
\* looked at where a request moves past its wallet call.
LEMMA PaidStep ==
  ASSUME OrderAssumption, TypeOK, PaidFirst, NothingUnpaid, [Next]_vars
  PROVE  PaidFirst' /\ NothingUnpaid'
<1> USE DEF PaidFirst, NothingUnpaid, TypeOK, Goto
<1>1. \A o \in Orders : o \in Calls
  BY DEF Calls
<1>2. ASSUME NEW o \in Orders, Answered(o) PROVE PaidFirst' /\ NothingUnpaid'
  BY <1>2 DEF Answered, Compensate, wallet, ghosts
<1>3. ASSUME NEW o \in Orders, Post(o) PROVE PaidFirst' /\ NothingUnpaid'
  <2>1. \A c \in Calls : fate[c] = "applied" => fate'[c] = "applied"
    BY <1>1, <1>3, AppliedStays DEF Post
  <2> QED
    BY <1>1, <1>3, <2>1 DEF Post, ghosts
<1>4. ASSUME NEW o \in Orders, Respond(o) PROVE PaidFirst' /\ NothingUnpaid'
  <2>1. \A c \in Calls : fate[c] = "applied" => fate'[c] = "applied"
    <3>1. CASE Wallet!Apply(o) \/ Wallet!Refuse(o)
      BY <1>1, <3>1, AppliedStays
    <3>2. CASE UNCHANGED wallet
      BY <3>2 DEF wallet
    <3> QED
      BY <1>4, <3>1, <3>2 DEF Respond, WalletSettles, WalletRefuses
  <2>2. /\ net' = [net EXCEPT ![o] = net'[o]]
        /\ net'[o] = "ok" => fate'[o] = "applied"
    <3>1. CASE WalletSettles(o)
      <4>1. fate'[o] = "applied"
        BY <1>1, <3>1, AppliedStays DEF WalletSettles
      <4>2. PICK answer : net' = [net EXCEPT ![o] = answer]
        BY <3>1, Zenon DEF WalletSettles
      <4> QED
        BY <4>1, <4>2
    <3>2. CASE WalletRefuses(o)
      BY <3>2 DEF WalletRefuses
    <3> QED
      BY <1>4, <3>1, <3>2 DEF Respond
  <2>3. UNCHANGED <<at, status, traded, booked>>
    BY <1>4 DEF Respond, WalletSettles, WalletRefuses, ghosts
  <2> QED
    BY <1>1, <2>1, <2>2, <2>3
<1>5. ASSUME NEW d \in Deposits, Fund(d) PROVE PaidFirst' /\ NothingUnpaid'
  <2>1. d \in Calls
    BY DEF Calls
  <2>2. \A c \in Calls : fate[c] = "applied" => fate'[c] = "applied"
    BY <1>5, <2>1, AppliedStays DEF Fund
  <2> QED
    BY <1>1, <1>5, <2>2 DEF Fund, ghosts
<1>6. ASSUME NEW o \in Orders,
             ReadPosition(o) \/ OpenPosition(o) \/ GrowPosition(o) \/ GrowMissed(o)
               \/ DropEmpty(o) \/ Execute(o) \/ Announce(o)
      PROVE PaidFirst' /\ NothingUnpaid'
  BY <1>6 DEF ReadPosition, OpenPosition, GrowPosition, GrowMissed, DropEmpty, Execute,
              Announce, wallet, ghosts
<1>7. ASSUME NEW o \in Orders,
             Quote(o) \/ Acquire(o) \/ GiveUp(o) \/ Release(o) \/ TakeShares(o)
               \/ TakeRefused(o) \/ CreateOrder(o) \/ PostInvalid(o) \/ TimeOut(o)
               \/ RestoreShares(o) \/ MarkRejected(o) \/ OpenRefused(o)
               \/ Fail(o) \/ Crash(o)
      PROVE PaidFirst' /\ NothingUnpaid'
  BY <1>7 DEF Quote, Acquire, GiveUp, Release, TakeShares, TakeRefused, CreateOrder,
              PostInvalid, TimeOut, RestoreShares, MarkRejected, OpenRefused, Fail, Crash,
              Compensate, wallet, ghosts
<1>8. ASSUME NEW s \in Stocks, CacheExpires(s) PROVE PaidFirst' /\ NothingUnpaid'
  BY <1>8 DEF CacheExpires, wallet, ghosts
<1>9. ASSUME NEW m \in Members, Expire(m) PROVE PaidFirst' /\ NothingUnpaid'
  BY <1>9 DEF Expire, wallet, ghosts
<1>10. CASE UNCHANGED vars
  BY <1>10 DEF vars, wallet, ghosts
<1> QED
  BY <1>2, <1>3, <1>4, <1>5, <1>6, <1>7, <1>8, <1>9, <1>10 DEF Next, Proceed

-----------------------------------------------------------------------------
(* Theorems.                                                               *)

\* Orders, positions and wallet keep their types under every interleaving and
\* failure: buy and sell never leave a negative number of shares.
THEOREM OrderTypes == Spec => []TypeOK
<1>1. Init => TypeOK /\ SidesFit
  BY TypesInit, OrderAssumption DEF Init, SidesFit
<1>2. TypeOK /\ SidesFit /\ [Next]_vars => TypeOK' /\ SidesFit'
  BY TypesStep, SidesStep, OrderAssumption
<1> QED
  BY <1>1, <1>2, PTL DEF Spec

\* buy and sell execute, book and announce only what the wallet has settled,
\* although every call may time out, every step fail and every lock lapse.
THEOREM NothingIsUnpaid == Spec => []NothingUnpaid
<1>1. Init => PaidFirst /\ NothingUnpaid
  BY DEF Init, PaidFirst, NothingUnpaid
<1>2. TypeOK /\ PaidFirst /\ NothingUnpaid /\ [Next]_vars => PaidFirst' /\ NothingUnpaid'
  BY PaidStep, OrderAssumption
<1> QED
  BY <1>1, <1>2, OrderTypes, PTL DEF Spec

-----------------------------------------------------------------------------
(* Sums over the orders at one place.                                      *)

\* An order that enters a set adds its value to the sum at its own place.
LEMMA PutIn ==
  ASSUME NEW f \in [Orders -> Int], NEW set \in SUBSET Orders, IsFiniteSet(set),
         NEW o \in Orders \ set, NEW p
  PROVE  /\ SumFunctionOnSet(f, At(p, set)) \in Int
         /\ SumFunctionOnSet(f, At(p, set \cup {o}))
              = SumFunctionOnSet(f, At(p, set)) + (IF Place(o) = p THEN f[o] ELSE 0)
<1> DEFINE S == At(p, set)
<1>1. IsFiniteSet(S) /\ (\A x \in S : f[x] \in Int) /\ o \notin S /\ f[o] \in Int
  BY FS_Subset DEF At
<1>2. At(p, set \cup {o}) = IF Place(o) = p THEN S \cup {o} ELSE S
  BY DEF At
<1> HIDE DEF S
<1>3. SumFunctionOnSet(f, S) \in Int
  BY <1>1, SumType
<1>4. SumFunctionOnSet(f, S \cup {o}) = SumFunctionOnSet(f, S) + f[o]
  BY <1>1, SumAdd
<1>5. QED  BY <1>2, <1>3, <1>4 DEF S

\* The shares and the costs of the orders are numbers.
LEMMA OrderValues ==
  /\ SharesOf \in [Orders -> Int]
  /\ [o \in Orders |-> Cost(o)] \in [Orders -> Int]
  BY OrderAssumption DEF Cost

\* A finite set of orders owns a number of shares, none only if it is empty.
LEMMA SharesTyped ==
  ASSUME NEW set \in SUBSET Orders, IsFiniteSet(set), NEW p
  PROVE  /\ Shares(At(p, set)) \in Nat
         /\ Shares(At(p, set)) = 0 => At(p, set) = {}
<1>1. IsFiniteSet(At(p, set)) /\ \A x \in At(p, set) : SharesOf[x] \in Nat \ {0}
  BY FS_Subset, OrderAssumption DEF At
<1>2. QED  BY <1>1, SumPositive DEF Shares

\* So it is for shares ...
LEMMA SharesPutIn ==
  ASSUME NEW set \in SUBSET Orders, IsFiniteSet(set), NEW o \in Orders \ set, NEW p
  PROVE  Shares(At(p, set \cup {o}))
           = Shares(At(p, set)) + (IF Place(o) = p THEN SharesOf[o] ELSE 0)
  BY OrderValues, PutIn DEF Shares

\* ... and for what they cost.
LEMMA CostsPutIn ==
  ASSUME NEW set \in SUBSET Orders, IsFiniteSet(set), NEW o \in Orders \ set, NEW p
  PROVE  /\ Costs(At(p, set)) \in Int
         /\ Costs(At(p, set \cup {o}))
              = Costs(At(p, set)) + (IF Place(o) = p THEN Cost(o) ELSE 0)
<1> DEFINE f == [x \in Orders |-> Cost(x)]
<1>1. f \in [Orders -> Int] /\ f[o] = Cost(o)
  BY OrderValues
<1>2. Costs(At(p, set)) = SumFunctionOnSet(f, At(p, set))
      /\ Costs(At(p, set \cup {o})) = SumFunctionOnSet(f, At(p, set \cup {o}))
  BY DEF Costs
<1> HIDE DEF f
<1>3. QED  BY <1>1, <1>2, PutIn

\* What is owed changes by the shares of the order that is booked, taken or
\* given back, at its place only.
LEMMA OwedBooked ==
  ASSUME TypeOK, HistoryFits, NEW o \in Orders \ booked, booked' = booked \cup {o},
         UNCHANGED taken, NEW p
  PROVE  /\ Owed(p) \in Int
         /\ Owed(p)' = Owed(p) + (IF Place(o) = p THEN SharesOf[o] ELSE 0)
<1>1. booked \in SUBSET Orders /\ taken \in SUBSET Orders
  BY DEF TypeOK, Buys, Sells
<1>2. Shares(At(p, booked)) \in Int /\ Shares(At(p, taken)) \in Int
  BY <1>1, SharesTyped DEF HistoryFits
<1>3. Shares(At(p, booked \cup {o}))
        = Shares(At(p, booked)) + (IF Place(o) = p THEN SharesOf[o] ELSE 0)
  BY <1>1, SharesPutIn DEF HistoryFits
<1>4. SharesOf[o] \in Int  BY OrderValues
<1>5. Owed(p)' = Shares(At(p, booked \cup {o})) - Shares(At(p, taken))
  BY DEF Owed, Shares, At, Place
<1>6. QED  BY <1>2, <1>3, <1>4, <1>5 DEF Owed

\* An order that takes shares lowers what its position is owed by as many.
LEMMA OwedTaken ==
  ASSUME TypeOK, HistoryFits, NEW o \in Orders \ taken, taken' = taken \cup {o},
         UNCHANGED booked, NEW p
  PROVE  /\ Owed(p) \in Int
         /\ Owed(p)' = Owed(p) - (IF Place(o) = p THEN SharesOf[o] ELSE 0)
<1>1. booked \in SUBSET Orders /\ taken \in SUBSET Orders
  BY DEF TypeOK, Buys, Sells
<1>2. Shares(At(p, booked)) \in Int /\ Shares(At(p, taken)) \in Int
  BY <1>1, SharesTyped DEF HistoryFits
<1>3. Shares(At(p, taken \cup {o}))
        = Shares(At(p, taken)) + (IF Place(o) = p THEN SharesOf[o] ELSE 0)
  BY <1>1, SharesPutIn DEF HistoryFits
<1>4. SharesOf[o] \in Int  BY OrderValues
<1>5. Owed(p)' = Shares(At(p, booked)) - Shares(At(p, taken \cup {o}))
  BY DEF Owed, Shares, At, Place
<1>6. QED  BY <1>2, <1>3, <1>4, <1>5 DEF Owed

\* An order that gives shares back raises what its position is owed by as many.
LEMMA OwedRestored ==
  ASSUME TypeOK, HistoryFits, NEW o \in taken, taken' = taken \ {o},
         UNCHANGED booked, NEW p
  PROVE  /\ Owed(p) \in Int
         /\ Owed(p)' = Owed(p) + (IF Place(o) = p THEN SharesOf[o] ELSE 0)
<1> DEFINE rest == taken \ {o}
<1>1. /\ booked \in SUBSET Orders /\ rest \in SUBSET Orders
      /\ o \in Orders \ rest /\ taken = rest \cup {o} /\ taken \in SUBSET Orders
  BY DEF TypeOK, Buys, Sells
<1>2. IsFiniteSet(rest)  BY FS_Subset DEF HistoryFits
<1> HIDE DEF rest
<1>3. Shares(At(p, booked)) \in Int /\ Shares(At(p, rest)) \in Int
  BY <1>1, <1>2, SharesTyped DEF HistoryFits
<1>4. Shares(At(p, rest \cup {o}))
        = Shares(At(p, rest)) + (IF Place(o) = p THEN SharesOf[o] ELSE 0)
  BY <1>1, <1>2, SharesPutIn
<1>5. SharesOf[o] \in Int  BY <1>1, OrderValues
<1>6. Owed(p)' = Shares(At(p, booked)) - Shares(At(p, rest))
  BY DEF Owed, Shares, At, Place, rest
<1>7. QED  BY <1>1, <1>3, <1>4, <1>5, <1>6 DEF Owed

-----------------------------------------------------------------------------
(* BackedInv: no assumption on the switches.                               *)

\* Each share is counted once, and only where its order can be.
LEMMA HistoryStep ==
  ASSUME TypeOK, SidesFit, HistoryFits, [Next]_vars
  PROVE  HistoryFits'
<1> USE DEF TypeOK, HistoryFits, Goto, Selling, ghosts
<1>1. ASSUME NEW o \in Orders,
             Quote(o) \/ Acquire(o) \/ GiveUp(o) \/ Release(o) \/ TakeRefused(o)
      PROVE  HistoryFits'
  BY <1>1 DEF Quote, Acquire, GiveUp, Release, TakeRefused, Sells
<1>2. ASSUME NEW o \in Orders, TakeShares(o)
      PROVE  HistoryFits'
  <2>1. IsFiniteSet(taken')
    BY <1>2, FS_AddElement DEF TakeShares
  <2>2. o \in Sells  BY <1>2 DEF TakeShares, SidesFit
  <2>3. QED  BY <1>2, <2>1, <2>2 DEF TakeShares
<1>3. ASSUME NEW o \in Orders, RestoreShares(o)
      PROVE  HistoryFits'
  <2>1. IsFiniteSet(taken')
    BY <1>3, FS_RemoveElement, FS_Subset DEF RestoreShares
  <2>2. QED  BY <1>3, <2>1 DEF RestoreShares
<1>4. ASSUME NEW o \in Orders,
             CreateOrder(o) \/ Post(o) \/ PostInvalid(o) \/ TimeOut(o) \/ Answered(o)
      PROVE  HistoryFits'
  BY <1>4 DEF CreateOrder, Post, PostInvalid, TimeOut, Answered, Compensate, Sells
<1>5. ASSUME NEW o \in Orders,
             MarkRejected(o) \/ ReadPosition(o) \/ OpenRefused(o) \/ GrowMissed(o)
               \/ DropEmpty(o) \/ Execute(o) \/ Announce(o)
      PROVE  HistoryFits'
  BY <1>5 DEF MarkRejected, ReadPosition, OpenRefused, GrowMissed, DropEmpty, Execute,
              Announce
<1>6. ASSUME NEW o \in Orders, OpenPosition(o) \/ GrowPosition(o)
      PROVE  HistoryFits'
  <2>1. IsFiniteSet(booked')
    BY <1>6, FS_AddElement DEF OpenPosition, GrowPosition
  <2>2. QED  BY <1>6, <2>1 DEF OpenPosition, GrowPosition
<1>7. ASSUME NEW o \in Orders, Fail(o) \/ Crash(o)
      PROVE  HistoryFits'
  BY <1>7 DEF Fail, Crash, Busy, InLock, Critical
<1>8. ASSUME UNCHANGED <<at, booked, taken>>
      PROVE  HistoryFits'
  BY <1>8
<1>9. ASSUME NEW o \in Orders, Respond(o)
      PROVE  HistoryFits'
  BY <1>8, <1>9 DEF Respond, WalletSettles, WalletRefuses
<1>10. ASSUME NEW d \in Deposits, Fund(d)
       PROVE  HistoryFits'
  BY <1>8, <1>10 DEF Fund
<1>11. ASSUME NEW s \in Stocks, CacheExpires(s)
       PROVE  HistoryFits'
  BY <1>8, <1>11 DEF CacheExpires
<1>12. ASSUME NEW m \in Members, Expire(m)
       PROVE  HistoryFits'
  BY <1>8, <1>12 DEF Expire
<1>13. CASE UNCHANGED vars
  BY <1>8, <1>13 DEF vars
<1>14. QED
  BY <1>1, <1>2, <1>3, <1>4, <1>5, <1>6, <1>7, <1>9, <1>10, <1>11, <1>12, <1>13
  DEF Next, Proceed

\* What the steps that touch positions make of the shares at each place.
LEMMA SharesMove ==
  ASSUME TypeOK, SidesFit, NEW o \in Orders, NEW p \in DOMAIN pos
  PROVE  /\ TakeShares(o) =>
              SharesIn(p)' = SharesIn(p) - (IF Place(o) = p THEN SharesOf[o] ELSE 0)
         /\ OpenPosition(o) \/ GrowPosition(o) \/ (RestoreShares(o) /\ Held(o) # NoPosition) =>
              SharesIn(p)' = SharesIn(p) + (IF Place(o) = p THEN SharesOf[o] ELSE 0)
         /\ RestoreShares(o) /\ Held(o) = NoPosition => SharesIn(p)' = SharesIn(p)
         /\ DropEmpty(o) =>
              \/ SharesIn(p)' = SharesIn(p)
              \/ Place(o) = p /\ seen[o].shares = 0 /\ SharesIn(p)' = 0
<1> DEFINE q == Place(o)
<1>0. /\ q \in Members \X Stocks /\ p \in Members \X Stocks
      /\ SharesOf[o] \in Nat /\ NoPosition \notin Position
      /\ pos \in [Members \X Stocks -> Position \cup {NoPosition}]
  BY OrderAssumption DEF TypeOK, Place, Position
<1>1. SharesIn(p) \in Nat
  BY <1>0 DEF SharesIn, Position
<1>2. ASSUME NEW new \in Position, pos' = [pos EXCEPT ![q] = new]
      PROVE  SharesIn(p)' = IF q = p THEN new.shares ELSE SharesIn(p)
  BY <1>0, <1>2 DEF SharesIn
<1>3. ASSUME pos' = [pos EXCEPT ![q] = NoPosition]
      PROVE  SharesIn(p)' = IF q = p THEN 0 ELSE SharesIn(p)
  BY <1>0, <1>3 DEF SharesIn
<1>4. Held(o) # NoPosition => Held(o) \in Position /\ (q = p => SharesIn(p) = Held(o).shares)
  BY <1>0 DEF Held, SharesIn
<1>5. Held(o) = NoPosition /\ q = p => SharesIn(p) = 0
  BY DEF Held, SharesIn
<1>6. ASSUME TakeShares(o)
      PROVE  SharesIn(p)' = SharesIn(p) - (IF Place(o) = p THEN SharesOf[o] ELSE 0)
  <2> DEFINE left == WithShares(Held(o), Held(o).shares - SharesOf[o])
  <2>1. left \in Position /\ pos' = [pos EXCEPT ![q] = left] /\ Held(o) # NoPosition
    BY <1>6, OrderAssumption, TakenPosition DEF TakeShares, Store, Enough
  <2>2. left.shares = Held(o).shares - SharesOf[o]
    BY DEF WithShares
  <2> HIDE DEF left, q
  <2>3. SharesIn(p)' = IF q = p THEN left.shares ELSE SharesIn(p)
    BY <1>2, <2>1
  <2>4. QED  BY <1>0, <1>1, <1>4, <2>1, <2>2, <2>3 DEF q
<1>7. ASSUME RestoreShares(o), Held(o) # NoPosition
      PROVE  SharesIn(p)' = SharesIn(p) + (IF Place(o) = p THEN SharesOf[o] ELSE 0)
  <2> DEFINE back == WithShares(Held(o), Held(o).shares + SharesOf[o])
  <2>1. back \in Position /\ pos' = [pos EXCEPT ![q] = back]
    BY <1>7, OrderAssumption, RestoredPosition DEF RestoreShares, Store
  <2>2. back.shares = Held(o).shares + SharesOf[o]
    BY DEF WithShares
  <2> HIDE DEF back, q
  <2>3. SharesIn(p)' = IF q = p THEN back.shares ELSE SharesIn(p)
    BY <1>2, <2>1
  <2>4. QED  BY <1>0, <1>1, <1>4, <1>7, <2>2, <2>3 DEF q
<1>8. ASSUME OpenPosition(o)
      PROVE  SharesIn(p)' = SharesIn(p) + (IF Place(o) = p THEN SharesOf[o] ELSE 0)
  <2>1. /\ Opened(o) \in Position /\ pos' = [pos EXCEPT ![q] = Opened(o)]
        /\ Held(o) = NoPosition /\ Opened(o).shares = SharesOf[o]
    BY <1>8, OrderAssumption, OpenedPosition DEF OpenPosition, Store, Opened
  <2> HIDE DEF q
  <2>2. SharesIn(p)' = IF q = p THEN Opened(o).shares ELSE SharesIn(p)
    BY <1>2, <2>1
  <2>3. QED  BY <1>0, <1>1, <1>5, <2>1, <2>2 DEF q
<1>9. ASSUME GrowPosition(o)
      PROVE  SharesIn(p)' = SharesIn(p) + (IF Place(o) = p THEN SharesOf[o] ELSE 0)
  <2>1. /\ Grown(o) \in Position /\ pos' = [pos EXCEPT ![q] = Grown(o)]
        /\ Held(o) # NoPosition /\ Grown(o).shares = Held(o).shares + SharesOf[o]
    BY <1>9, OrderAssumption, GrownPosition DEF GrowPosition, Store, Grown
  <2> HIDE DEF q
  <2>2. SharesIn(p)' = IF q = p THEN Grown(o).shares ELSE SharesIn(p)
    BY <1>2, <2>1
  <2>3. QED  BY <1>0, <1>1, <1>4, <2>1, <2>2 DEF q
<1>10. ASSUME RestoreShares(o), Held(o) = NoPosition
       PROVE  SharesIn(p)' = SharesIn(p)
  BY <1>10 DEF RestoreShares, SharesIn
<1>11. ASSUME DropEmpty(o)
       PROVE  \/ SharesIn(p)' = SharesIn(p)
              \/ Place(o) = p /\ seen[o].shares = 0 /\ SharesIn(p)' = 0
  <2>1. CASE seen[o].shares = 0
    BY <1>3, <1>11, <2>1 DEF DropEmpty, Store
  <2>2. CASE seen[o].shares # 0
    BY <1>11, <2>2 DEF DropEmpty, SharesIn
  <2>3. QED  BY <2>1, <2>2
<1>12. QED  BY <1>6, <1>7, <1>8, <1>9, <1>10, <1>11

\* Steps that touch neither positions nor the history.
PositionsKept == UNCHANGED <<pos, booked, taken>>

\* Every other step is one of these.
LEMMA PositionSteps ==
  ASSUME [Next]_vars
  PROVE  \/ PositionsKept
         \/ \E o \in Orders : TakeShares(o) \/ RestoreShares(o) \/ OpenPosition(o)
                              \/ GrowPosition(o) \/ DropEmpty(o)
<1> USE DEF PositionsKept, ghosts
<1>1. ASSUME NEW o \in Orders, Proceed(o)
      PROVE  \/ PositionsKept
             \/ TakeShares(o) \/ RestoreShares(o) \/ OpenPosition(o)
             \/ GrowPosition(o) \/ DropEmpty(o)
  BY <1>1
  DEF Proceed, Acquire, GiveUp, Release, TakeRefused, CreateOrder, Post, PostInvalid,
      Answered, MarkRejected, ReadPosition, OpenRefused, GrowMissed, Execute, Announce
<1>2. ASSUME NEW o \in Orders, Quote(o) \/ Respond(o) \/ TimeOut(o) \/ Fail(o) \/ Crash(o)
      PROVE  PositionsKept
  BY <1>2 DEF Quote, Respond, WalletSettles, WalletRefuses, TimeOut, Fail, Crash
<1>3. ASSUME \/ \E d \in Deposits : Fund(d)
             \/ \E s \in Stocks : CacheExpires(s)
             \/ \E m \in Members : Expire(m)
             \/ UNCHANGED vars
      PROVE  PositionsKept
  BY <1>3 DEF Fund, CacheExpires, Expire, vars
<1>4. QED  BY <1>1, <1>2, <1>3 DEF Next

\* No step puts more shares into a position than are owed there.
LEMMA BackedStep ==
  ASSUME TypeOK, TypeOK', SidesFit, HistoryFits, HistoryFits', SharesBacked, [Next]_vars
  PROVE  SharesBacked'
<1>0. DOMAIN pos = Members \X Stocks /\ DOMAIN pos' = DOMAIN pos
  BY DEF TypeOK
<1>1. SharesBacked <=> \A p \in DOMAIN pos : SharesIn(p) <= Owed(p)
  BY DEF SharesBacked, Owed
<1>2. SharesBacked' <=> \A p \in DOMAIN pos : SharesIn(p)' <= Owed(p)'
  BY <1>0 DEF SharesBacked, Owed
<1>3. SUFFICES ASSUME NEW p \in DOMAIN pos
               PROVE  SharesIn(p)' <= Owed(p)'
  BY <1>2
<1>4. SharesIn(p) \in Nat /\ SharesIn(p) <= Owed(p)
  BY <1>0, <1>1 DEF TypeOK, SharesIn, Position
<1>5. \A o \in Orders : SharesOf[o] \in Nat
  BY OrderAssumption
<1>6. CASE PositionsKept
  <2>1. SharesIn(p)' = SharesIn(p) /\ Owed(p)' = Owed(p)
    BY <1>6 DEF PositionsKept, SharesIn, Owed, At, Shares, Place
  <2>2. QED  BY <1>4, <2>1
<1>7. ASSUME NEW o \in Orders, TakeShares(o)
      PROVE  SharesIn(p)' <= Owed(p)'
  <2>1. o \notin taken /\ taken' = taken \cup {o} /\ UNCHANGED booked
    BY <1>7 DEF TakeShares, HistoryFits, Selling
  <2>2. QED  BY <1>4, <1>5, <1>7, <2>1, SharesMove, OwedTaken
<1>8. ASSUME NEW o \in Orders, RestoreShares(o)
      PROVE  SharesIn(p)' <= Owed(p)'
  <2>1. o \in taken /\ taken' = taken \ {o} /\ UNCHANGED booked
    BY <1>8 DEF RestoreShares, HistoryFits, Selling, SidesFit
  <2>2. /\ SharesIn(p)' = SharesIn(p) + (IF Place(o) = p THEN SharesOf[o] ELSE 0)
           \/ SharesIn(p)' = SharesIn(p)
    BY <1>8, SharesMove
  <2>3. /\ Owed(p) \in Int
        /\ Owed(p)' = Owed(p) + (IF Place(o) = p THEN SharesOf[o] ELSE 0)
    BY <2>1, OwedRestored
  <2>4. QED  BY <1>4, <1>5, <2>2, <2>3
<1>9. ASSUME NEW o \in Orders, OpenPosition(o) \/ GrowPosition(o)
      PROVE  SharesIn(p)' <= Owed(p)'
  <2>1. o \notin booked /\ booked' = booked \cup {o} /\ UNCHANGED taken
    BY <1>9 DEF OpenPosition, GrowPosition, HistoryFits
  <2>2. SharesIn(p)' = SharesIn(p) + (IF Place(o) = p THEN SharesOf[o] ELSE 0)
    BY <1>9, SharesMove
  <2>3. QED  BY <1>4, <1>5, <2>1, <2>2, OwedBooked
<1>10. ASSUME NEW o \in Orders, DropEmpty(o)
       PROVE  SharesIn(p)' <= Owed(p)'
  <2>1. UNCHANGED <<booked, taken>>  BY <1>10 DEF DropEmpty, ghosts
  <2>2. Owed(p)' = Owed(p)  BY <2>1 DEF Owed, At, Shares, Place
  <2>3. SharesIn(p)' = SharesIn(p) \/ SharesIn(p)' = 0
    BY <1>10, SharesMove
  <2>4. Owed(p) \in Int
    BY SharesTyped DEF Owed, HistoryFits, TypeOK, Buys, Sells
  <2>5. QED  BY <1>4, <2>2, <2>3, <2>4
<1>11. QED  BY <1>6, <1>7, <1>8, <1>9, <1>10, PositionSteps

\* Before anything was placed there are no shares, whichever orders are to be
\* placed.
Unplaced ==
  /\ TypeOK
  /\ booked = {} /\ taken = {}
  /\ \A p \in DOMAIN pos : pos[p] = NoPosition
  /\ \A o \in Orders : /\ at[o] \in {"idle", "done"}
                       /\ status[o] = "none" /\ net[o] = "none" /\ fate[o] = "open"

\* So it is at first.
LEMMA InitUnplaced == Init => Unplaced
  BY TypesInit, OrderAssumption DEF Init, Unplaced, Wallet!Init, Calls

\* Nothing is owed where nothing was placed.
LEMMA NothingOwed ==
  ASSUME Unplaced, NEW p \in DOMAIN pos
  PROVE  /\ SharesIn(p) = 0 /\ Owed(p) = 0
         /\ Shares(At(p, booked)) = 0 /\ Shares(At(p, taken)) = 0
<1>1. At(p, booked) = {} /\ At(p, taken) = {}
  BY DEF Unplaced, At
<1>2. QED  BY <1>1, SumEmpty DEF Unplaced, SharesIn, Owed, Shares

\* The invariants hold before anything was placed.
LEMMA UnplacedBacked == Unplaced => SidesFit /\ BackedInv
<1>1. Unplaced => SidesFit /\ HistoryFits
  BY FS_EmptySet DEF Unplaced, SidesFit, HistoryFits, Selling
<1>2. Unplaced => SharesBacked
  BY NothingOwed DEF SharesBacked
<1>3. QED  BY <1>1, <1>2 DEF BackedInv

\* No position ever holds more than was bought and not sold, whatever lapses,
\* times out, fails or dies.
THEOREM OrderBacked == Spec => []BackedInv
<1>1. Init => SidesFit /\ BackedInv
  BY InitUnplaced, UnplacedBacked
<1>2. TypeOK /\ SidesFit /\ BackedInv /\ [Next]_vars => TypeOK' /\ SidesFit' /\ BackedInv'
  BY TypesStep, SidesStep, HistoryStep, BackedStep, OrderAssumption DEF BackedInv
<1>3. QED  BY <1>1, <1>2, OrderTypes, PTL DEF Spec

\* No share comes from nowhere.
THEOREM NoShareFromNowhere == Spec => []SharesBacked
  BY OrderBacked, PTL DEF BackedInv

-----------------------------------------------------------------------------
(* ShareInv: as long as no lock lapses under a live holder.                *)

\* A step that keeps the locks is a step.
LEMMA LockKeepingSteps == LockKeepingNext => Next
  BY DEF LockKeepingNext, Next

\* No step takes the token of a request that is between acquire and release.
LEMMA TokenStep ==
  ASSUME TypeOK, TokenInv, [LockKeepingNext]_vars
  PROVE  TokenInv'
<1> USE OrderAssumption
    DEF TypeOK, TokenInv, InLock, Critical, Points, Goto, Busy, Compensate
<1>1. ASSUME NEW o \in Orders, Quote(o) \/ GiveUp(o)
      PROVE  TokenInv'
  BY <1>1 DEF Quote, GiveUp
<1>2. ASSUME NEW o \in Orders, Acquire(o) \/ Release(o) \/ Crash(o)
      PROVE  TokenInv'
  BY <1>2 DEF Acquire, Release, Crash
<1>3. ASSUME NEW o \in Orders, at[o] \in Critical, UNCHANGED lock,
             \A v \in Orders \ {o} : at'[v] = at[v]
      PROVE  TokenInv'
  BY <1>3
<1>4. ASSUME NEW o \in Orders,
             \/ TakeShares(o) \/ TakeRefused(o) \/ CreateOrder(o)
             \/ Post(o) \/ PostInvalid(o) \/ Answered(o) \/ TimeOut(o)
             \/ RestoreShares(o) \/ MarkRejected(o)
             \/ ReadPosition(o) \/ OpenPosition(o) \/ OpenRefused(o)
             \/ GrowPosition(o) \/ GrowMissed(o)
             \/ DropEmpty(o) \/ Execute(o) \/ Announce(o)
      PROVE  TokenInv'
  <2> USE <1>4
      DEF TakeShares, TakeRefused, CreateOrder, Post, PostInvalid, Answered, TimeOut,
          RestoreShares, MarkRejected, ReadPosition, OpenPosition, OpenRefused,
          GrowPosition, GrowMissed, DropEmpty, Execute, Announce
  <2>1. at[o] \in Critical  OBVIOUS
  <2>2. UNCHANGED lock  OBVIOUS
  <2>3. \A v \in Orders \ {o} : at'[v] = at[v]  OBVIOUS
  <2>4. QED  BY <1>3, <2>1, <2>2, <2>3
<1>5. ASSUME NEW o \in Orders, Fail(o)
      PROVE  TokenInv'
  BY <1>5 DEF Fail
<1>6. ASSUME UNCHANGED <<lock, at>>
      PROVE  TokenInv'
  BY <1>6
<1>7. ASSUME \/ \E o \in Orders : Respond(o)
             \/ \E d \in Deposits : Fund(d)
             \/ \E s \in Stocks : CacheExpires(s)
             \/ UNCHANGED vars
      PROVE  TokenInv'
  BY <1>6, <1>7 DEF Respond, WalletSettles, WalletRefuses, Fund, CacheExpires, vars
<1>8. ASSUME NEW m \in Members, lock[m] = Orphan, Expire(m)
      PROVE  TokenInv'
  BY <1>8 DEF Expire
<1>9. QED
  BY <1>1, <1>2, <1>4, <1>5, <1>7, <1>8 DEF LockKeepingNext, Proceed

\* Requests in the lock of one member work one at a time, so they are apart
\* from each other.
LEMMA PlacesApart ==
  ASSUME TokenInv, NEW o \in Orders, NEW v \in Orders, InLock(o), InLock(v), o # v
  PROVE  Place(o) # Place(v)
  BY DEF TokenInv, Place

\* Where a request relies on a position it saw, it is in the lock.
Relies(o) == at[o] = "write" \/ (o \in Sells /\ at[o] \in Selling \cup {"drop"})

\* A request that relies on what it read is in its lock.
LEMMA ReliesInLock == \A o \in Orders : Relies(o) => InLock(o)
  BY DEF Relies, Selling, InLock, Critical, Points

\* What a request saw of its position stays so while it relies on it.
LEMMA SeenStep ==
  ASSUME TypeOK, SidesFit, TokenInv, SeenHeld, [Next]_vars
  PROVE  SeenHeld'
<1> USE DEF TypeOK, Goto
<1>1. SeenHeld <=> \A o \in Orders :
        Relies(o) => seen[o] = Held(o) /\ (o \in Sells => seen[o] # NoPosition)
  BY DEF SeenHeld, Relies
<1>2. SeenHeld' <=> \A o \in Orders :
        Relies(o)' => seen'[o] = Held(o)' /\ (o \in Sells => seen'[o] # NoPosition)
  BY DEF SeenHeld, Relies, Sells, Buys
<1>3. ASSUME UNCHANGED <<pos, seen>>, \A o \in Orders : Relies(o)' => Relies(o)
      PROVE  SeenHeld'
  BY <1>1, <1>2, <1>3 DEF Held, Place
<1>4. ASSUME NEW o \in Orders, UNCHANGED <<pos, seen>>, Relies(o)' => Relies(o),
             \A v \in Orders \ {o} : at'[v] = at[v]
      PROVE  SeenHeld'
  BY <1>3, <1>4 DEF Relies
<1>5. ASSUME NEW o \in Orders,
             \/ Quote(o) \/ Acquire(o) \/ GiveUp(o) \/ Release(o) \/ TakeRefused(o)
             \/ CreateOrder(o) \/ Post(o) \/ PostInvalid(o) \/ Answered(o) \/ TimeOut(o)
             \/ MarkRejected(o) \/ OpenRefused(o) \/ GrowMissed(o)
             \/ Execute(o) \/ Announce(o) \/ Fail(o) \/ Crash(o)
      PROVE  SeenHeld'
  <2> USE <1>5
      DEF Quote, Acquire, GiveUp, Release, TakeRefused, CreateOrder, Post, PostInvalid,
          Answered, TimeOut, Compensate, MarkRejected, OpenRefused, GrowMissed, Execute,
          Announce, Fail, Crash
  <2>1. UNCHANGED <<pos, seen>>  OBVIOUS
  <2>2. \A v \in Orders \ {o} : at'[v] = at[v]  OBVIOUS
  <2>3. Relies(o)' => Relies(o)
    BY DEF Relies, Selling, Sells
  <2>4. QED  BY <1>4, <2>1, <2>2, <2>3
<1>6. ASSUME NEW o \in Orders, ReadPosition(o)
      PROVE  SeenHeld'
  <2>1. o \notin Sells  BY <1>6 DEF ReadPosition, SidesFit, Sells
  <2>2. ASSUME NEW v \in Orders, v # o
        PROVE  seen'[v] = seen[v] /\ Held(v)' = Held(v) /\ (Relies(v)' <=> Relies(v))
    BY <1>6, <2>2 DEF ReadPosition, Held, Place, Relies
  <2>3. seen'[o] = Held(o)'
    BY <1>6 DEF ReadPosition, Held, Place
  <2>4. QED  BY <1>1, <1>2, <2>1, <2>2, <2>3
<1>7. ASSUME NEW o \in Orders, InLock(o), NEW new, pos' = [pos EXCEPT ![Place(o)] = new],
             \A v \in Orders \ {o} : at'[v] = at[v] /\ seen'[v] = seen[v],
             Relies(o)' => seen'[o] = Held(o)' /\ seen'[o] # NoPosition
      PROVE  SeenHeld'
  <2>1. ASSUME NEW v \in Orders, v # o, Relies(v)'
        PROVE  Relies(v) /\ Held(v)' = Held(v) /\ seen'[v] = seen[v]
    <3>1. Relies(v)  BY <1>7, <2>1 DEF Relies
    <3>2. Place(o) # Place(v)  BY <1>7, <2>1, <3>1, ReliesInLock, PlacesApart
    <3>3. Place(v) \in Members \X Stocks  BY OrderAssumption DEF Place
    <3>4. QED  BY <1>7, <2>1, <3>1, <3>2, <3>3 DEF Held, Place
  <2>2. QED  BY <1>1, <1>2, <1>7, <2>1
<1>8. ASSUME NEW o \in Orders, TakeShares(o)
      PROVE  SeenHeld'
  <2> DEFINE left == WithShares(Held(o), Held(o).shares - SharesOf[o])
  <2>0. left \in Position
    BY <1>8, OrderAssumption, TakenPosition DEF TakeShares
  <2>1. /\ left # NoPosition /\ pos' = [pos EXCEPT ![Place(o)] = left]
        /\ seen' = [seen EXCEPT ![o] = left] /\ at' = [at EXCEPT ![o] = "create"]
        /\ InLock(o)
    <3>1. left # NoPosition  BY <2>0, OrderAssumption DEF Position
    <3>2. InLock(o)  BY <1>8 DEF TakeShares, InLock, Critical, Points
    <3>3. QED  BY <1>8, <3>1, <3>2 DEF TakeShares, Store
  <2>2. Place(o) \in DOMAIN pos  BY OrderAssumption DEF Place
  <2> HIDE DEF left
  <2>3. seen'[o] = left /\ Held(o)' = left
    BY <2>1, <2>2 DEF Held, Place
  <2>4. \A v \in Orders \ {o} : at'[v] = at[v] /\ seen'[v] = seen[v]
    BY <2>1
  <2>5. QED  BY <1>7, <2>1, <2>3, <2>4
<1>9. ASSUME NEW o \in Orders,
             RestoreShares(o) \/ OpenPosition(o) \/ GrowPosition(o) \/ DropEmpty(o)
      PROVE  SeenHeld'
  <2> USE <1>9 DEF RestoreShares, OpenPosition, GrowPosition, DropEmpty
  <2>1. InLock(o)  BY DEF InLock, Critical, Points
  <2>2. \A v \in Orders \ {o} : at'[v] = at[v] /\ seen'[v] = seen[v]
    OBVIOUS
  <2>3. ~Relies(o)'  BY DEF Relies, Selling
  <2>4. UNCHANGED <<pos, seen>> \/ \E new : pos' = [pos EXCEPT ![Place(o)] = new]
    BY DEF Store
  <2>5. QED  BY <1>4, <1>7, <2>1, <2>2, <2>3, <2>4
<1>10. ASSUME \/ \E o \in Orders : Respond(o)
              \/ \E d \in Deposits : Fund(d)
              \/ \E s \in Stocks : CacheExpires(s)
              \/ \E m \in Members : Expire(m)
              \/ UNCHANGED vars
       PROVE  SeenHeld'
  <2>1. UNCHANGED <<pos, seen, at>>
    BY <1>10 DEF Respond, WalletSettles, WalletRefuses, Fund, CacheExpires, Expire, vars
  <2>2. QED  BY <1>3, <2>1 DEF Relies
<1>11. QED
  BY <1>5, <1>6, <1>8, <1>9, <1>10 DEF Next, Proceed

\* No step adds or loses shares, as long as requests find the positions they saw.
LEMMA AgreeStep ==
  ASSUME TypeOK, TypeOK', SidesFit, HistoryFits, SeenHeld, SharesAgree, [Next]_vars
  PROVE  SharesAgree'
<1>0. DOMAIN pos = Members \X Stocks /\ DOMAIN pos' = DOMAIN pos
  BY DEF TypeOK
<1>1. SharesAgree <=> \A p \in DOMAIN pos : SharesIn(p) = Owed(p)
  BY DEF SharesAgree, Owed
<1>2. SharesAgree' <=> \A p \in DOMAIN pos : SharesIn(p)' = Owed(p)'
  BY <1>0 DEF SharesAgree, Owed
<1>3. SUFFICES ASSUME NEW p \in DOMAIN pos
               PROVE  SharesIn(p)' = Owed(p)'
  BY <1>2
<1>4. SharesIn(p) \in Nat /\ SharesIn(p) = Owed(p)
  BY <1>0, <1>1 DEF TypeOK, SharesIn, Position
<1>5. \A o \in Orders : SharesOf[o] \in Nat
  BY OrderAssumption
<1>6. CASE PositionsKept
  <2>1. SharesIn(p)' = SharesIn(p) /\ Owed(p)' = Owed(p)
    BY <1>6 DEF PositionsKept, SharesIn, Owed, At, Shares, Place
  <2>2. QED  BY <1>4, <2>1
<1>7. ASSUME NEW o \in Orders, TakeShares(o)
      PROVE  SharesIn(p)' = Owed(p)'
  <2>1. o \notin taken /\ taken' = taken \cup {o} /\ UNCHANGED booked
    BY <1>7 DEF TakeShares, HistoryFits, Selling
  <2>2. QED  BY <1>4, <1>5, <1>7, <2>1, SharesMove, OwedTaken
<1>8. ASSUME NEW o \in Orders, RestoreShares(o)
      PROVE  SharesIn(p)' = Owed(p)'
  <2>1. o \in taken /\ taken' = taken \ {o} /\ UNCHANGED booked
    BY <1>8 DEF RestoreShares, HistoryFits, Selling, SidesFit
  <2>2. Held(o) # NoPosition
    BY <1>8 DEF RestoreShares, SeenHeld, Selling, SidesFit
  <2>3. SharesIn(p)' = SharesIn(p) + (IF Place(o) = p THEN SharesOf[o] ELSE 0)
    BY <1>8, <2>2, SharesMove
  <2>4. QED  BY <1>4, <1>5, <2>1, <2>3, OwedRestored
<1>9. ASSUME NEW o \in Orders, OpenPosition(o) \/ GrowPosition(o)
      PROVE  SharesIn(p)' = Owed(p)'
  <2>1. o \notin booked /\ booked' = booked \cup {o} /\ UNCHANGED taken
    BY <1>9 DEF OpenPosition, GrowPosition, HistoryFits
  <2>2. SharesIn(p)' = SharesIn(p) + (IF Place(o) = p THEN SharesOf[o] ELSE 0)
    BY <1>9, SharesMove
  <2>3. QED  BY <1>4, <1>5, <2>1, <2>2, OwedBooked
<1>10. ASSUME NEW o \in Orders, DropEmpty(o)
       PROVE  SharesIn(p)' = Owed(p)'
  <2>1. UNCHANGED <<booked, taken>>  BY <1>10 DEF DropEmpty, ghosts
  <2>2. Owed(p)' = Owed(p)  BY <2>1 DEF Owed, At, Shares, Place
  <2>3. seen[o] = Held(o) /\ seen[o] # NoPosition
    BY <1>10 DEF DropEmpty, SeenHeld, SidesFit
  <2>4. Place(o) = p => SharesIn(p) = seen[o].shares
    BY <2>3 DEF Held, SharesIn
  <2>5. SharesIn(p)' = SharesIn(p)
    BY <1>10, <2>4, SharesMove
  <2>6. QED  BY <1>4, <2>2, <2>5
<1>11. QED  BY <1>6, <1>7, <1>8, <1>9, <1>10, PositionSteps

\* A sell that is past its rollback stays so.
LEMMA SoldStays ==
  ASSUME TypeOK, SidesFit, HistoryFits, [Next]_vars, NEW p
  PROVE  Sold(p) \subseteq Sold(p)'
<1> SUFFICES ASSUME NEW x \in taken, Place(x) = p, at[x] \notin Selling
             PROVE  x \in taken' /\ at'[x] \notin Selling
  BY DEF Sold, At, Place
<1>1. x \in Orders /\ x \in Sells
      /\ at[x] \in {"drop", "execute", "announce", "release", "done"}
  BY DEF TypeOK, HistoryFits, Sells
<1> USE <1>1 DEF TypeOK, Goto, Selling, ghosts
<1>2. ASSUME NEW o \in Orders,
             \/ Quote(o) \/ Acquire(o) \/ GiveUp(o) \/ Release(o) \/ TakeRefused(o)
             \/ CreateOrder(o) \/ Post(o) \/ PostInvalid(o) \/ Answered(o) \/ TimeOut(o)
             \/ MarkRejected(o) \/ ReadPosition(o) \/ OpenRefused(o) \/ GrowMissed(o)
             \/ Execute(o) \/ Announce(o) \/ Fail(o) \/ Crash(o)
      PROVE  x \in taken' /\ at'[x] \notin Selling
  BY <1>2
  DEF Quote, Acquire, GiveUp, Release, TakeRefused, CreateOrder, Post, PostInvalid,
      Answered, TimeOut, Compensate, MarkRejected, ReadPosition, OpenRefused, GrowMissed,
      Execute, Announce, Fail, Crash
<1>3. ASSUME NEW o \in Orders,
             TakeShares(o) \/ RestoreShares(o) \/ OpenPosition(o) \/ GrowPosition(o)
               \/ DropEmpty(o)
      PROVE  x \in taken' /\ at'[x] \notin Selling
  BY <1>3 DEF TakeShares, RestoreShares, OpenPosition, GrowPosition, DropEmpty
<1>4. ASSUME \/ \E o \in Orders : Respond(o)
             \/ \E d \in Deposits : Fund(d)
             \/ \E s \in Stocks : CacheExpires(s)
             \/ \E m \in Members : Expire(m)
             \/ UNCHANGED vars
      PROVE  x \in taken' /\ at'[x] \notin Selling
  BY <1>4 DEF Respond, WalletSettles, WalletRefuses, Fund, CacheExpires, Expire, vars
<1>5. QED  BY <1>2, <1>3, <1>4 DEF Next, Proceed

\* When a buy writes its position, no sell at that place is in flight; if none
\* was completed either, all that was booked there is in the position.
LEMMA NoneTaken ==
  ASSUME TypeOK, SidesFit, HistoryFits, TokenInv, SharesAgree, NEW o \in Orders,
         at[o] = "write", Sold(Place(o)) = {}
  PROVE  SharesIn(Place(o)) = Shares(At(Place(o), booked))
<1>1. ASSUME NEW x \in At(Place(o), taken)
      PROVE  FALSE
  <2>1. x \in Orders /\ x \in Sells /\ Place(x) = Place(o) /\ at[x] \in Selling
    BY <1>1 DEF TypeOK, At, Sold, Sells
  <2>2. o \notin Sells  BY DEF SidesFit, Sells
  <2>3. InLock(x) /\ InLock(o)
    BY <2>1 DEF InLock, Critical, Points, Selling
  <2>4. QED  BY <2>1, <2>2, <2>3, PlacesApart
<1>2. Shares(At(Place(o), taken)) = 0
  BY <1>1, SumEmpty DEF Shares
<1>3. Place(o) \in DOMAIN pos  BY OrderAssumption DEF TypeOK, Place
<1>4. Shares(At(Place(o), booked)) \in Nat
  BY SharesTyped DEF TypeOK, HistoryFits, Buys
<1>5. QED  BY <1>2, <1>3, <1>4 DEF SharesAgree

\* As long as nothing was sold, every write leaves a position that knows what
\* its shares cost.
LEMMA CostsStep ==
  ASSUME TypeOK, TypeOK', SidesFit, HistoryFits, TokenInv, SeenHeld, SharesAgree,
         CostsKept, [Next]_vars
  PROVE  CostsKept'
<1>0. /\ DOMAIN pos = Members \X Stocks /\ DOMAIN pos' = DOMAIN pos
      /\ \A o \in Orders : Place(o) \in DOMAIN pos
  BY OrderAssumption DEF TypeOK, Place
<1> DEFINE Know(p) == /\ pos[p].invested = Costs(At(p, booked))
                      /\ pos[p].avg[1] * Shares(At(p, booked)) = pos[p].avg[2] * pos[p].invested
<1>1. SUFFICES ASSUME NEW p \in DOMAIN pos, pos'[p] # NoPosition, Sold(p)' = {}
               PROVE  Know(p)'
  BY <1>0 DEF CostsKept
<1>2. Sold(p) = {}  BY <1>1, SoldStays
<1>3. pos[p] # NoPosition => Know(p)  BY <1>2 DEF CostsKept
<1>4. ASSUME pos[p] # NoPosition, UNCHANGED booked,
             pos'[p].invested = pos[p].invested, pos'[p].avg = pos[p].avg
      PROVE  Know(p)'
  BY <1>3, <1>4 DEF At, Costs, Shares, Place, Cost
<1>5. CASE PositionsKept
  BY <1>1, <1>4, <1>5 DEF PositionsKept
<1>6. ASSUME NEW o \in Orders, TakeShares(o)
      PROVE  Know(p)'
  <2> DEFINE left == WithShares(Held(o), Held(o).shares - SharesOf[o])
  <2>1. /\ pos' = [pos EXCEPT ![Place(o)] = left] /\ UNCHANGED booked
        /\ Held(o) # NoPosition
    BY <1>6 DEF TakeShares, Store, Enough
  <2>2. left.invested = Held(o).invested /\ left.avg = Held(o).avg
    BY DEF WithShares
  <2> HIDE DEF left, Know
  <2>3. pos[p] # NoPosition /\ pos'[p].invested = pos[p].invested /\ pos'[p].avg = pos[p].avg
    BY <1>0, <1>1, <2>1, <2>2 DEF Held
  <2>4. QED  BY <1>4, <2>1, <2>3
<1>7. ASSUME NEW o \in Orders, RestoreShares(o)
      PROVE  Know(p)'
  <2> DEFINE back == WithShares(Held(o), Held(o).shares + SharesOf[o])
  <2>1. Held(o) # NoPosition
    BY <1>7 DEF RestoreShares, SeenHeld, Selling, SidesFit
  <2>2. pos' = [pos EXCEPT ![Place(o)] = back] /\ UNCHANGED booked
    BY <1>7, <2>1 DEF RestoreShares, Store
  <2>3. back.invested = Held(o).invested /\ back.avg = Held(o).avg
    BY DEF WithShares
  <2> HIDE DEF back, Know
  <2>4. pos[p] # NoPosition /\ pos'[p].invested = pos[p].invested /\ pos'[p].avg = pos[p].avg
    BY <1>0, <1>1, <2>1, <2>2, <2>3 DEF Held
  <2>5. QED  BY <1>4, <2>2, <2>4
<1>8. ASSUME NEW o \in Orders, DropEmpty(o)
      PROVE  Know(p)'
  <2>1. pos[p] # NoPosition /\ pos'[p] = pos[p] /\ UNCHANGED booked
    BY <1>0, <1>1, <1>8 DEF DropEmpty, Store, ghosts
  <2>2. QED  BY <1>4, <2>1
<1>9. ASSUME NEW o \in Orders, OpenPosition(o) \/ GrowPosition(o), Place(o) # p
      PROVE  Know(p)'
  <2>1. pos'[p] = pos[p]
    BY <1>0, <1>9 DEF OpenPosition, GrowPosition, Store
  <2>2. At(p, booked)' = At(p, booked)
    BY <1>9 DEF OpenPosition, GrowPosition, At, Place
  <2>3. Know(p)  BY <1>1, <1>3, <2>1
  <2>4. QED  BY <2>1, <2>2, <2>3 DEF Costs, Shares, Cost
<1>10. ASSUME NEW o \in Orders, OpenPosition(o) \/ GrowPosition(o), Place(o) = p
       PROVE  Know(p)'
  <2> DEFINE S == Shares(At(p, booked))
             C == Costs(At(p, booked))
  <2>1. o \in Orders \ booked /\ booked' = booked \cup {o} /\ booked \in SUBSET Orders
    BY <1>10 DEF OpenPosition, GrowPosition, HistoryFits, TypeOK, Buys
  <2>2. S \in Nat /\ (S = 0 => At(p, booked) = {}) /\ C \in Int
    BY <2>1, SharesTyped, CostsPutIn DEF HistoryFits
  <2>3. /\ Shares(At(p, booked \cup {o})) = S + SharesOf[o]
        /\ Costs(At(p, booked \cup {o})) = C + Cost(o)
    BY <1>10, <2>1, SharesPutIn, CostsPutIn DEF HistoryFits
  <2>4. Shares(At(p, booked))' = S + SharesOf[o] /\ Costs(At(p, booked))' = C + Cost(o)
    BY <2>1, <2>3 DEF Shares, Costs, At, Place, Cost
  <2>5. SharesIn(p) = S
    BY <1>2, <1>10, NoneTaken DEF OpenPosition, GrowPosition
  <2>6. SharesOf[o] \in Nat /\ PriceOf[o] \in Nat /\ Cost(o) = SharesOf[o] * PriceOf[o]
        /\ Cost(o) \in Nat
    BY OrderAssumption DEF Cost
  <2> HIDE DEF S, C
  <2>7. CASE OpenPosition(o)
    <3>1. Held(o) = NoPosition /\ pos'[p] = Opened(o)
      BY <1>0, <1>10, <2>7 DEF OpenPosition, Store
    <3>2. S = 0  BY <1>10, <2>5, <3>1 DEF Held, SharesIn
    <3>3. C = 0  BY <2>2, <3>2, SumEmpty DEF S, C, Costs
    <3>4. /\ pos'[p].invested = Cost(o)
          /\ pos'[p].avg[1] = PriceOf[o] /\ pos'[p].avg[2] = 1
      BY <3>1 DEF Opened
    <3>5. pos'[p].avg[1] * SharesOf[o] = pos'[p].avg[2] * pos'[p].invested
      BY <2>6, <3>4
    <3>6. C + Cost(o) = Cost(o) /\ S + SharesOf[o] = SharesOf[o]
      BY <2>6, <3>2, <3>3
    <3>7. QED  BY <2>4, <3>4, <3>5, <3>6
  <2>8. CASE GrowPosition(o)
    <3> DEFINE total == Held(o).invested + Cost(o)
    <3>1. Held(o) # NoPosition /\ seen[o] = Held(o) /\ pos'[p] = Grown(o)
      BY <1>0, <1>10, <2>8 DEF GrowPosition, Store, SeenHeld
    <3>2. Held(o) = pos[p] /\ pos[p] # NoPosition
      BY <1>10, <3>1 DEF Held
    <3>3. Held(o).shares = S /\ Held(o).invested = C
      BY <1>3, <2>5, <3>2 DEF SharesIn, C
    <3>4. /\ pos'[p].invested = total
          /\ pos'[p].avg[1] = total /\ pos'[p].avg[2] = Held(o).shares + SharesOf[o]
      BY <3>1 DEF Grown
    <3>5. total = C + Cost(o) /\ total \in Int
      BY <2>2, <2>6, <3>3
    <3>6. S + SharesOf[o] \in Int  BY <2>2, <2>6
    <3>7. total * (S + SharesOf[o]) = (S + SharesOf[o]) * total
      BY <3>5, <3>6
    <3>8. QED  BY <2>4, <3>3, <3>4, <3>5, <3>7
  <2>9. QED  BY <1>10, <2>7, <2>8
<1>11. QED  BY <1>5, <1>6, <1>7, <1>8, <1>9, <1>10, PositionSteps

\* Steps that keep the locks keep ShareInv.
LEMMA ShareStep ==
  ASSUME TypeOK, TypeOK', SidesFit, HistoryFits, ShareInv, [LockKeepingNext]_vars
  PROVE  ShareInv'
<1>1. [Next]_vars  BY LockKeepingSteps
<1>2. QED
  BY <1>1, TokenStep, SeenStep, AgreeStep, CostsStep DEF ShareInv

\* Where nothing is sold, ShareInv tells the average price.
LEMMA ShareInvAverage ==
  ASSUME TypeOK, HistoryFits, ShareInv
  PROVE  AverageOfBuys
<1> SUFFICES ASSUME NEW p \in DOMAIN pos, pos[p] # NoPosition, At(p, taken) = {}
             PROVE  pos[p].avg[1] * Shares(At(p, booked)) = pos[p].avg[2] * Costs(At(p, booked))
  BY DEF AverageOfBuys
<1>1. Sold(p) = {}  BY DEF Sold
<1>2. QED  BY <1>1 DEF ShareInv, CostsKept

\* ShareInv holds before anything was placed.
LEMMA UnplacedShares == Unplaced => ShareInv
<1> SUFFICES ASSUME Unplaced PROVE ShareInv
  OBVIOUS
<1>1. SharesAgree  BY NothingOwed DEF SharesAgree
<1>2. TokenInv /\ SeenHeld /\ CostsKept
  BY DEF Unplaced, TokenInv, InLock, Critical, SeenHeld, Selling, CostsKept
<1>3. QED  BY <1>1, <1>2 DEF ShareInv

\* As long as no lock lapses under a live holder, ...
THEOREM OrderShares ==
  ASSUME ~LockMayLapse
  PROVE  Spec => []ShareInv
<1>1. Init => ShareInv
  BY InitUnplaced, UnplacedShares
<1>2. [Next]_vars => [LockKeepingNext]_vars
  BY DEF Next, LockKeepingNext, Expire
<1>3. /\ TypeOK /\ TypeOK' /\ SidesFit /\ BackedInv /\ ShareInv /\ [Next]_vars => ShareInv'
  BY <1>2, ShareStep DEF BackedInv
<1>4. Init => SidesFit
  BY InitUnplaced, UnplacedBacked
<1>5. TypeOK /\ SidesFit /\ [Next]_vars => SidesFit'
  BY SidesStep, OrderAssumption
<1>6. QED  BY <1>1, <1>3, <1>4, <1>5, OrderTypes, OrderBacked, PTL DEF Spec

\* ... no share is lost, although failed sells give theirs back and empty
\* positions are deleted ...
THEOREM NoShareLost ==
  ASSUME ~LockMayLapse
  PROVE  Spec => []SharesAgree
  BY OrderShares, PTL DEF ShareInv

\* ... and until the first sale the average price is what the shares cost.
THEOREM AveragesRight ==
  ASSUME ~LockMayLapse
  PROVE  Spec => []AverageOfBuys
<1>1. TypeOK /\ BackedInv /\ ShareInv => AverageOfBuys
  BY ShareInvAverage DEF BackedInv
<1>2. QED  BY <1>1, OrderTypes, OrderBacked, OrderShares, PTL

-----------------------------------------------------------------------------
(* StepsFit: as long as, moreover, calls are answered and nothing breaks   *)
(* off.                                                                    *)

\* A calm step keeps the locks.
LEMMA CalmSteps == CalmNext => LockKeepingNext
  BY DEF CalmNext, LockKeepingNext, Respond

\* What the wallet may do for one call leaves the fates of the others alone.
LEMMA OtherFates ==
  ASSUME TypeOK, NEW k \in Calls, Wallet!Ask(k) \/ Wallet!Apply(k) \/ Wallet!Refuse(k),
         NEW c \in Calls
  PROVE  /\ c # k \/ Wallet!Ask(k) => fate'[c] = fate[c]
         /\ Wallet!Apply(k) => fate'[k] = "applied"
         /\ Wallet!Refuse(k) => fate'[k] = "refused"
  BY DEF TypeOK, Wallet!Ask, Wallet!Apply, Wallet!Refuse

\* Calm steps keep order documents, wallet and shares in step.
LEMMA StepsFitStep ==
  ASSUME TypeOK, SidesFit, PaidFirst, HistoryFits, SeenHeld, StepsFit, [CalmNext]_vars
  PROVE  StepsFit'
<1> USE DEF TypeOK, StepsFit, Goto
<1>0. \A o \in Orders : o \in Calls
  BY DEF Calls
<1>1. ASSUME NEW o \in Orders, Quote(o) \/ Acquire(o) \/ GiveUp(o) \/ TakeRefused(o)
      PROVE  StepsFit'
  BY <1>1 DEF Quote, Acquire, GiveUp, TakeRefused, HistoryFits, Selling, wallet, ghosts
<1>2. ASSUME NEW o \in Orders, TakeShares(o)
      PROVE  StepsFit'
  BY <1>2 DEF TakeShares, wallet
<1>3. ASSUME NEW o \in Orders, CreateOrder(o)
      PROVE  StepsFit'
  BY <1>3 DEF CreateOrder, wallet, ghosts
<1>4. ASSUME NEW o \in Orders, Post(o)
      PROVE  StepsFit'
  <2>1. \A c \in Orders : fate'[c] = fate[c]
    BY <1>0, <1>4, OtherFates DEF Post
  <2>2. QED  BY <1>4, <2>1 DEF Post, ghosts
<1>5. ASSUME NEW o \in Orders, PostInvalid(o)
      PROVE  StepsFit'
  BY <1>5 DEF PostInvalid, Compensate, wallet, ghosts
<1>6. ASSUME NEW o \in Orders, Answered(o)
      PROVE  StepsFit'
  BY <1>6 DEF Answered, Compensate, wallet, ghosts
<1>7. ASSUME NEW o \in Orders, RestoreShares(o)
      PROVE  StepsFit'
  BY <1>7 DEF RestoreShares, wallet
<1>8. ASSUME NEW o \in Orders, MarkRejected(o)
      PROVE  StepsFit'
  BY <1>8 DEF MarkRejected, HistoryFits, Selling, wallet, ghosts
<1>9. ASSUME NEW o \in Orders, ReadPosition(o)
      PROVE  StepsFit'
  BY <1>9 DEF ReadPosition, wallet, ghosts
<1>10. ASSUME NEW o \in Orders, OpenPosition(o) \/ GrowPosition(o)
       PROVE  StepsFit'
  BY <1>10 DEF OpenPosition, GrowPosition, wallet
<1>11. ASSUME NEW o \in Orders, OpenRefused(o) \/ GrowMissed(o)
       PROVE  FALSE
  BY <1>11 DEF OpenRefused, GrowMissed, SeenHeld
<1>12. ASSUME NEW o \in Orders, DropEmpty(o)
       PROVE  StepsFit'
  BY <1>12 DEF DropEmpty, SidesFit, HistoryFits, Selling, wallet, ghosts
<1>13. ASSUME NEW o \in Orders, Execute(o)
       PROVE  StepsFit'
  BY <1>13 DEF Execute, wallet, ghosts
<1>14. ASSUME NEW o \in Orders, Announce(o)
       PROVE  StepsFit'
  BY <1>14 DEF Announce, PaidFirst, wallet, ghosts
<1>15. ASSUME NEW o \in Orders, Release(o)
       PROVE  StepsFit'
  BY <1>15 DEF Release, wallet, ghosts
<1>16. ASSUME NEW o \in Orders, WalletRefuses(o)
       PROVE  StepsFit'
  <2>1. /\ \A c \in Orders \ {o} : fate'[c] = fate[c]
        /\ fate'[o] = fate[o] \/ fate'[o] = "refused"
    <3>1. CASE Wallet!Refuse(o)
      BY <1>0, <3>1, OtherFates
    <3>2. CASE UNCHANGED wallet
      BY <3>2 DEF wallet
    <3>3. QED  BY <1>16, <3>1, <3>2 DEF WalletRefuses
  <2>2. /\ net[o] = "asked" /\ net' = [net EXCEPT ![o] = "error"]
        /\ UNCHANGED <<at, status, booked, taken>>
    BY <1>16 DEF WalletRefuses, ghosts
  <2>3. at[o] = "wait" /\ fate[o] = "open"
    BY <2>2
  <2>4. QED  BY <2>1, <2>2, <2>3
<1>17. ASSUME NEW o \in Orders, WalletSettles(o), net'[o] = "ok"
       PROVE  StepsFit'
  <2>1. /\ \A c \in Orders \ {o} : fate'[c] = fate[c]
        /\ fate'[o] = "applied"
    BY <1>0, <1>17, OtherFates DEF WalletSettles
  <2>2. /\ net[o] = "asked" /\ UNCHANGED <<at, status, booked, taken>>
        /\ \A c \in Orders \ {o} : net'[c] = net[c]
    <3>1. PICK answer : net' = [net EXCEPT ![o] = answer]
      BY <1>17, Zenon DEF WalletSettles
    <3>2. QED  BY <1>17, <3>1 DEF WalletSettles, ghosts
  <2>3. at[o] = "wait"  BY <2>2
  <2>4. QED  BY <1>17, <2>1, <2>2, <2>3
<1>18. ASSUME NEW d \in Deposits, Fund(d)
       PROVE  StepsFit'
  <2>1. d \in Calls /\ \A c \in Orders : c # d
    BY OrderAssumption DEF Calls
  <2>2. \A c \in Orders : fate'[c] = fate[c]
    BY <1>0, <1>18, <2>1, OtherFates DEF Fund
  <2>3. QED  BY <1>18, <2>2 DEF Fund, ghosts
<1>19. ASSUME \/ \E s \in Stocks : CacheExpires(s)
              \/ \E m \in Members : Expire(m)
              \/ UNCHANGED vars
       PROVE  StepsFit'
  BY <1>19 DEF CacheExpires, Expire, vars, wallet, ghosts
<1>20. QED
  BY <1>1, <1>2, <1>3, <1>4, <1>5, <1>6, <1>7, <1>8, <1>9, <1>10, <1>11, <1>12, <1>13,
     <1>14, <1>15, <1>16, <1>17, <1>18, <1>19 DEF CalmNext, Proceed

\* StepsFit holds before anything was placed.
LEMMA UnplacedSteps == Unplaced => StepsFit
  BY DEF Unplaced, StepsFit

\* StepsFit tells what each request leaves behind.
LEMMA StepsFitBooks == StepsFit => BooksAgree
  BY DEF StepsFit, BooksAgree

\* As long as no lock lapses under a live holder, calls are answered and nothing
\* breaks off, orders and wallet tell one story.
THEOREM BooksTellOneStory ==
  ASSUME ~LockMayLapse, ~CallsMayFail, ~StepsMayFail, ~MayCrash
  PROVE  Spec => []BooksAgree
<1>1. Init => SidesFit /\ PaidFirst /\ NothingUnpaid /\ StepsFit
  <2>1. Init => PaidFirst /\ NothingUnpaid  BY DEF Init, PaidFirst, NothingUnpaid
  <2>2. QED  BY <2>1, InitUnplaced, UnplacedBacked, UnplacedSteps
<1>2. TypeOK /\ [Next]_vars => [CalmNext]_vars
  <2> SUFFICES ASSUME TypeOK, Next PROVE CalmNext
    OBVIOUS
  <2>1. ASSUME NEW o \in Orders, WalletSettles(o)
        PROVE  net'[o] = "ok"
    <3>1. net' = [net EXCEPT ![o] = "ok"]
      BY <2>1, Zenon DEF WalletSettles
    <3>2. QED  BY <3>1 DEF TypeOK
  <2>2. QED
    BY <2>1 DEF Next, CalmNext, Respond, TimeOut, Fail, Crash, Expire
<1>3. TypeOK /\ SidesFit /\ PaidFirst /\ NothingUnpaid /\ BackedInv /\ ShareInv /\ StepsFit
        /\ [Next]_vars
        => SidesFit' /\ PaidFirst' /\ NothingUnpaid' /\ StepsFit'
  BY <1>2, SidesStep, PaidStep, StepsFitStep, OrderAssumption DEF BackedInv, ShareInv
<1>4. QED
  BY <1>1, <1>3, StepsFitBooks, OrderTypes, OrderBacked, OrderShares, PTL DEF Spec

-----------------------------------------------------------------------------
(* The two settings of MCOrders.                                           *)

\* The steps of the calm setting are calm.
LEMMA IdealSteps == ASSUME TypeOK, Ideal!Next PROVE CalmNext
<1> USE DEF wallet, ghosts, vars, Ideal!wallet, Ideal!ghosts, Goto, Ideal!Goto, Store,
        Ideal!Store, Place, Ideal!Place, Held, Ideal!Held, Buys, Ideal!Buys,
        Ideal!Wallet!Ask, Wallet!Ask, Ideal!Wallet!Apply, Wallet!Apply,
        Ideal!Wallet!Refuse, Wallet!Refuse, Ideal!Wallet!After, Wallet!After,
        Ideal!Wallet!Takes, Wallet!Takes, Ideal!WalletKind, WalletKind,
        Ideal!WalletAmount, WalletAmount, Ideal!Calls, Calls, Cost, Ideal!Cost
<1>1. ASSUME NEW o \in Orders, Ideal!Quote(o) PROVE Quote(o)
  BY <1>1 DEF Ideal!Quote, Quote
<1>2. ASSUME NEW o \in Orders, Ideal!Proceed(o) PROVE Proceed(o)
  <2>1. Ideal!Acquire(o) \/ Ideal!GiveUp(o) \/ Ideal!Release(o)
         => Acquire(o) \/ GiveUp(o) \/ Release(o)
    BY DEF Ideal!Acquire, Acquire, Ideal!GiveUp, GiveUp, Ideal!Release, Release
  <2>2. Ideal!TakeShares(o) \/ Ideal!TakeRefused(o) \/ Ideal!CreateOrder(o)
         => TakeShares(o) \/ TakeRefused(o) \/ CreateOrder(o)
    BY DEF Ideal!TakeShares, TakeShares, Ideal!TakeRefused, TakeRefused, Ideal!CreateOrder,
           CreateOrder, Ideal!Enough, Enough, WithShares, Ideal!WithShares
  <2>3. Ideal!Post(o) \/ Ideal!PostInvalid(o) \/ Ideal!Answered(o)
         => Post(o) \/ PostInvalid(o) \/ Answered(o)
    BY DEF Ideal!Post, Post, Ideal!PostInvalid, PostInvalid, Ideal!Answered, Answered,
           Ideal!Compensate, Compensate
  <2>4. Ideal!RestoreShares(o) \/ Ideal!MarkRejected(o)
         => RestoreShares(o) \/ MarkRejected(o)
    BY DEF Ideal!RestoreShares, RestoreShares, Ideal!MarkRejected, MarkRejected,
           WithShares, Ideal!WithShares
  <2>5. Ideal!ReadPosition(o) \/ Ideal!OpenPosition(o) \/ Ideal!OpenRefused(o)
         => ReadPosition(o) \/ OpenPosition(o) \/ OpenRefused(o)
    BY DEF Ideal!ReadPosition, ReadPosition, Ideal!OpenPosition, OpenPosition,
           Ideal!OpenRefused, OpenRefused, Ideal!Opened, Opened
  <2>6. Ideal!GrowPosition(o) \/ Ideal!GrowMissed(o)
         => GrowPosition(o) \/ GrowMissed(o)
    BY DEF Ideal!GrowPosition, GrowPosition, Ideal!GrowMissed, GrowMissed, Ideal!Grown, Grown
  <2>7. Ideal!DropEmpty(o) \/ Ideal!Execute(o) \/ Ideal!Announce(o)
         => DropEmpty(o) \/ Execute(o) \/ Announce(o)
    BY DEF Ideal!DropEmpty, DropEmpty, Ideal!Execute, Execute, Ideal!Announce, Announce
  <2>8. QED
    BY <1>2, <2>1, <2>2, <2>3, <2>4, <2>5, <2>6, <2>7 DEF Ideal!Proceed, Proceed
<1>3. ASSUME NEW o \in Orders, Ideal!Respond(o)
      PROVE  WalletRefuses(o) \/ (WalletSettles(o) /\ net'[o] = "ok")
  BY <1>3 DEF Ideal!Respond, Ideal!WalletSettles, WalletSettles, Ideal!WalletRefuses,
     WalletRefuses, TypeOK
<1>4. ASSUME NEW o \in Orders, Ideal!TimeOut(o) \/ Ideal!Fail(o) \/ Ideal!Crash(o)
      PROVE FALSE
  BY <1>4 DEF Ideal!TimeOut, Ideal!Fail, Ideal!Crash
<1>5. ASSUME NEW d \in Deposits, Ideal!Fund(d) PROVE Fund(d)
  BY <1>5 DEF Ideal!Fund, Fund
<1>6. ASSUME NEW s \in Stocks, Ideal!CacheExpires(s) PROVE CacheExpires(s)
  BY <1>6 DEF Ideal!CacheExpires, CacheExpires
<1>7. ASSUME NEW m \in Members, Ideal!Expire(m) PROVE lock[m] = Orphan /\ Expire(m)
  BY <1>7 DEF Ideal!Expire, Expire
<1>8. QED
  BY <1>1, <1>2, <1>3, <1>4, <1>5, <1>6, <1>7 DEF Ideal!Next, CalmNext

\* Both settings begin before anything was placed, whichever orders are to be.
LEMMA MCInitUnplaced == MCInit => Unplaced
  BY OrderAssumption
  DEF MCInit, Unplaced, TypeOK, Wallet!Init, Statuses, Points, Calls

\* The steps of both settings are steps of OrderService, calm ones if calm.
LEMMA MCSteps ==
  ASSUME TypeOK, [MCNext]_<<vars, calm>>
  PROVE  /\ UNCHANGED calm /\ [Next]_vars
         /\ calm => [CalmNext]_vars
<1>1. CASE UNCHANGED <<vars, calm>>
  BY <1>1
<1>2. CASE MCNext /\ calm
  BY <1>2, IdealSteps, CalmSteps, LockKeepingSteps DEF MCNext
<1>3. CASE MCNext /\ ~calm
  BY <1>3 DEF MCNext
<1>4. QED  BY <1>1, <1>2, <1>3

\* What holds in both settings, and in the calm one.
MCOrdersInv ==
  /\ TypeOK /\ SidesFit /\ PaidFirst /\ NothingUnpaid /\ BackedInv
  /\ calm => ShareInv /\ StepsFit

\* It holds in every state of either setting.
THEOREM OrdersInBothSettings == MCSpec => []MCOrdersInv
<1>1. MCInit => MCOrdersInv
  <2>1. Unplaced /\ MCInit => PaidFirst /\ NothingUnpaid
    BY DEF Unplaced, MCInit, PaidFirst, NothingUnpaid
  <2>2. QED
    BY <2>1, MCInitUnplaced, UnplacedBacked, UnplacedShares, UnplacedSteps
    DEF MCOrdersInv, Unplaced
<1>2. MCOrdersInv /\ [MCNext]_<<vars, calm>> => MCOrdersInv'
  <2> SUFFICES ASSUME MCOrdersInv, [MCNext]_<<vars, calm>> PROVE MCOrdersInv'
    OBVIOUS
  <2> USE DEF MCOrdersInv
  <2>1. UNCHANGED calm /\ [Next]_vars /\ (calm => [CalmNext]_vars)
    BY MCSteps
  <2>2. TypeOK' /\ SidesFit' /\ PaidFirst' /\ NothingUnpaid'
    BY <2>1, TypesStep, SidesStep, PaidStep, OrderAssumption
  <2>3. BackedInv'
    BY <2>1, <2>2, HistoryStep, BackedStep DEF BackedInv
  <2>4. calm => ShareInv'
    BY <2>1, <2>2, CalmSteps, ShareStep DEF BackedInv
  <2>5. calm => StepsFit'
    BY <2>1, StepsFitStep DEF BackedInv, ShareInv
  <2>6. QED  BY <2>1, <2>2, <2>3, <2>4, <2>5
<1>3. QED  BY <1>1, <1>2, PTL DEF MCSpec

\* In the calm setting no share is lost, ...
THEOREM CalmSharesKept == MCSpec => []CalmSharesAgree
<1>1. MCOrdersInv => CalmSharesAgree
  BY DEF MCOrdersInv, ShareInv, CalmSharesAgree
<1>2. QED  BY <1>1, OrdersInBothSettings, PTL

\* ... orders and wallet tell one story ...
THEOREM CalmBooksKept == MCSpec => []CalmBooksAgree
<1>1. MCOrdersInv => CalmBooksAgree
  BY StepsFitBooks DEF MCOrdersInv, CalmBooksAgree
<1>2. QED  BY <1>1, OrdersInBothSettings, PTL

\* ... and until the first sale the average price is what the shares cost.
THEOREM CalmAverageKept == MCSpec => []CalmAverage
<1>1. MCOrdersInv => CalmAverage
  BY ShareInvAverage DEF MCOrdersInv, BackedInv, CalmAverage
<1>2. QED  BY <1>1, OrdersInBothSettings, PTL
=============================================================================
