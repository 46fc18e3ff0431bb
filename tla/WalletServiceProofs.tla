------------------------- MODULE WalletServiceProofs -------------------------
(***************************************************************************)
(* Theorems about WalletService for every set of users, requests and keys, *)
(* whatever the keys stand for: what holds whatever fails, what the lock   *)
(* adds, what decisions taken one at a time add, what the records of a     *)
(* member add up to, and that WalletPromise is kept.                       *)
(***************************************************************************)
EXTENDS WalletRefinement, SumTheorems

\* An idle slot's placeholder is a job like any other.
LEMMA NoJobTyped == NoJob \in Job
  BY WalletAssumption DEF NoJob, Job, Ops, LockedOps

\* Types are preserved: the arrival of a request.
LEMMA ArriveTyped ==
  ASSUME TypeOK, NEW w \in Workers, NEW k \in Keys, Arrive(w, k)
  PROVE  TypeOK'
<1> USE DEF TypeOK, wallet, books, ghosts
<1>1. ASSUME NEW op \in Ops, NEW p \in Points, Start(w, op, k, p)
      PROVE  job' \in [Workers -> Job] /\ at' \in [Workers -> Points]
  BY <1>1 DEF Start, Job
<1>2. CASE DeliverFirst(w, k)
  <2>1. KindOf[k] \in Ops /\ "lock" \in Points
    BY <1>2 DEF DeliverFirst, KeyedKinds, TradeKinds, Ops, LockedOps, Points
  <2>2. QED  BY <1>1, <1>2, <2>1 DEF DeliverFirst
<1>3. CASE DeliverDuplicate(w, k)
  BY <1>3 DEF DeliverDuplicate
<1>4. CASE RequestWithdrawal(w, k)
  <2>1. "request" \in Ops /\ "create" \in Points  BY DEF Ops, Points
  <2>2. QED  BY <1>1, <1>4, <2>1 DEF RequestWithdrawal
<1>5. CASE ApproveWithdrawal(w, k)
  <2>1. "approve" \in Ops /\ "lock" \in Points  BY DEF Ops, LockedOps, Points
  <2>2. QED  BY <1>1, <1>5, <2>1 DEF ApproveWithdrawal
<1>6. CASE RejectWithdrawal(w, k)
  <2>1. "refuse" \in Ops /\ "reject" \in Points  BY DEF Ops, Points
  <2>2. QED  BY <1>1, <1>6, <2>1 DEF RejectWithdrawal
<1>7. CASE ManualAdjustment(w, k)
  <2>1. "adjust" \in Ops /\ "lock" \in Points  BY DEF Ops, LockedOps, Points
  <2>2. QED  BY <1>1, <1>7, <2>1 DEF ManualAdjustment
<1>8. QED  BY Arrive(w, k), <1>2, <1>3, <1>4, <1>5, <1>6, <1>7 DEF Arrive

\* Types are preserved: every step of a request in progress.
LEMMA ProceedTyped ==
  ASSUME TypeOK, NEW w \in Workers, Proceed(w)
  PROVE  TypeOK'
<1> USE WalletAssumption
    DEF TypeOK, wallet, books, ghosts, Key, Op, Owner, Amount, Goto, Finish
<1>1. NoJob \in Job  BY NoJobTyped
<1>2. \A v \in Workers : job[v].key \in Keys /\ OwnerOf[job[v].key] \in Users
                         /\ AmountOf[job[v].key] \in Int
  BY DEF Job
<1>3. \A k \in Keys : Delta(k) \in Int  BY DEF Delta
<1>3a. ASSUME NEW p \in Points, Saw(w, p)
       PROVE  job' \in [Workers -> Job] /\ at' \in [Workers -> Points]
  BY <1>2, <1>3a DEF Saw, Job
<1>4. CASE Acquire(w)
  BY <1>2, <1>4 DEF Acquire, Points
<1>5. CASE Contended(w)
  BY <1>1, <1>5 DEF Contended, Points
<1>6. CASE Release(w)
  BY <1>1, <1>2, <1>6 DEF Release, Unlocked, Points
<1>7. CASE ReadDeposit(w)
  BY <1>2, <1>7 DEF ReadDeposit, Saw, Points, Job
<1>8. CASE ReadTrade(w)
  <2>1. CASE TradeAdmitted(w)
    <3>1. Saw(w, "create")  BY <1>8, <2>1 DEF ReadTrade
    <3>2. job' \in [Workers -> Job] /\ at' \in [Workers -> Points]
      BY <1>3a, <3>1 DEF Points
    <3>3. QED  BY <1>8, <3>2 DEF ReadTrade
  <2>2. CASE ~TradeAdmitted(w)
    BY <1>8, <2>2 DEF ReadTrade, Points
  <2>3. QED  BY <2>1, <2>2
<1>9. CASE ReadAdjust(w)
  <2>1. CASE AdjustAdmitted(w)
    <3>1. Saw(w, "move")  BY <1>9, <2>1 DEF ReadAdjust
    <3>2. job' \in [Workers -> Job] /\ at' \in [Workers -> Points]
      BY <1>3a, <3>1 DEF Points
    <3>3. QED  BY <1>9, <3>2 DEF ReadAdjust
  <2>2. CASE ~AdjustAdmitted(w)
    BY <1>9, <2>2 DEF ReadAdjust, Points
  <2>3. QED  BY <2>1, <2>2
<1>10. CASE CreatePending(w)
  BY <1>2, <1>10 DEF CreatePending, Points, Statuses
<1>11. CASE CreateRequest(w)
  BY <1>2, <1>11 DEF CreateRequest, Points, Statuses
<1>12. CASE RecordAdjust(w)
  BY <1>2, <1>12 DEF RecordAdjust, Points, Statuses
<1>13. CASE MarkCompleted(w)
  BY <1>2, <1>13 DEF MarkCompleted, Points, Statuses
<1>14. CASE MarkRejected(w)
  BY <1>2, <1>14 DEF MarkRejected, Points, Statuses
<1>15. CASE CreditBalance(w)
  BY <1>2, <1>3, <1>15 DEF CreditBalance, CountMove, Points
<1>16. CASE DebitBalance(w)
  BY <1>2, <1>3, <1>16 DEF DebitBalance, CountMove, Points
<1>17. CASE DebitRefused(w)
  BY <1>17 DEF DebitRefused, Points
<1>18. CASE SetBalance(w)
  <2>1. job[w].seen \in Int  BY DEF Job
  <2>2. balance' \in [Users -> Int]
    BY <1>2, <1>18, <2>1 DEF SetBalance
  <2>3. moved' \in [Keys -> Nat] /\ ledger' \in [Users -> Int]
    BY <1>2, <1>3, <1>18 DEF SetBalance, CountMove
  <2>4. QED  BY <1>18, <2>2, <2>3 DEF SetBalance, Points
<1>19. CASE Notify(w)
  <2>1. Verdict(w) \in Verdicts  BY DEF Verdict, Verdicts
  <2>2. <<Key(w), Verdict(w)>> \in Keys \X Verdicts  BY <1>2, <2>1
  <2>3. notices' \subseteq Keys \X Verdicts  BY <1>19, <2>2 DEF Notify
  <2>4. at' \in [Workers -> Points] /\ job' \in [Workers -> Job]
    BY <1>1, <1>19 DEF Notify, Points
  <2>5. QED  BY <1>19, <2>3, <2>4 DEF Notify
<1>20. QED
  BY Proceed(w), <1>4, <1>5, <1>6, <1>7, <1>8, <1>9, <1>10, <1>11, <1>12, <1>13,
     <1>14, <1>15, <1>16, <1>17, <1>18, <1>19 DEF Proceed

\* The types hold in every reachable state.
THEOREM WalletTypes == Spec => []TypeOK
<1>1. Init => TypeOK
  BY NoJobTyped, WalletAssumption DEF Init, TypeOK, Statuses, Points
<1>2. TypeOK /\ [Next]_vars => TypeOK'
  <2> SUFFICES ASSUME TypeOK, [Next]_vars PROVE TypeOK'
    OBVIOUS
  <2> USE DEF TypeOK, wallet, books, ghosts
  <2>1. ASSUME NEW k \in Keys, InitiateDeposit(k) \/ PlaceOrder(k)
        PROVE  TypeOK'
    BY <2>1 DEF InitiateDeposit, PlaceOrder
  <2>2. ASSUME NEW w \in Workers, NEW k \in Keys, Arrive(w, k)
        PROVE  TypeOK'
    BY <2>2, ArriveTyped
  <2>3. ASSUME NEW w \in Workers, Proceed(w)
        PROVE  TypeOK'
    BY <2>3, ProceedTyped
  <2>4. ASSUME NEW w \in Workers, Fail(w)
        PROVE  TypeOK'
    BY <2>4, NoJobTyped DEF Fail, Goto, Finish, Points
  <2>5. ASSUME NEW w \in Workers, Crash(w)
        PROVE  TypeOK'
    <3>1. Owner(w) \in Users  BY WalletAssumption DEF Owner, Key, Job
    <3>2. QED  BY <2>5, <3>1, NoJobTyped DEF Crash, Finish, Points
  <2>6. ASSUME NEW u \in Users, ExpireOrphan(u) \/ Lapse(u) \/ HoldExpires(u) \/ OpenWallet(u)
        PROVE  TypeOK'
    BY <2>6 DEF ExpireOrphan, Lapse, HoldExpires, OpenWallet
  <2>7. CASE UNCHANGED vars
    BY <2>7 DEF vars
  <2>8. QED  BY <2>1, <2>2, <2>3, <2>4, <2>5, <2>6, <2>7 DEF Next
<1>3. QED  BY <1>1, <1>2, PTL DEF Spec

-----------------------------------------------------------------------------
(* SafetyInv: no assumption on the switches.                               *)

\* SafetyInv holds before the first request.
LEMMA SafetyInit == Init => SafetyInv
  BY WalletAssumption
  DEF Init, SafetyInv, JobsFit, DocsIssued, OneOwner, Owns, KeyedBooks, AdjustBooks,
      SolventWrites, Busy

\* SafetyInv survives the arrival of a request: an issued key starts in the
\* place its operation starts at.
LEMMA ArriveSafe ==
  ASSUME TypeOK, TypeOK', SafetyInv, NEW w \in Workers, NEW k \in Keys,
         Arrive(w, k)
  PROVE  SafetyInv'
<1> USE WalletAssumption
    DEF SafetyInv, JobsFit, DocsIssued, KindFor, OneOwner, Owns, KeyedBooks, AdjustBooks,
        SolventWrites, Busy, Start, Key, Op, Owner, Amount, wallet, books,
        ghosts, LockedOps, KeyedKinds, TradeKinds
<1> USE DEF TypeOK, Job
<1>1. CASE DeliverFirst(w, k)
  BY <1>1 DEF DeliverFirst
<1>2. CASE DeliverDuplicate(w, k)
  BY <1>2 DEF DeliverDuplicate
<1>3. CASE RequestWithdrawal(w, k)
  BY <1>3 DEF RequestWithdrawal
<1>4. CASE ApproveWithdrawal(w, k)
  BY <1>4 DEF ApproveWithdrawal, MayDecide
<1>5. CASE RejectWithdrawal(w, k)
  BY <1>5 DEF RejectWithdrawal, MayDecide
<1>6. CASE ManualAdjustment(w, k)
  BY <1>6 DEF ManualAdjustment
<1>7. QED  BY Arrive(w, k), <1>1, <1>2, <1>3, <1>4, <1>5, <1>6 DEF Arrive

\* SafetyInv survives every step of a request in progress, with or without
\* the lock it believes to hold.
LEMMA ProceedSafe ==
  ASSUME TypeOK, TypeOK', SafetyInv, NEW w \in Workers, Proceed(w)
  PROVE  SafetyInv'
<1> USE WalletAssumption
    DEF SafetyInv, JobsFit, DocsIssued, KindFor, OneOwner, Owns, KeyedBooks,
        AdjustBooks, SolventWrites, Busy, Goto, Finish, Key, Op, Owner, Amount,
        wallet, books, ghosts, LockedOps, KeyedKinds, TradeKinds, TypeOK, Job
<1>1. CASE Acquire(w)
  BY <1>1 DEF Acquire
<1>2. CASE Contended(w)
  BY <1>2 DEF Contended
<1>3. CASE Release(w)
  BY <1>3 DEF Release
<1>4. CASE ReadDeposit(w)
  BY <1>4 DEF ReadDeposit, Saw
<1>5. CASE ReadTrade(w)
  <2>1. CASE TradeAdmitted(w)
    <3>1. Saw(w, "create")  BY <1>5, <2>1 DEF ReadTrade
    <3>2. QED  BY <1>5, <3>1 DEF ReadTrade, Saw
  <2>2. CASE ~TradeAdmitted(w)
    <3>1. Goto(w, "release")  BY <1>5, <2>2 DEF ReadTrade
    <3>2. QED  BY <1>5, <3>1 DEF ReadTrade
  <2>3. QED  BY <2>1, <2>2
<1>6. CASE ReadAdjust(w)
  <2>1. CASE AdjustAdmitted(w)
    <3>1. Saw(w, "move")  BY <1>6, <2>1 DEF ReadAdjust
    <3>2. QED  BY <1>6, <2>1, <3>1 DEF ReadAdjust, AdjustAdmitted, Saw
  <2>2. CASE ~AdjustAdmitted(w)
    <3>1. Goto(w, "release")  BY <1>6, <2>2 DEF ReadAdjust
    <3>2. QED  BY <1>6, <3>1 DEF ReadAdjust
  <2>3. QED  BY <2>1, <2>2
<1>7. CASE CreatePending(w)
  <2>1. CASE tx[Key(w)] = "none"
    BY <1>7, <2>1 DEF CreatePending
  <2>2. CASE tx[Key(w)] # "none"
    BY <1>7, <2>2 DEF CreatePending
  <2>3. QED  BY <2>1, <2>2
<1>8. CASE CreateRequest(w)
  BY <1>8 DEF CreateRequest
<1>9. CASE RecordAdjust(w)
  BY <1>9 DEF RecordAdjust
<1>10. CASE MarkCompleted(w)
  BY <1>10 DEF MarkCompleted
<1>11. CASE MarkRejected(w)
  <2>1. CASE Op(w) = "deduct"
    <3>1. KindOf[Key(w)] = "deduct"  BY <1>11, <2>1 DEF MarkRejected
    <3>2. Owns(w)  BY <1>11, <2>1 DEF MarkRejected
    <3>3. QED  BY <1>11, <2>1, <3>1, <3>2 DEF MarkRejected
  <2>2. CASE Op(w) \in {"approve", "refuse"}
    <3>1. KindOf[Key(w)] = "withdrawal"  BY <1>11, <2>2 DEF MarkRejected
    <3>2. QED  BY <1>11, <2>2, <3>1 DEF MarkRejected
  <2>3. QED  BY <1>11, <2>1, <2>2 DEF MarkRejected
<1>12. CASE CreditBalance(w)
  BY <1>12 DEF CreditBalance, CountMove
<1>13. CASE DebitBalance(w)
  <2>1. CASE Op(w) = "deduct"
    <3>1. KindOf[Key(w)] = "deduct"  BY <1>13, <2>1 DEF DebitBalance
    <3>2. Owns(w)  BY <1>13, <2>1 DEF DebitBalance
    <3>3. SolventWrites'
      BY <1>13, <2>1 DEF DebitBalance, Covered, CountMove
    <3>4. QED  BY <1>13, <2>1, <3>1, <3>2, <3>3 DEF DebitBalance, CountMove
  <2>2. CASE Op(w) = "approve"
    <3>1. KindOf[Key(w)] = "withdrawal"  BY <1>13, <2>2 DEF DebitBalance
    <3>2. SolventWrites'
      BY <1>13, <2>2 DEF DebitBalance, Covered, CountMove
    <3>3. QED  BY <1>13, <2>2, <3>1, <3>2 DEF DebitBalance, CountMove
  <2>3. QED  BY <1>13, <2>1, <2>2 DEF DebitBalance
<1>14. CASE DebitRefused(w)
  BY <1>14 DEF DebitRefused
<1>15. CASE SetBalance(w)
  BY <1>15 DEF SetBalance, CountMove
<1>16. CASE Notify(w)
  <2>1. CASE Op(w) \in LockedOps
    <3>1. Goto(w, "release")  BY <1>16, <2>1 DEF Notify
    <3>2. QED  BY <1>16, <2>1, <3>1 DEF Notify
  <2>2. CASE Op(w) \notin LockedOps
    <3>1. Finish(w)  BY <1>16, <2>2 DEF Notify
    <3>2. QED  BY <1>16, <2>2, <3>1 DEF Notify
  <2>3. QED  BY <2>1, <2>2
<1>17. QED
  BY Proceed(w), <1>1, <1>2, <1>3, <1>4, <1>5, <1>6, <1>7, <1>8, <1>9, <1>10,
     <1>11, <1>12, <1>13, <1>14, <1>15, <1>16 DEF Proceed

\* SafetyInv survives issued keys, failures, crashes and the passing of time.
LEMMA OtherSafe ==
  ASSUME TypeOK, TypeOK', SafetyInv,
         \/ \E k \in Keys : InitiateDeposit(k) \/ PlaceOrder(k)
         \/ \E w \in Workers : Fail(w) \/ Crash(w)
         \/ \E u \in Users : ExpireOrphan(u) \/ Lapse(u) \/ HoldExpires(u) \/ OpenWallet(u)
         \/ UNCHANGED vars
  PROVE  SafetyInv'
<1> USE WalletAssumption
    DEF SafetyInv, JobsFit, DocsIssued, KindFor, OneOwner, Owns, KeyedBooks,
        AdjustBooks, SolventWrites, Busy, Goto, Finish, Key, Op, Owner, Amount,
        wallet, books, ghosts, LockedOps, KeyedKinds, TradeKinds, TypeOK, Job
<1>1. ASSUME NEW k \in Keys, InitiateDeposit(k) \/ PlaceOrder(k)
      PROVE  SafetyInv'
  BY <1>1 DEF InitiateDeposit, PlaceOrder
<1>2. ASSUME NEW w \in Workers, Fail(w)
      PROVE  SafetyInv'
  <2>1. CASE InLock(w)
    <3>1. Goto(w, "release")  BY <1>2, <2>1 DEF Fail
    <3>2. QED  BY <1>2, <3>1 DEF Fail
  <2>2. CASE ~InLock(w)
    <3>1. Finish(w)  BY <1>2, <2>2 DEF Fail
    <3>2. QED  BY <1>2, <3>1 DEF Fail
  <2>3. QED  BY <2>1, <2>2
<1>3. ASSUME NEW w \in Workers, Crash(w)
      PROVE  SafetyInv'
  BY <1>3 DEF Crash
<1>4. ASSUME NEW u \in Users, ExpireOrphan(u) \/ Lapse(u) \/ HoldExpires(u) \/ OpenWallet(u)
      PROVE  SafetyInv'
  BY <1>4 DEF ExpireOrphan, Lapse, HoldExpires, OpenWallet
<1>5. CASE UNCHANGED vars
  BY <1>5 DEF vars
<1>6. QED  BY <1>1, <1>2, <1>3, <1>4, <1>5

\* SafetyInv holds in every reachable state, lapsed locks, failures, crashes
\* and racing decisions included.
THEOREM WalletSafety == Spec => []SafetyInv
<1>1. TypeOK /\ TypeOK' /\ SafetyInv /\ [Next]_vars => SafetyInv'
  BY ArriveSafe, ProceedSafe, OtherSafe DEF Next
<1>2. QED  BY <1>1, SafetyInit, WalletTypes, PTL DEF Spec

\* No wallet is ever overdrawn.
THEOREM NeverOverdrawn == Spec => []NonNegativeBalance
<1>1. TypeOK /\ SafetyInv => NonNegativeBalance
  BY DEF TypeOK, SafetyInv, SolventWrites, NonNegativeBalance, NegativeBalances
<1>2. QED  BY <1>1, WalletTypes, WalletSafety, PTL

\* A deposit, a trade leg and an adjustment move money at most once.
THEOREM MovesOnce == Spec => []MovedAtMostOnce
<1>1. SafetyInv => MovedAtMostOnce
  BY WalletAssumption
  DEF SafetyInv, KeyedBooks, AdjustBooks, MovedAtMostOnce, Kinds
<1>2. QED  BY <1>1, WalletSafety, PTL

\* The status of their documents says whether they did.
THEOREM StatusHonest == Spec => []StatusTellsMoney
<1>1. SafetyInv => StatusTellsMoney
  BY WalletAssumption
  DEF SafetyInv, KeyedBooks, AdjustBooks, StatusTellsMoney, Kinds
<1>2. QED  BY <1>1, WalletSafety, PTL

\* The release script: finishing a request never takes away a lock that another
\* request holds, whatever has lapsed, failed or crashed before.
THEOREM ReleasesOnlyOwn == Spec => ReleaseOnlyOwn
<1>1. TypeOK /\ [Next]_vars =>
        \A w \in Workers : at[w] = "release" /\ at'[w] = "idle" =>
          \A u \in Users : lock[u] # w => lock'[u] = lock[u]
  <2> SUFFICES ASSUME TypeOK, [Next]_vars, NEW w \in Workers, at[w] = "release",
                      at'[w] = "idle", NEW u \in Users, lock[u] # w
               PROVE  lock'[u] = lock[u]
    OBVIOUS
  <2>1. ASSUME NEW v \in Workers, Proceed(v) \/ Crash(v) \/ Fail(v), v # w
        PROVE  FALSE
    BY <2>1
    DEF Proceed, Fail, Crash, Acquire, Contended, Release, ReadDeposit, ReadTrade, ReadAdjust,
        CreatePending, CreateRequest, RecordAdjust, MarkCompleted, MarkRejected,
        CreditBalance, DebitBalance, DebitRefused, SetBalance, Notify, Goto, Finish, Saw,
        TypeOK
  <2>2. CASE Proceed(w)
    <3>1. Release(w)
      BY <2>2
      DEF Proceed, Acquire, Contended, ReadDeposit, ReadTrade, ReadAdjust,
        CreatePending, CreateRequest, RecordAdjust, MarkCompleted, MarkRejected,
        CreditBalance, DebitBalance, DebitRefused, SetBalance, Notify
    <3>2. QED  BY <3>1 DEF Release, Unlocked, TypeOK
  <2>3. CASE Crash(w)
    BY <2>3 DEF Crash, TypeOK
  <2>4. CASE Fail(w)
    BY <2>4 DEF Fail
  <2>5. ASSUME NEW v \in Workers, NEW k \in Keys, Arrive(v, k)
        PROVE  lock'[u] = lock[u]
    BY <2>5
    DEF Arrive, DeliverFirst, DeliverDuplicate, RequestWithdrawal, ApproveWithdrawal,
        RejectWithdrawal, ManualAdjustment
  <2>6. ASSUME NEW k \in Keys, InitiateDeposit(k) \/ PlaceOrder(k)
        PROVE  lock'[u] = lock[u]
    BY <2>6 DEF InitiateDeposit, PlaceOrder
  <2>7. ASSUME NEW v \in Users, ExpireOrphan(v) \/ Lapse(v) \/ HoldExpires(v) \/ OpenWallet(v)
        PROVE  FALSE
    BY <2>7 DEF ExpireOrphan, Lapse, HoldExpires, OpenWallet
  <2>8. CASE UNCHANGED vars
    BY <2>8 DEF vars
  <2>9. QED  BY <2>1, <2>2, <2>3, <2>4, <2>5, <2>6, <2>7, <2>8 DEF Next
<1>2. QED  BY <1>1, WalletTypes, PTL DEF Spec, ReleaseOnlyOwn

-----------------------------------------------------------------------------
(* ExclusionInv: as long as no lock lapses under a live holder.            *)

\* A step of w that leaves the locks alone, and neither enters the lock nor
\* changes jobs inside it, keeps every token in place.
LEMMA TokenKept ==
  ASSUME TypeOK, TokenInv, NEW w \in Workers, UNCHANGED lock,
         InLock(w)' => InLock(w) /\ UNCHANGED Owner(w),
         \A v \in Workers \ {w} : at'[v] = at[v] /\ job'[v] = job[v]
  PROVE  TokenInv'
  BY DEF TokenInv, InLock, Owner, Key, Op

\* No step takes the token of a request that is between acquire and release.
LEMMA TokenStep ==
  ASSUME TypeOK, SafetyInv, TokenInv, ~LockMayLapse, [Next]_vars
  PROVE  TokenInv'
<1>0. JobsFit  BY DEF SafetyInv
<1>1. ASSUME NEW w \in Workers, NEW p \in Points, Goto(w, p), at[w] \in Critical,
             UNCHANGED lock
      PROVE  TokenInv'
  BY <1>1, TokenKept DEF Goto, InLock, Owner, Key, Op, TypeOK
<1>2. ASSUME NEW w \in Workers, Finish(w), UNCHANGED lock
      PROVE  TokenInv'
  BY <1>2, TokenKept DEF Finish, InLock, Owner, Key, Op, Critical, Points, TypeOK
<1>3. ASSUME NEW w \in Workers, NEW p \in Critical, Saw(w, p), at[w] = "read",
             UNCHANGED lock
      PROVE  TokenInv'
  BY <1>3, TokenKept
  DEF Saw, InLock, Owner, Key, Op, Critical, Points, TypeOK, Job
<1>4. ASSUME NEW w \in Workers, NEW op \in Ops, NEW k \in Keys, NEW p \in Points,
             Start(w, op, k, p), op \in LockedOps => p \notin Critical,
             UNCHANGED lock
      PROVE  TokenInv'
  BY <1>4, TokenKept
  DEF Start, InLock, Owner, Key, Op, TypeOK
<1>5. {"lock", "read", "create", "move", "mark", "reject", "notify", "decline",
       "release"} \subseteq Points
      /\ Critical = {"read", "create", "move", "mark", "reject", "notify",
                     "decline", "release"}
  BY DEF Points, Critical
<1>6. ASSUME NEW k \in Keys, InitiateDeposit(k) \/ PlaceOrder(k)
      PROVE  TokenInv'
  BY <1>6 DEF InitiateDeposit, PlaceOrder, TokenInv, InLock, Owner, Key, Op
<1>7. ASSUME NEW w \in Workers, NEW k \in Keys, Arrive(w, k)
      PROVE  TokenInv'
  <2>1. CASE DeliverDuplicate(w, k)
    BY <2>1 DEF DeliverDuplicate, TokenInv, InLock, Owner, Key, Op
  <2>2. CASE ~DeliverDuplicate(w, k)
    BY <1>4, <1>5, <1>7, <2>2
    DEF Arrive, DeliverFirst, RequestWithdrawal, ApproveWithdrawal,
        RejectWithdrawal, ManualAdjustment, Ops, LockedOps, KeyedKinds, TradeKinds
  <2>3. QED  BY <2>1, <2>2
<1>8. ASSUME NEW w \in Workers, Proceed(w)
      PROVE  TokenInv'
  <2>1. CASE Acquire(w)
    BY WalletAssumption, <2>1
    DEF Acquire, Goto, TokenInv, InLock, Owner, Key, Op, TypeOK, Job
  <2>2. CASE Contended(w)
    BY <1>2, <2>2 DEF Contended
  <2>3. CASE Release(w)
    BY WalletAssumption, <2>3
    DEF Release, Unlocked, Finish, TokenInv, InLock, Owner, Key, Op, Critical,
        Points, TypeOK, Job
  <2>4. CASE ReadDeposit(w)
    BY <1>3, <1>5, <2>4 DEF ReadDeposit
  <2>5. CASE ReadTrade(w)
    BY <1>1, <1>3, <1>5, <2>5 DEF ReadTrade
  <2>6. CASE ReadAdjust(w)
    BY <1>1, <1>3, <1>5, <2>6 DEF ReadAdjust
  <2>7. CASE CreatePending(w)
    BY <1>1, <1>5, <2>7 DEF CreatePending
  <2>8. CASE CreateRequest(w) \/ RecordAdjust(w)
    BY <1>1, <1>5, <2>8 DEF CreateRequest, RecordAdjust
  <2>9. CASE MarkCompleted(w) \/ MarkRejected(w)
    BY <1>1, <1>5, <2>9 DEF MarkCompleted, MarkRejected
  <2>10. CASE CreditBalance(w) \/ DebitBalance(w)
    BY <1>1, <1>5, <2>10 DEF CreditBalance, DebitBalance
  <2>11. CASE DebitRefused(w) \/ SetBalance(w)
    BY <1>1, <1>5, <2>11 DEF DebitRefused, SetBalance
  <2>12. CASE Notify(w)
    BY <1>1, <1>2, <1>5, <2>12 DEF Notify
  <2>13. QED
    BY <1>8, <2>1, <2>2, <2>3, <2>4, <2>5, <2>6, <2>7, <2>8, <2>9, <2>10, <2>11,
       <2>12 DEF Proceed
<1>9. ASSUME NEW w \in Workers, Fail(w)
      PROVE  TokenInv'
  <2>1. CASE InLock(w)
    BY <1>1, <1>5, <1>9, <2>1 DEF Fail, InLock
  <2>2. CASE ~InLock(w)
    BY <1>2, <1>9, <2>2 DEF Fail
  <2>3. QED  BY <2>1, <2>2
<1>10. ASSUME NEW w \in Workers, Crash(w)
       PROVE  TokenInv'
  BY WalletAssumption, <1>10
  DEF Crash, Finish, TokenInv, InLock, Owner, Key, Op, Critical, Points, TypeOK, Job
<1>11. ASSUME NEW u \in Users, ExpireOrphan(u)
       PROVE  TokenInv'
  BY WalletAssumption, <1>11
  DEF ExpireOrphan, TokenInv, InLock, Owner, Key, Op, TypeOK
<1>12. ASSUME NEW u \in Users, Lapse(u) \/ HoldExpires(u) \/ OpenWallet(u)
       PROVE  TokenInv'
  BY <1>12 DEF Lapse, HoldExpires, OpenWallet, TokenInv, InLock, Owner, Key, Op
<1>13. CASE UNCHANGED vars
  BY <1>13 DEF vars, TokenInv, InLock, Owner, Key, Op
<1>14. QED
  BY <1>6, <1>7, <1>8, <1>9, <1>10, <1>11, <1>12, <1>13 DEF Next

\* A step that moves no money, and puts no request in front of an adjustment's
\* write except right after it read the balance, keeps balances as they were
\* read and as they are accounted for.
LEMMA MoneyKept ==
  ASSUME SeenInv, LedgerAgrees, UNCHANGED <<balance, ledger>>,
         \A v \in Workers :
           at'[v] = "move" /\ Op(v)' = "adjust" =>
             \/ at[v] = "move" /\ job'[v] = job[v]
             \/ job'[v].seen = balance[Owner(v)]'
  PROVE  SeenInv' /\ LedgerAgrees'
  BY DEF SeenInv, LedgerAgrees, Owner, Op, Key

\* A movement by w, who holds the lock, is accounted for; nobody else is about
\* to write a balance computed from an earlier read of the same wallet.
LEMMA MoneyMoved ==
  ASSUME TypeOK, TokenInv, SeenInv, LedgerAgrees, NEW w \in Workers,
         InLock(w), CountMove(w), NEW p \in Points \ {"move"}, Goto(w, p),
         balance' = [balance EXCEPT ![Owner(w)] = @ + Delta(Key(w))]
  PROVE  SeenInv' /\ LedgerAgrees'
<1>1. Owner(w) \in Users /\ Delta(Key(w)) \in Int
  BY WalletAssumption DEF Owner, Key, Delta, TypeOK, Job
<1>2. \A v \in Workers \ {w} : at[v] = "move" /\ Op(v) = "adjust"
                                => Owner(v) # Owner(w)
  BY DEF TokenInv, InLock, Critical, Points, LockedOps
<1>3. SeenInv'
  BY <1>1, <1>2 DEF SeenInv, Goto, Op, Owner, Key, TypeOK
<1>4. LedgerAgrees'
  BY <1>1 DEF LedgerAgrees, CountMove, TypeOK
<1>5. QED  BY <1>3, <1>4

\* No step makes a balance differ from its ledger, or from what the adjustment
\* about to overwrite it has read.
LEMMA MoneyStep ==
  ASSUME TypeOK, SafetyInv, TokenInv, SeenInv, LedgerAgrees, [Next]_vars
  PROVE  SeenInv' /\ LedgerAgrees'
<1>0. JobsFit  BY DEF SafetyInv
<1>1. ASSUME NEW w \in Workers, NEW p \in Points \ {"move"},
             Goto(w, p) \/ Saw(w, p), UNCHANGED <<balance, ledger>>
      PROVE  SeenInv' /\ LedgerAgrees'
  BY <1>1, MoneyKept DEF Goto, Saw, Op, TypeOK
<1>2. ASSUME NEW w \in Workers, Finish(w), UNCHANGED <<balance, ledger>>
      PROVE  SeenInv' /\ LedgerAgrees'
  BY <1>2, MoneyKept DEF Finish, Op, TypeOK
<1>3. ASSUME NEW w \in Workers, NEW op \in Ops, NEW k \in Keys,
             NEW p \in Points \ {"move"}, Start(w, op, k, p),
             UNCHANGED <<balance, ledger>>
      PROVE  SeenInv' /\ LedgerAgrees'
  BY <1>3, MoneyKept DEF Start, Op, TypeOK
<1>4. ASSUME UNCHANGED <<balance, ledger, at, job>>
      PROVE  SeenInv' /\ LedgerAgrees'
  BY <1>4, MoneyKept DEF Op
<1>5. {"lock", "read", "create", "mark", "reject", "notify", "decline",
       "release"} \subseteq Points \ {"move"}
  BY DEF Points
<1>6. ASSUME NEW k \in Keys, InitiateDeposit(k) \/ PlaceOrder(k)
      PROVE  SeenInv' /\ LedgerAgrees'
  BY <1>4, <1>6 DEF InitiateDeposit, PlaceOrder, wallet, ghosts
<1>7. ASSUME NEW w \in Workers, NEW k \in Keys, Arrive(w, k)
      PROVE  SeenInv' /\ LedgerAgrees'
  <2>1. CASE DeliverDuplicate(w, k)
    BY <1>4, <2>1 DEF DeliverDuplicate, wallet, ghosts
  <2>2. CASE ~DeliverDuplicate(w, k)
    BY <1>3, <1>5, <1>7, <2>2
    DEF Arrive, DeliverFirst, RequestWithdrawal, ApproveWithdrawal,
        RejectWithdrawal, ManualAdjustment, Ops, LockedOps, KeyedKinds,
        TradeKinds, wallet, ghosts
  <2>3. QED  BY <2>1, <2>2
<1>8. ASSUME NEW w \in Workers, Proceed(w)
      PROVE  SeenInv' /\ LedgerAgrees'
  <2> USE DEF wallet, ghosts
  <2>0. at[w] = "move" => InLock(w)
    BY <1>0 DEF JobsFit, InLock, Critical, Points
  <2>1. CASE Acquire(w)
    <3>1. CASE Op(w) = "approve"
      <4>1. Goto(w, "move")  BY <2>1, <3>1 DEF Acquire
      <4>2. QED  BY <2>1, <3>1, <4>1, MoneyKept DEF Acquire, Goto, Op, TypeOK
    <3>2. CASE Op(w) # "approve"
      <4>1. Goto(w, "read")  BY <2>1, <3>2 DEF Acquire
      <4>2. QED  BY <1>1, <1>5, <2>1, <4>1 DEF Acquire
    <3>3. QED  BY <3>1, <3>2
  <2>2. CASE Contended(w) \/ Release(w)
    BY <1>2, <2>2 DEF Contended, Release
  <2>3. CASE ReadDeposit(w)
    BY <1>1, <1>5, <2>3 DEF ReadDeposit
  <2>4. CASE ReadTrade(w)
    BY <1>1, <1>5, <2>4 DEF ReadTrade
  <2>5. CASE ReadAdjust(w)
    <3>1. CASE AdjustAdmitted(w)
      <4>1. Saw(w, "move")  BY <2>5, <3>1 DEF ReadAdjust
      <4>2. QED
        BY <2>5, <4>1, MoneyKept DEF ReadAdjust, Saw, Op, Owner, Key, TypeOK, Job
    <3>2. CASE ~AdjustAdmitted(w)
      <4>1. Goto(w, "release")  BY <2>5, <3>2 DEF ReadAdjust
      <4>2. QED  BY <1>1, <1>5, <2>5, <4>1 DEF ReadAdjust
    <3>3. QED  BY <3>1, <3>2
  <2>6. CASE CreatePending(w)
    <3>1. CASE tx[Key(w)] = "none"
      <4>1. Goto(w, "move") /\ Op(w) # "adjust"
        BY <2>6, <3>1 DEF CreatePending, KeyedKinds, TradeKinds
      <4>2. QED
        BY <2>6, <4>1, MoneyKept DEF CreatePending, Goto, Op, TypeOK
    <3>2. CASE tx[Key(w)] # "none"
      BY <1>1, <1>5, <2>6, <3>2 DEF CreatePending
    <3>3. QED  BY <3>1, <3>2
  <2>7. CASE CreateRequest(w) \/ RecordAdjust(w)
    BY <1>1, <1>5, <2>7 DEF CreateRequest, RecordAdjust
  <2>8. CASE MarkCompleted(w) \/ MarkRejected(w)
    BY <1>1, <1>5, <2>8 DEF MarkCompleted, MarkRejected
  <2>9. CASE CreditBalance(w)
    <3>1. Delta(Key(w)) = Amount(w)
      BY <1>0, <2>9
      DEF CreditBalance, JobsFit, Busy, KindFor, KeyedKinds, TradeKinds, Delta,
          Amount
    <3>2. QED  BY <1>5, <2>0, <2>9, <3>1, MoneyMoved DEF CreditBalance
  <2>10. CASE DebitBalance(w)
    <3>1. Delta(Key(w)) = 0 - Amount(w) /\ Owner(w) \in Users /\ Amount(w) \in Int
      BY <1>0, <2>10, WalletAssumption
      DEF DebitBalance, JobsFit, Busy, KindFor, KeyedKinds, TradeKinds, Delta,
          Amount, Owner, Key, TypeOK, Job
    <3>2. balance[Owner(w)] - Amount(w) = balance[Owner(w)] + Delta(Key(w))
      BY <3>1 DEF TypeOK
    <3>3. balance' = [balance EXCEPT ![Owner(w)] = @ + Delta(Key(w))]
      BY <2>10, <3>2 DEF DebitBalance
    <3>4. QED  BY <1>5, <2>0, <2>10, <3>3, MoneyMoved DEF DebitBalance
  <2>11. CASE DebitRefused(w)
    BY <1>1, <1>5, <2>11 DEF DebitRefused
  <2>12. CASE SetBalance(w)
    <3>1. Delta(Key(w)) = Amount(w)
      BY <1>0, <2>12
      DEF SetBalance, JobsFit, Busy, KindFor, KeyedKinds, TradeKinds, Delta, Amount
    <3>2. balance' = [balance EXCEPT ![Owner(w)] = @ + Delta(Key(w))]
      BY <2>12, <3>1 DEF SetBalance, SeenInv
    <3>3. QED  BY <1>5, <2>0, <2>12, <3>2, MoneyMoved DEF SetBalance
  <2>13. CASE Notify(w)
    BY <1>1, <1>2, <1>5, <2>13 DEF Notify
  <2>14. QED
    BY <1>8, <2>1, <2>2, <2>3, <2>4, <2>5, <2>6, <2>7, <2>8, <2>9, <2>10, <2>11,
       <2>12, <2>13 DEF Proceed
<1>9. ASSUME NEW w \in Workers, Fail(w) \/ Crash(w)
      PROVE  SeenInv' /\ LedgerAgrees'
  BY <1>1, <1>2, <1>5, <1>9 DEF Fail, Crash, wallet, ghosts
<1>10. ASSUME NEW u \in Users, ExpireOrphan(u) \/ Lapse(u) \/ HoldExpires(u) \/ OpenWallet(u)
       PROVE  SeenInv' /\ LedgerAgrees'
  BY <1>4, <1>10 DEF ExpireOrphan, Lapse, HoldExpires, OpenWallet, wallet, ghosts
<1>11. CASE UNCHANGED vars
  BY <1>4, <1>11 DEF vars, wallet, ghosts
<1>12. QED
  BY <1>6, <1>7, <1>8, <1>9, <1>10, <1>11 DEF Next

\* As long as no lock lapses under a live holder, tokens stay in place and
\* adjustments write what they computed from the current balance.
THEOREM WalletExclusion ==
  ASSUME ~LockMayLapse
  PROVE  Spec => []ExclusionInv
<1>1. Init => ExclusionInv
  BY DEF Init, ExclusionInv, TokenInv, SeenInv, LedgerAgrees, InLock, Critical,
         Points
<1>2. TypeOK /\ SafetyInv /\ ExclusionInv /\ [Next]_vars => ExclusionInv'
  BY TokenStep, MoneyStep DEF ExclusionInv
<1>3. QED  BY <1>1, <1>2, WalletTypes, WalletSafety, PTL DEF Spec

\* withLock is exclusive per user ...
THEOREM LockIsExclusive ==
  ASSUME ~LockMayLapse
  PROVE  Spec => []MutualExclusion
<1>1. ExclusionInv => MutualExclusion
  BY DEF ExclusionInv, TokenInv, MutualExclusion
<1>2. QED  BY <1>1, WalletExclusion, PTL

\* ... and no balance update is lost.
THEOREM NoUpdateLost ==
  ASSUME ~LockMayLapse
  PROVE  Spec => []LedgerAgrees
<1>1. ExclusionInv => LedgerAgrees
  BY DEF ExclusionInv
<1>2. QED  BY <1>1, WalletExclusion, PTL

-----------------------------------------------------------------------------
(* DecisionInv: as long as decisions on a withdrawal do not race and no       *)
(* request breaks off.                                                       *)

\* The arrival of a request keeps the decisions' bookkeeping.
LEMMA ArriveDecides ==
  ASSUME TypeOK, TypeOK', SafetyInv, DecisionInv, ~DecisionsRace,
         NEW w \in Workers, NEW k \in Keys, Arrive(w, k)
  PROVE  DecisionInv'
<1> USE WalletAssumption
    DEF SafetyInv, JobsFit, DocsIssued, KindFor, DecisionInv, OneDecider, DecisionSteps,
        NoticesSettled, Decides, Debited,
        Busy, Start, Key, Op, wallet, books, ghosts, LockedOps, KeyedKinds, TradeKinds,
        TypeOK, Job
<1>1. CASE DeliverFirst(w, k)
  <2>1. WithdrawalBooks'  BY <1>1 DEF DeliverFirst, WithdrawalBooks
  <2>2. QED  BY <1>1, <2>1 DEF DeliverFirst
<1>2. CASE DeliverDuplicate(w, k)
  BY <1>2 DEF DeliverDuplicate, WithdrawalBooks
<1>3. CASE RequestWithdrawal(w, k)
  <2>1. WithdrawalBooks'  BY <1>3 DEF RequestWithdrawal, WithdrawalBooks
  <2>2. QED  BY <1>3, <2>1 DEF RequestWithdrawal
<1>4. CASE ApproveWithdrawal(w, k)
  <2>1. WithdrawalBooks'  BY <1>4 DEF ApproveWithdrawal, MayDecide, WithdrawalBooks
  <2>2. QED  BY <1>4, <2>1 DEF ApproveWithdrawal, MayDecide
<1>5. CASE RejectWithdrawal(w, k)
  <2>1. WithdrawalBooks'  BY <1>5 DEF RejectWithdrawal, MayDecide, WithdrawalBooks
  <2>2. QED  BY <1>5, <2>1 DEF RejectWithdrawal, MayDecide
<1>6. CASE ManualAdjustment(w, k)
  <2>1. WithdrawalBooks'  BY <1>6 DEF ManualAdjustment, WithdrawalBooks
  <2>2. QED  BY <1>6, <2>1 DEF ManualAdjustment
<1>7. QED  BY Arrive(w, k), <1>1, <1>2, <1>3, <1>4, <1>5, <1>6 DEF Arrive

\* A step of w that takes no decision on a withdrawal any further keeps the books
\* of all withdrawals.
LEMMA WithdrawalsKept ==
  ASSUME WithdrawalBooks,
         \A k \in Keys : KindOf[k] = "withdrawal" =>
           moved'[k] = moved[k] /\ (tx'[k] = "COMPLETED" <=> tx[k] = "COMPLETED"),
         \A v \in Workers : Debited(v) <=> Debited(v)',
         \A v \in Workers : Debited(v) => Key(v)' = Key(v)
  PROVE  WithdrawalBooks'
  BY DEF WithdrawalBooks

\* An adjustment's record touches neither the withdrawals nor what was announced.
LEMMA AdjustmentApart ==
  ASSUME DecisionSteps, NoticesSettled, JobsFit, NEW w \in Workers, Goto(w, "release"),
         UNCHANGED notices, at \in [Workers -> Points],
         \A v \in Workers : Key(v) \in Keys,
         \A k \in Keys : KindOf[k] # "adjust" => tx'[k] = tx[k]
  PROVE  DecisionSteps' /\ NoticesSettled'
<1>1. NoticesSettled'  BY DEF NoticesSettled
<1>2. ASSUME NEW v \in Workers, v # w, Busy(v), Op(v) # "adjust"
      PROVE  tx'[Key(v)] = tx[Key(v)] /\ at'[v] = at[v]
  BY <1>2 DEF Goto, JobsFit, KindFor
<1>3. DecisionSteps'
  BY <1>2 DEF DecisionSteps, Goto, Busy, Key, Op
<1>4. QED  BY <1>1, <1>3

\* The steps of a request keep the decisions' bookkeeping.
LEMMA ProceedDecides ==
  ASSUME TypeOK, TypeOK', SafetyInv, DecisionInv, NEW w \in Workers, Proceed(w)
  PROVE  DecisionInv'
<1> USE WalletAssumption
    DEF SafetyInv, JobsFit, DocsIssued, KindFor, DecisionInv, OneDecider, DecisionSteps,
        NoticesSettled, Decides, Debited,
        Busy, Goto, Finish, Saw, Key, Op, wallet, books, ghosts, LockedOps, KeyedKinds, TradeKinds,
        TypeOK, Job
<1>1. CASE Acquire(w)
  <2>1. WithdrawalBooks'  BY <1>1, WithdrawalsKept DEF Acquire
  <2>2. QED  BY <1>1, <2>1 DEF Acquire
<1>2. CASE Contended(w)
  <2>1. WithdrawalBooks'  BY <1>2, WithdrawalsKept DEF Contended
  <2>2. QED  BY <1>2, <2>1 DEF Contended
<1>3. CASE Release(w)
  <2>1. WithdrawalBooks'  BY <1>3, WithdrawalsKept DEF Release
  <2>2. QED  BY <1>3, <2>1 DEF Release
<1>4. CASE ReadDeposit(w)
  <2>1. WithdrawalBooks'  BY <1>4, WithdrawalsKept DEF ReadDeposit
  <2>2. QED  BY <1>4, <2>1 DEF ReadDeposit
<1>4a. ASSUME NEW p \in Points \ {"reject", "notify", "decline"}, Goto(w, p) \/ Saw(w, p),
             at[w] = "read", UNCHANGED <<tx, issued, moved, notices>>
       PROVE  DecisionInv'
  <2>1. CASE Goto(w, p)
    <3>1. WithdrawalBooks'  BY <1>4a, <2>1, WithdrawalsKept
    <3>2. QED  BY <1>4a, <2>1, <3>1
  <2>2. CASE Saw(w, p)
    <3>1. WithdrawalBooks'  BY <1>4a, <2>2, WithdrawalsKept
    <3>2. QED  BY <1>4a, <2>2, <3>1
  <2>3. QED  BY <1>4a, <2>1, <2>2
<1>4b. {"create", "move", "release"} \subseteq Points \ {"reject", "notify", "decline"}
  BY DEF Points
<1>5. CASE ReadTrade(w)
  <2>1. /\ Goto(w, "release") \/ Saw(w, "create")
        /\ at[w] = "read" /\ UNCHANGED <<tx, issued, moved, notices>>
    BY <1>5 DEF ReadTrade
  <2> HIDE DEF Goto, Saw
  <2>2. QED  BY <1>4a, <1>4b, <2>1
<1>6. CASE ReadAdjust(w)
  <2>1. /\ Goto(w, "release") \/ Saw(w, "move")
        /\ at[w] = "read" /\ UNCHANGED <<tx, issued, moved, notices>>
    BY <1>6 DEF ReadAdjust
  <2> HIDE DEF Goto, Saw
  <2>2. QED  BY <1>4a, <1>4b, <2>1
<1>7. CASE CreatePending(w)
  <2>1. WithdrawalBooks'  BY <1>7, WithdrawalsKept DEF CreatePending
  <2>2. KindOf[Key(w)] \in KeyedKinds  BY <1>7 DEF CreatePending
  <2>3. CASE tx[Key(w)] = "none"
    BY <1>7, <2>1, <2>2, <2>3 DEF CreatePending
  <2>4. CASE tx[Key(w)] # "none"
    BY <1>7, <2>1, <2>2, <2>4 DEF CreatePending
  <2>5. QED  BY <2>3, <2>4
<1>8. CASE CreateRequest(w)
  <2>1. WithdrawalBooks'  BY <1>8, WithdrawalsKept DEF CreateRequest
  <2>2. QED  BY <1>8, <2>1 DEF CreateRequest
<1>9. CASE RecordAdjust(w)
  <2>0. KindOf[Key(w)] = "adjust"  BY <1>9 DEF RecordAdjust
  <2>1. WithdrawalBooks'  BY <1>9, <2>0, WithdrawalsKept DEF RecordAdjust
  <2>2. OneDecider'  BY <1>9 DEF RecordAdjust
  <2>3. \A k \in Keys : KindOf[k] # "adjust" => tx'[k] = tx[k]
    BY <1>9, <2>0 DEF RecordAdjust
  <2>4. DecisionSteps' /\ NoticesSettled'
    <3>1. Goto(w, "release") /\ UNCHANGED notices /\ JobsFit /\ DecisionSteps /\ NoticesSettled
          /\ \A v \in Workers : Key(v) \in Keys
      BY <1>9 DEF RecordAdjust
    <3> HIDE DEF Goto, JobsFit, DecisionSteps, NoticesSettled, Key
    <3>2. QED  BY <2>3, <3>1, AdjustmentApart
  <2>6. QED  BY <2>1, <2>2, <2>4
<1>10. CASE MarkCompleted(w)
  <2>1. WithdrawalBooks'
    <3>1. tx' = [tx EXCEPT ![Key(w)] = "COMPLETED"] /\ UNCHANGED <<moved, job>> /\ at[w] = "mark"
          /\ at' = [at EXCEPT ![w] = IF Op(w) \in TradeKinds THEN "release" ELSE "notify"]
      BY <1>10 DEF MarkCompleted
    <3>2. CASE Op(w) # "approve"
      <4>1. KindOf[Key(w)] # "withdrawal"  BY <3>1, <3>2
      <4>2. QED  BY <3>1, <3>2, <4>1, WithdrawalsKept
    <3>3. CASE Op(w) = "approve"
      <4>1. /\ KindOf[Key(w)] = "withdrawal" /\ Debited(w)
            /\ \A v \in Workers \ {w} : Debited(v) => Key(v) # Key(w)
        BY <3>1, <3>3
      <4>2. moved'[Key(w)] = 1 /\ tx'[Key(w)] = "COMPLETED"
        BY <3>1, <4>1 DEF WithdrawalBooks
      <4>3. ASSUME NEW k \in Keys \ {Key(w)}
            PROVE  /\ moved'[k] = moved[k] /\ tx'[k] = tx[k]
                   /\ \A v \in Workers : Debited(v) /\ Key(v) = k <=> Debited(v)' /\ Key(v)' = k
        BY <3>1, <4>1
      <4>4. QED  BY <4>2, <4>3 DEF WithdrawalBooks
    <3>4. QED  BY <3>2, <3>3
  <2>2. QED  BY <1>10, <2>1 DEF MarkCompleted, OneOwner, Owns
<1>11. CASE MarkRejected(w)
  <2>1. WithdrawalBooks'  BY <1>11, WithdrawalsKept DEF MarkRejected, OneOwner, Owns
  <2>2. QED  BY <1>11, <2>1 DEF MarkRejected, OneOwner, Owns
<1>12. CASE CreditBalance(w)
  <2>1. WithdrawalBooks'  BY <1>12, WithdrawalsKept DEF CreditBalance, CountMove
  <2>2. QED  BY <1>12, <2>1 DEF CreditBalance, CountMove
<1>13. CASE DebitBalance(w)
  <2>1. WithdrawalBooks'
    <3>1. CASE Op(w) = "deduct"
      BY <1>13, <3>1, WithdrawalsKept DEF DebitBalance, CountMove
    <3>2. CASE Op(w) = "approve"
      <4>1. /\ KindOf[Key(w)] = "withdrawal" /\ tx[Key(w)] = "PENDING" /\ at[w] = "move"
            /\ \A v \in Workers : Debited(v) => Key(v) # Key(w)
        BY <1>13, <3>2 DEF DebitBalance
      <4>2. moved[Key(w)] = 0
        BY <4>1 DEF WithdrawalBooks
      <4>3. moved'[Key(w)] = 1 /\ Debited(w)' /\ Key(w)' = Key(w)
        BY <1>13, <3>2, <4>2 DEF DebitBalance, CountMove
      <4>4. ASSUME NEW k \in Keys \ {Key(w)}
            PROVE  /\ moved'[k] = moved[k] /\ tx'[k] = tx[k]
                   /\ \A v \in Workers : Debited(v) /\ Key(v) = k <=> Debited(v)' /\ Key(v)' = k
        BY <1>13, <4>1 DEF DebitBalance, CountMove
      <4>5. QED  BY <4>3, <4>4 DEF WithdrawalBooks
    <3>3. QED  BY <1>13, <3>1, <3>2 DEF DebitBalance
  <2>2. QED  BY <1>13, <2>1 DEF DebitBalance, CountMove
<1>14. CASE DebitRefused(w)
  <2>1. WithdrawalBooks'  BY <1>14, WithdrawalsKept DEF DebitRefused
  <2>2. QED  BY <1>14, <2>1 DEF DebitRefused
<1>15. CASE SetBalance(w)
  <2>1. WithdrawalBooks'  BY <1>15, WithdrawalsKept DEF SetBalance, CountMove
  <2>2. QED  BY <1>15, <2>1 DEF SetBalance, CountMove
<1>16. CASE Notify(w)
  <2>1. WithdrawalBooks'  BY <1>16, WithdrawalsKept DEF Notify
  <2>2. OneDecider'  BY <1>16 DEF Notify
  <2>3. DecisionSteps'  BY <1>16 DEF Notify
  <2>4. NoticesSettled'
    <3>1. notices' = notices \cup {<<Key(w), Verdict(w)>>} /\ UNCHANGED tx
      BY <1>16 DEF Notify
    <3>2. /\ Verdict(w) = "credited" => KindOf[Key(w)] = "deposit" /\ tx[Key(w)] = "COMPLETED"
          /\ Verdict(w) = "approved" => KindOf[Key(w)] = "withdrawal" /\ tx[Key(w)] = "COMPLETED"
          /\ Verdict(w) = "declined" => KindOf[Key(w)] = "withdrawal" /\ tx[Key(w)] = "REJECTED"
      BY <1>16 DEF Notify, Verdict
    <3>3. NoticesSettled  OBVIOUS
    <3> HIDE DEF Key
    <3>4. QED  BY <3>1, <3>2, <3>3
  <2>5. QED  BY <2>1, <2>2, <2>3, <2>4
<1>17. QED
  BY Proceed(w), <1>1, <1>2, <1>3, <1>4, <1>5, <1>6, <1>7, <1>8, <1>9, <1>10,
     <1>11, <1>12, <1>13, <1>14, <1>15, <1>16 DEF Proceed

\* As long as decisions do not race and no request breaks off, the status of a
\* withdrawal and the place of the one request that decides on it tell whether
\* its money moved.
THEOREM WalletDecisions ==
  ASSUME ~DecisionsRace, ~StepsMayFail, ~MayCrash
  PROVE  Spec => []DecisionInv
<1>1. Init => DecisionInv
  BY WalletAssumption
  DEF Init, DecisionInv, OneDecider, DecisionSteps, WithdrawalBooks, NoticesSettled,
      Decides, Debited, Busy
<1>2. TypeOK /\ TypeOK' /\ SafetyInv /\ DecisionInv /\ [Next]_vars => DecisionInv'
  <2> SUFFICES ASSUME TypeOK, TypeOK', SafetyInv, DecisionInv, [Next]_vars
               PROVE  DecisionInv'
    OBVIOUS
  <2>1. ASSUME UNCHANGED <<tx, at, job, notices, moved>>
        PROVE  DecisionInv'
    BY <2>1
    DEF DecisionInv, OneDecider, DecisionSteps, WithdrawalBooks, NoticesSettled,
        Decides, Debited, Busy, Key, Op
  <2>2. ASSUME NEW k \in Keys, InitiateDeposit(k) \/ PlaceOrder(k)
        PROVE  DecisionInv'
    BY <2>1, <2>2 DEF InitiateDeposit, PlaceOrder, ghosts
  <2>3. ASSUME NEW w \in Workers, NEW k \in Keys, Arrive(w, k)
        PROVE  DecisionInv'
    BY <2>3, ArriveDecides
  <2>4. ASSUME NEW w \in Workers, Proceed(w) \/ Fail(w) \/ Crash(w)
        PROVE  DecisionInv'
    BY <2>4, ProceedDecides DEF Fail, Crash
  <2>5. ASSUME NEW u \in Users, ExpireOrphan(u) \/ Lapse(u) \/ HoldExpires(u) \/ OpenWallet(u)
        PROVE  DecisionInv'
    BY <2>1, <2>5 DEF ExpireOrphan, Lapse, HoldExpires, OpenWallet, books, ghosts
  <2>6. CASE UNCHANGED vars
    BY <2>1, <2>6 DEF vars, books, ghosts
  <2>7. QED  BY <2>2, <2>3, <2>4, <2>5, <2>6 DEF Next
<1>3. QED  BY <1>1, <1>2, WalletTypes, WalletSafety, PTL DEF Spec

\* A withdrawal is debited at most once, and a settled one exactly if it was
\* approved.
THEOREM WithdrawalsPaidOnce ==
  ASSUME ~DecisionsRace, ~StepsMayFail, ~MayCrash
  PROVE  Spec => []WithdrawalPaidOnce
<1>1. DecisionInv => WithdrawalPaidOnce
  <2>1. ASSUME DecisionInv, NEW k \in Keys, KindOf[k] = "withdrawal"
        PROVE  /\ moved[k] <= 1
               /\ tx[k] = "COMPLETED" => moved[k] = 1
               /\ tx[k] = "REJECTED" => moved[k] = 0
    BY <2>1
    DEF DecisionInv, WithdrawalBooks, DecisionSteps, Debited
  <2>2. QED
    BY <2>1 DEF WithdrawalPaidOnce, WithdrawalDebitedOnce, RejectedUnmoved
<1>2. QED  BY <1>1, WalletDecisions, PTL

\* What the wallet announces has happened, and stays true.
THEOREM NoticesTrue ==
  ASSUME ~DecisionsRace, ~StepsMayFail, ~MayCrash
  PROVE  Spec => []NoticesAgree
<1>1. SafetyInv /\ DecisionInv /\ WithdrawalPaidOnce => NoticesAgree
  BY DEF SafetyInv, KeyedBooks, KeyedKinds, DecisionInv, NoticesSettled, WithdrawalPaidOnce,
         RejectedUnmoved, NoticesAgree
<1>2. QED  BY <1>1, WalletSafety, WalletDecisions, WithdrawalsPaidOnce, PTL

-----------------------------------------------------------------------------
(* StatementInv: what the records of a member add up to.                   *)

\* Nothing has moved yet for the key of a request in front of its balance
\* write or of its refusal.
LEMMA NotMovedYet ==
  ASSUME TypeOK, SafetyInv, DecisionInv, NEW w \in Workers, at[w] \in {"move", "reject"}
  PROVE  moved[Key(w)] = 0
<1>1. JobsFit /\ OneOwner /\ AdjustBooks  BY DEF SafetyInv
<1>2. CASE Op(w) \in KeyedKinds
  BY <1>1, <1>2 DEF OneOwner, Owns
<1>3. CASE Op(w) = "adjust"
  BY <1>1, <1>3 DEF JobsFit, AdjustBooks, Busy
<1>4. CASE Op(w) \in {"approve", "refuse"}
  <2>1. Key(w) \in Keys /\ KindOf[Key(w)] = "withdrawal"
    BY <1>1, <1>4 DEF JobsFit, Busy, KindFor, KeyedKinds, TradeKinds, TypeOK, Job, Key
  <2>2. tx[Key(w)] = "PENDING"
    BY <1>4 DEF DecisionInv, DecisionSteps
  <2>3. ~\E v \in Workers : Debited(v) /\ Key(v) = Key(w)
    BY <1>4 DEF DecisionInv, OneDecider, Debited, Decides, Busy
  <2>4. QED  BY <2>1, <2>2, <2>3 DEF DecisionInv, WithdrawalBooks
<1>5. QED
  BY <1>1, <1>2, <1>3, <1>4 DEF JobsFit, LockedOps, KeyedKinds, TradeKinds

\* A step that moves no money, keeps what is completed and leaves the requests
\* that are about to record a movement where they are keeps Recorded.
LEMMA RecordedKept ==
  ASSUME Recorded, UNCHANGED moved,
         \A k \in Keys : tx[k] = "COMPLETED" /\ moved[k] # 0 => tx'[k] = "COMPLETED",
         \A v \in Workers : Recording(v) => Recording(v)' /\ Key(v)' = Key(v)
  PROVE  Recorded'
  BY DEF Recorded

\* Movements are recorded, or about to be.
LEMMA RecordedStep ==
  ASSUME TypeOK, SafetyInv, DecisionInv, Recorded, ~StepsMayFail, ~MayCrash, [Next]_vars
  PROVE  Recorded'
<1> USE DEF books, ghosts
<1>0. JobsFit /\ DecisionSteps /\ OneOwner /\ \A w \in Workers : Key(w) \in Keys
  BY DEF SafetyInv, DecisionInv, TypeOK, Job, Key
<1>1. ASSUME UNCHANGED <<tx, at, job, moved>>
      PROVE  Recorded'
  BY <1>1, RecordedKept DEF Recording, Key, Op
<1>2. ASSUME NEW w \in Workers, ~Recording(w), UNCHANGED <<tx, moved>>,
             \A v \in Workers \ {w} : at'[v] = at[v] /\ job'[v] = job[v]
      PROVE  Recorded'
  BY <1>2, RecordedKept DEF Recording, Key, Op
<1>3. ASSUME NEW w \in Workers, NEW k \in Keys, Arrive(w, k)
      PROVE  Recorded'
  <2>1. ~Busy(w) /\ UNCHANGED <<tx, moved>>
    BY <1>3
    DEF Arrive, DeliverFirst, DeliverDuplicate, RequestWithdrawal, ApproveWithdrawal,
        RejectWithdrawal, ManualAdjustment, Start
  <2>2. \A v \in Workers \ {w} : at'[v] = at[v] /\ job'[v] = job[v]
    BY <1>3
    DEF Arrive, DeliverFirst, DeliverDuplicate, RequestWithdrawal, ApproveWithdrawal,
        RejectWithdrawal, ManualAdjustment, Start, TypeOK
  <2>3. QED  BY <1>2, <2>1, <2>2 DEF Busy, Recording
<1>4. ASSUME NEW w \in Workers, Proceed(w)
      PROVE  Recorded'
  <2>1. \A v \in Workers \ {w} : at'[v] = at[v] /\ job'[v] = job[v]
    <3> USE DEF Goto, Finish, Saw, TypeOK
    <3>1. CASE ReadTrade(w)
      <4>1. Goto(w, "release") \/ Saw(w, "create")  BY <3>1 DEF ReadTrade
      <4>2. QED  BY <4>1
    <3>2. CASE ReadAdjust(w)
      <4>1. Goto(w, "release") \/ Saw(w, "move")  BY <3>2 DEF ReadAdjust
      <4>2. QED  BY <4>1
    <3>3. QED
      BY <1>4, <3>1, <3>2
      DEF Proceed, Acquire, Contended, Release, ReadDeposit, CreatePending, CreateRequest,
          RecordAdjust, MarkCompleted, MarkRejected, CreditBalance, DebitBalance,
          DebitRefused, SetBalance, Notify
  <2>2. CASE Acquire(w) \/ Contended(w) \/ Release(w) \/ DebitRefused(w) \/ Notify(w)
    BY <1>2, <2>1, <2>2 DEF Acquire, Contended, Release, DebitRefused, Notify, Recording
  <2>3. CASE ReadDeposit(w) \/ ReadTrade(w) \/ ReadAdjust(w)
    BY <1>2, <2>1, <2>3 DEF ReadDeposit, ReadTrade, ReadAdjust, Recording
  <2>4. CASE CreatePending(w) \/ CreateRequest(w)
    <3>1. ~Recording(w) /\ UNCHANGED moved
      BY <2>4 DEF CreatePending, CreateRequest, Recording, KeyedKinds, TradeKinds
    <3>2. \A k \in Keys : tx[k] = "COMPLETED" => tx'[k] = "COMPLETED"
      BY <1>0, <2>4 DEF CreatePending, CreateRequest, DecisionSteps, TypeOK
    <3>3. QED  BY <2>1, <3>1, <3>2, RecordedKept DEF Recording, Key, Op
  <2>5. CASE RecordAdjust(w) \/ MarkCompleted(w)
    <3>1. tx' = [tx EXCEPT ![Key(w)] = "COMPLETED"] /\ UNCHANGED moved
      BY <2>5 DEF RecordAdjust, MarkCompleted
    <3>2. QED
      BY <2>1, <3>1 DEF Recorded, Recording, Key, Op, TypeOK
  <2>6. CASE MarkRejected(w)
    <3>1. moved[Key(w)] = 0 /\ UNCHANGED moved /\ ~Recording(w)
      BY <2>6, NotMovedYet DEF MarkRejected, Recording
    <3>2. \A k \in Keys \ {Key(w)} : tx'[k] = tx[k]
      BY <2>6 DEF MarkRejected, TypeOK
    <3>3. QED  BY <2>1, <3>1, <3>2, RecordedKept DEF Recording, Key, Op
  <2>7. CASE CreditBalance(w) \/ DebitBalance(w) \/ SetBalance(w)
    <3>1. UNCHANGED <<tx, job>> /\ moved' = [moved EXCEPT ![Key(w)] = @ + 1]
      BY <2>7 DEF CreditBalance, DebitBalance, SetBalance, CountMove, Goto
    <3>2. Recording(w)'
      BY <2>7 DEF CreditBalance, DebitBalance, SetBalance, Goto, Recording, Op, TypeOK
    <3>3. ~Recording(w)
      BY <2>7 DEF CreditBalance, DebitBalance, SetBalance, Recording
    <3>4. QED
      BY <2>1, <3>1, <3>2, <3>3 DEF Recorded, Recording, Key, Op, TypeOK
  <2>8. QED
    BY <1>4, <2>2, <2>3, <2>4, <2>5, <2>6, <2>7 DEF Proceed
<1>5. ASSUME NEW k \in Keys, InitiateDeposit(k) \/ PlaceOrder(k)
      PROVE  Recorded'
  BY <1>1, <1>5 DEF InitiateDeposit, PlaceOrder
<1>6. ASSUME NEW u \in Users, ExpireOrphan(u) \/ Lapse(u) \/ HoldExpires(u) \/ OpenWallet(u)
      PROVE  Recorded'
  BY <1>1, <1>6 DEF ExpireOrphan, Lapse, HoldExpires, OpenWallet
<1>7. CASE UNCHANGED vars
  BY <1>1, <1>7 DEF vars
<1>8. QED
  BY <1>3, <1>4, <1>5, <1>6, <1>7 DEF Next, Fail, Crash

\* The first movement under a key adds its amount to the ledger of its owner.
LEMMA LedgerMoved ==
  ASSUME TypeOK, LedgerAddsUp, NEW w \in Workers, CountMove(w), moved[Key(w)] = 0
  PROVE  LedgerAddsUp'
<1> DEFINE f == [k \in Keys |-> Delta(k)]
<1>0. Key(w) \in Keys /\ Owner(w) \in Users /\ \A k \in Keys : Delta(k) \in Int
  BY WalletAssumption DEF TypeOK, Job, Key, Owner, Delta
<1>1. moved'[Key(w)] # 0 /\ \A k \in Keys \ {Key(w)} : moved'[k] = moved[k]
  BY <1>0 DEF CountMove, TypeOK
<1>2. ASSUME NEW u \in Users, u # Owner(w)
      PROVE  IsFiniteSet(MovedOf(u)') /\ ledger'[u] = SumFunctionOnSet(f, MovedOf(u)')
  <2>1. MovedOf(u)' = MovedOf(u)
    BY <1>1, <1>2 DEF MovedOf, Owner
  <2>2. ledger'[u] = ledger[u]
    BY <1>0, <1>2 DEF CountMove, TypeOK
  <2>3. QED  BY <2>1, <2>2 DEF LedgerAddsUp
<1>3. ASSUME NEW u \in Users, u = Owner(w)
      PROVE  IsFiniteSet(MovedOf(u)') /\ ledger'[u] = SumFunctionOnSet(f, MovedOf(u)')
  <2>1. MovedOf(u)' = MovedOf(u) \cup {Key(w)} /\ Key(w) \notin MovedOf(u)
    BY <1>0, <1>1, <1>3 DEF MovedOf, Owner
  <2>2. ledger'[u] = ledger[u] + f[Key(w)]
    BY <1>0, <1>3 DEF CountMove, TypeOK
  <2>3. IsFiniteSet(MovedOf(u)) /\ ledger[u] = SumFunctionOnSet(f, MovedOf(u))
    BY DEF LedgerAddsUp
  <2>4. (\A x \in MovedOf(u) : f[x] \in Int) /\ f[Key(w)] \in Int
    BY <1>0 DEF MovedOf
  <2> HIDE DEF f
  <2>5. SumFunctionOnSet(f, MovedOf(u) \cup {Key(w)})
          = SumFunctionOnSet(f, MovedOf(u)) + f[Key(w)]
    BY <2>1, <2>3, <2>4, SumAdd
  <2>6. IsFiniteSet(MovedOf(u) \cup {Key(w)})
    BY <2>3, FS_AddElement
  <2>7. QED  BY <2>1, <2>2, <2>3, <2>5, <2>6
<1>4. QED  BY <1>2, <1>3 DEF LedgerAddsUp

\* The ledger of a user is the sum of the movements under the user's keys.
LEMMA LedgerStep ==
  ASSUME TypeOK, SafetyInv, DecisionInv, LedgerAddsUp, [Next]_vars
  PROVE  LedgerAddsUp'
<1> USE DEF ghosts
<1>1. ASSUME UNCHANGED ghosts
      PROVE  LedgerAddsUp'
  BY <1>1 DEF LedgerAddsUp, MovedOf
<1>2. ASSUME NEW w \in Workers, Proceed(w), ~UNCHANGED ghosts
      PROVE  LedgerAddsUp'
  <2>1. at[w] = "move" /\ CountMove(w)
    BY <1>2
    DEF Proceed, Acquire, Contended, Release, ReadDeposit, ReadTrade, ReadAdjust,
        CreatePending, CreateRequest, RecordAdjust, MarkCompleted, MarkRejected,
        CreditBalance, DebitBalance, DebitRefused, SetBalance, Notify
  <2>2. QED  BY <2>1, NotMovedYet, LedgerMoved
<1>3. ASSUME ~UNCHANGED ghosts
      PROVE  \E w \in Workers : Proceed(w)
  BY <1>3
  DEF Next, vars, InitiateDeposit, PlaceOrder, Arrive, DeliverFirst, DeliverDuplicate,
      RequestWithdrawal, ApproveWithdrawal, RejectWithdrawal, ManualAdjustment, Fail,
      Crash, ExpireOrphan, Lapse, HoldExpires, OpenWallet
<1>4. QED  BY <1>1, <1>2, <1>3

\* As long as decisions do not race and no request breaks off, every movement
\* is counted once and recorded.
THEOREM WalletStatement ==
  ASSUME ~DecisionsRace, ~StepsMayFail, ~MayCrash
  PROVE  Spec => []StatementInv
<1>1. Init => StatementInv
  <2>1. ASSUME Init, NEW u \in Users
        PROVE  IsFiniteSet(MovedOf(u)) /\ ledger[u] = SumFunctionOnSet([k \in Keys |-> Delta(k)], MovedOf(u))
    <3>1. MovedOf(u) = {} /\ ledger[u] = 0
      BY <2>1 DEF Init, MovedOf
    <3>2. QED  BY <3>1, SumEmpty, FS_EmptySet
  <2>2. QED  BY <2>1 DEF Init, StatementInv, Recorded, LedgerAddsUp
<1>2. TypeOK /\ SafetyInv /\ DecisionInv /\ StatementInv /\ [Next]_vars => StatementInv'
  BY RecordedStep, LedgerStep DEF StatementInv
<1>3. QED  BY <1>1, <1>2, WalletTypes, WalletSafety, WalletDecisions, PTL DEF Spec

\* If moreover no lock lapses under a live holder, the completed records of a
\* member with nothing in flight add up to the balance.
THEOREM StatementExplains ==
  ASSUME ~DecisionsRace, ~StepsMayFail, ~MayCrash, ~LockMayLapse
  PROVE  Spec => []HistoryExplainsBalance
<1>1. ASSUME SafetyInv, WithdrawalPaidOnce, StatusTellsMoney, StatementInv, LedgerAgrees
      PROVE  HistoryExplainsBalance
  <2> SUFFICES ASSUME NEW u \in Users, \A w \in Workers : Busy(w) => Owner(w) # u
               PROVE  balance[u] = Booked(u)
    BY DEF HistoryExplainsBalance
  <2>1. ASSUME NEW k \in Keys, OwnerOf[k] = u
        PROVE  tx[k] = "COMPLETED" <=> moved[k] # 0
    <3>1. tx[k] = "COMPLETED" => moved[k] = 1
      BY <1>1 DEF WithdrawalPaidOnce, StatusTellsMoney
    <3>2. moved[k] # 0 => tx[k] = "COMPLETED"
      BY <1>1, <2>1 DEF StatementInv, Recorded, Recording, Busy, Owner
    <3>3. QED  BY <3>1, <3>2
  <2>2. {k \in Keys : OwnerOf[k] = u /\ tx[k] = "COMPLETED"} = MovedOf(u)
    BY <2>1 DEF MovedOf
  <2>3. Booked(u) = ledger[u]
    BY <1>1, <2>2 DEF Booked, StatementInv, LedgerAddsUp
  <2>4. QED  BY <1>1, <2>3 DEF LedgerAgrees
<1>2. QED
  BY <1>1, WalletSafety, WithdrawalsPaidOnce, StatusHonest, WalletStatement, NoUpdateLost,
     PTL

-----------------------------------------------------------------------------
(* WalletPromise is kept: withdrawals are left out, as their decisions may    *)
(* race (see the findings).                                                  *)

\* Steps that leave what the callers see alone.
LEMMA FateKept ==
  ASSUME UNCHANGED <<issued, balance, moved, tx>>
  PROVE  UNCHANGED <<issued, balance, Fate>>
  BY DEF Fate

\* A new status that is not a refusal changes nothing for the callers.
LEMMA FateKeptByDocument ==
  ASSUME TypeOK, NEW k \in Keys, NEW s \in Statuses,
         moved[k] > 0 \/ (tx[k] # "REJECTED" /\ s # "REJECTED"),
         tx' = [tx EXCEPT ![k] = s], UNCHANGED <<issued, balance, moved>>
  PROVE  UNCHANGED <<issued, balance, Fate>>
  BY DEF Fate, TypeOK

\* A balance write under an open key applies the operation.
LEMMA MoveApplies ==
  ASSUME TypeOK, NEW w \in Workers, Key(w) \in issued, moved[Key(w)] = 0,
         tx[Key(w)] # "REJECTED", UNCHANGED <<issued, tx>>,
         moved' = [moved EXCEPT ![Key(w)] = @ + 1],
         balance[Owner(w)] + Delta(Key(w)) >= 0,
         balance' = [balance EXCEPT ![Owner(w)] = @ + Delta(Key(w))]
  PROVE  Promise!Apply(Key(w))
<1>1. Key(w) \in Keys  BY DEF TypeOK, Job, Key
<1>2. Promise!After(Key(w)) = balance[Owner(w)] + Delta(Key(w))
  BY DEF Promise!After, Promise!Takes, Delta, Owner
<1>3. Fate[Key(w)] = "open"  BY <1>1 DEF Fate
<1>4. Fate' = [Fate EXCEPT ![Key(w)] = "applied"]
  <2>1. moved[Key(w)] + 1 > 0 /\ moved'[Key(w)] = moved[Key(w)] + 1
    BY <1>1 DEF TypeOK
  <2>2. \A k \in Keys \ {Key(w)} : moved'[k] = moved[k]
    BY DEF TypeOK
  <2>3. QED  BY <1>1, <2>1, <2>2 DEF Fate
<1>5. QED  BY <1>2, <1>3, <1>4 DEF Promise!Apply, Owner

\* Every balance write adds the movement to the current balance.
LEMMA MoveAdds ==
  ASSUME TypeOK, SafetyInv, SeenInv, NEW w \in Workers,
         CreditBalance(w) \/ DebitBalance(w) \/ SetBalance(w)
  PROVE  /\ balance[Owner(w)] + Delta(Key(w)) >= 0
         /\ balance' = [balance EXCEPT ![Owner(w)] = @ + Delta(Key(w))]
<1>0. JobsFit /\ SolventWrites  BY DEF SafetyInv
<1>1. Owner(w) \in Users /\ Amount(w) \in Int /\ Key(w) \in Keys
  BY WalletAssumption DEF Owner, Key, Amount, TypeOK, Job
<1>2. balance[Owner(w)] \in Int /\ balance[Owner(w)] >= 0
  BY <1>0, <1>1 DEF SolventWrites, TypeOK
<1>3. CASE CreditBalance(w)
  <2>1. KindOf[Key(w)] \in {"deposit", "credit"}
    BY <1>0, <1>3 DEF CreditBalance, JobsFit, Busy, KindFor, KeyedKinds, TradeKinds
  <2>2. Delta(Key(w)) = Amount(w) /\ Amount(w) > 0
    BY <1>1, <2>1, WalletAssumption DEF Delta, Amount
  <2>3. QED  BY <1>1, <1>2, <1>3, <2>2 DEF CreditBalance
<1>4. CASE DebitBalance(w)
  <2>1. KindOf[Key(w)] \in {"deduct", "withdrawal"}
    BY <1>0, <1>4 DEF DebitBalance, JobsFit, Busy, KindFor, KeyedKinds, TradeKinds
  <2>2. Delta(Key(w)) = 0 - Amount(w)  BY <2>1 DEF Delta, Amount
  <2>3. balance[Owner(w)] - Amount(w) = balance[Owner(w)] + Delta(Key(w))
    BY <1>1, <1>2, <2>2
  <2>4. balance[Owner(w)] - Amount(w) >= 0
    BY <1>1, <1>2, <1>4 DEF DebitBalance, Covered
  <2>5. QED  BY <1>4, <2>3, <2>4 DEF DebitBalance
<1>5. CASE SetBalance(w)
  <2>1. Delta(Key(w)) = Amount(w)
    BY <1>0, <1>5
    DEF SetBalance, JobsFit, Busy, KindFor, KeyedKinds, TradeKinds, Delta, Amount
  <2>2. job[w].seen = balance[Owner(w)]  BY <1>5 DEF SetBalance, SeenInv
  <2>3. balance[Owner(w)] + Amount(w) >= 0
    BY <1>0, <1>5, <2>2 DEF SetBalance, SolventWrites
  <2>4. QED  BY <1>5, <2>1, <2>2, <2>3 DEF SetBalance
<1>6. QED  BY <1>3, <1>4, <1>5

\* Every step is one of WalletPromise or invisible to the callers.
LEMMA PromiseStep ==
  ASSUME TypeOK, SafetyInv, SeenInv, [Next]_vars,
         \A k \in Keys : KindOf[k] # "withdrawal"
  PROVE  Promise!Next \/ UNCHANGED <<issued, balance, Fate>>
<1> DEFINE Stutter == UNCHANGED <<issued, balance, Fate>>
<1> USE DEF wallet, books, ghosts
<1>0. JobsFit /\ OneOwner /\ KeyedBooks /\ AdjustBooks  BY DEF SafetyInv
<1>1. ASSUME NEW k \in Keys, k \notin issued, issued' = issued \cup {k},
             UNCHANGED <<balance, moved, tx>>
      PROVE  Promise!Next
  <2>1. UNCHANGED Fate  BY <1>1 DEF Fate
  <2>2. Promise!Ask(k)  BY <1>1, <2>1 DEF Promise!Ask
  <2>3. QED  BY <2>2 DEF Promise!Next
<1>2. ASSUME NEW k \in Keys, InitiateDeposit(k) \/ PlaceOrder(k)
      PROVE  Promise!Next
  BY <1>1, <1>2 DEF InitiateDeposit, PlaceOrder
<1>3. ASSUME NEW w \in Workers, NEW k \in Keys, Arrive(w, k)
      PROVE  Promise!Next \/ Stutter
  <2>1. CASE RequestWithdrawal(w, k) \/ ManualAdjustment(w, k)
    BY <1>1, <2>1 DEF RequestWithdrawal, ManualAdjustment
  <2>2. CASE ~(RequestWithdrawal(w, k) \/ ManualAdjustment(w, k))
    BY <1>3, <2>2, FateKept
    DEF Arrive, DeliverFirst, DeliverDuplicate, ApproveWithdrawal, RejectWithdrawal
  <2>3. QED  BY <2>1, <2>2
<1>4. ASSUME NEW w \in Workers, Proceed(w)
      PROVE  Promise!Next \/ Stutter
  <2>0. Key(w) \in Keys /\ KindOf[Key(w)] # "withdrawal"
        /\ (Busy(w) => Key(w) \in issued /\ KindOf[Key(w)] = Op(w))
    BY <1>0 DEF TypeOK, Job, Key, JobsFit, KindFor
  <2>1. CASE Acquire(w) \/ Contended(w) \/ Release(w)
    BY <2>1, FateKept DEF Acquire, Contended, Release
  <2>2. CASE ReadDeposit(w) \/ ReadTrade(w) \/ ReadAdjust(w)
    BY <2>2, FateKept DEF ReadDeposit, ReadTrade, ReadAdjust
  <2>3. CASE CreatePending(w)
    BY <2>0, <2>3, FateKept, FateKeptByDocument DEF CreatePending, Statuses
  <2>4. CASE CreateRequest(w)
    <3>1. KindOf[Key(w)] = "request"  BY <2>0, <2>4 DEF CreateRequest, Busy
    <3>2. QED  BY <2>0, <3>1, WalletAssumption DEF Kinds, KeyedKinds, TradeKinds
  <2>5. CASE RecordAdjust(w)
    <3>1. moved[Key(w)] > 0
      BY <1>0, <2>5 DEF RecordAdjust, AdjustBooks, Busy
    <3>2. tx' = [tx EXCEPT ![Key(w)] = "COMPLETED"] /\ "COMPLETED" \in Statuses
          /\ UNCHANGED <<issued, balance, moved>>
      BY <2>5 DEF RecordAdjust, Statuses
    <3>3. QED  BY <2>0, <3>1, <3>2, FateKeptByDocument
  <2>6. CASE MarkCompleted(w)
    <3>1. Owns(w)
      BY <1>0, <2>0, <2>6, WalletAssumption
      DEF MarkCompleted, Owns, JobsFit, Busy, LockedOps, Kinds, KeyedKinds,
          TradeKinds
    <3>2. moved[Key(w)] > 0  BY <1>0, <2>6, <3>1 DEF MarkCompleted, OneOwner
    <3>3. tx' = [tx EXCEPT ![Key(w)] = "COMPLETED"] /\ "COMPLETED" \in Statuses
          /\ UNCHANGED <<issued, balance, moved>>
      BY <2>6 DEF MarkCompleted, Statuses
    <3>4. QED  BY <2>0, <3>2, <3>3, FateKeptByDocument
  <2>7. CASE MarkRejected(w)
    <3>1. Op(w) = "deduct" /\ Owns(w)
      BY <1>0, <2>0, <2>7
      DEF MarkRejected, Owns, JobsFit, Busy, KeyedKinds, TradeKinds, KindFor
    <3>2. moved[Key(w)] = 0 /\ tx[Key(w)] = "PENDING"
      BY <1>0, <2>7, <3>1 DEF MarkRejected, OneOwner
    <3>3. Fate[Key(w)] = "open" /\ Fate' = [Fate EXCEPT ![Key(w)] = "refused"]
      <4>1. UNCHANGED moved /\ ~(moved[Key(w)] > 0)
        BY <2>7, <3>2 DEF MarkRejected
      <4>2. tx'[Key(w)] = "REJECTED" /\ \A k \in Keys \ {Key(w)} : tx'[k] = tx[k]
        BY <2>0, <2>7 DEF MarkRejected, TypeOK
      <4>3. QED  BY <2>0, <3>2, <4>1, <4>2 DEF Fate
    <3>4. Promise!Refuse(Key(w))
      BY <2>0, <2>7, <3>1, <3>3
      DEF MarkRejected, Promise!Refuse, Promise!Takes, Busy
    <3>5. QED  BY <2>0, <3>4 DEF Promise!Next
  <2>8. CASE CreditBalance(w) \/ DebitBalance(w) \/ SetBalance(w)
    <3>1. at[w] = "move" /\ Busy(w)
      BY <2>8 DEF CreditBalance, DebitBalance, SetBalance, Busy
    <3>2. Op(w) \in KeyedKinds \cup {"adjust"}
      BY <2>0, <3>1, WalletAssumption DEF Kinds
    <3>3. moved[Key(w)] = 0 /\ tx[Key(w)] # "REJECTED"
      BY <1>0, <2>0, <3>1, <3>2
      DEF OneOwner, AdjustBooks, Owns, KeyedKinds, TradeKinds
    <3>4. Promise!Apply(Key(w))
      BY <2>0, <2>8, <3>1, <3>3, MoveAdds, MoveApplies
      DEF CreditBalance, DebitBalance, SetBalance, CountMove
    <3>5. QED  BY <2>0, <3>4 DEF Promise!Next
  <2>9. CASE DebitRefused(w) \/ Notify(w)
    BY <2>9, FateKept DEF DebitRefused, Notify
  <2>10. QED
    BY <1>4, <2>1, <2>2, <2>3, <2>4, <2>5, <2>6, <2>7, <2>8, <2>9 DEF Proceed
<1>5. ASSUME NEW w \in Workers, Fail(w) \/ Crash(w)
      PROVE  Stutter
  BY <1>5, FateKept DEF Fail, Crash
<1>6. ASSUME NEW u \in Users, ExpireOrphan(u) \/ Lapse(u) \/ HoldExpires(u) \/ OpenWallet(u)
      PROVE  Stutter
  BY <1>6, FateKept DEF ExpireOrphan, Lapse, HoldExpires, OpenWallet
<1>7. CASE UNCHANGED vars
  BY <1>7, FateKept DEF vars
<1>8. QED  BY <1>2, <1>3, <1>4, <1>5, <1>6, <1>7 DEF Next

\* Deposits, trade legs and adjustments: whatever is delivered twice, fails or
\* crashes, callers see whole operations, each applied at most once.
THEOREM WalletKeepsPromise ==
  ASSUME ~LockMayLapse, \A k \in Keys : KindOf[k] # "withdrawal"
  PROVE  Spec => KeepsPromise
<1>1. Init => Promise!Init
  BY DEF Init, Promise!Init, Fate
<1>2. TypeOK /\ SafetyInv /\ ExclusionInv /\ [Next]_vars
        => [Promise!Next]_<<issued, balance, Fate>>
  BY PromiseStep DEF ExclusionInv
<1>3. QED
  BY <1>1, <1>2, WalletTypes, WalletSafety, WalletExclusion, PTL
  DEF Spec, KeepsPromise, Promise!Spec

=============================================================================
