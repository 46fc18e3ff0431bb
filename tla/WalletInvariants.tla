--------------------------- MODULE WalletInvariants ---------------------------
(***************************************************************************)
(* The strengthenings that make the safety properties of WalletService     *)
(* inductive.  MCWalletService checks them on the small instances and      *)
(* WalletServiceProofs proves them.                                        *)
(***************************************************************************)
EXTENDS WalletService

\* What kind of key each operation works on.
KindFor(op) == IF op \in KeyedKinds \cup {"adjust"} THEN op ELSE "withdrawal"

\* A request is only where its operation goes, and works on an issued key of
\* its kind.
JobsFit ==
  \A w \in Workers :
    /\ at[w] = "lock" => Op(w) \in LockedOps
    /\ at[w] = "read" => Op(w) \in LockedOps \ {"approve"}
    /\ at[w] = "create" => Op(w) \in (LockedOps \ {"approve"}) \cup {"request"}
    /\ at[w] = "move" => Op(w) \in LockedOps
    /\ at[w] = "mark" => Op(w) \in LockedOps \ {"adjust"}
    /\ at[w] = "reject" => Op(w) \in {"deduct", "approve", "refuse"}
    /\ Busy(w) => KindOf[Key(w)] = KindFor(Op(w)) /\ Key(w) \in issued

\* Only an issued key has a document.
DocsIssued == \A k \in Keys : tx[k] # "none" => k \in issued

\* Past the insert of its PENDING document and before the final status.
Owns(w) == Op(w) \in KeyedKinds /\ at[w] \in {"move", "mark", "reject"}

\* The unique index makes the request that inserted the document its only
\* owner; the document is PENDING and says truly whether the money moved.
OneOwner ==
  \A w \in Workers : Owns(w) =>
    /\ tx[Key(w)] = "PENDING"
    /\ moved[Key(w)] = IF at[w] = "mark" THEN 1 ELSE 0
    /\ \A v \in Workers : Owns(v) /\ Key(v) = Key(w) => v = w

\* Deposits and trade legs: no document, no movement; at most one movement;
\* a settled document tells which.
KeyedBooks ==
  \A k \in Keys : KindOf[k] \in KeyedKinds =>
    /\ tx[k] = "none" => moved[k] = 0
    /\ tx[k] = "COMPLETED" => moved[k] = 1
    /\ tx[k] = "REJECTED" => moved[k] = 0
    /\ moved[k] <= 1

\* Adjustments: the key belongs to one request, which moves money once and
\* then records it.
AdjustBooks ==
  /\ \A k \in Keys : KindOf[k] = "adjust" =>
       /\ moved[k] <= 1
       /\ k \notin issued => moved[k] = 0
       /\ tx[k] # "none" => tx[k] = "COMPLETED" /\ moved[k] = 1
  /\ \A w \in Workers : Busy(w) /\ Op(w) = "adjust" =>
       /\ at[w] \in {"lock", "read", "move"} => moved[Key(w)] = 0
       /\ at[w] = "create" => moved[Key(w)] = 1
       /\ \A v \in Workers :
            Busy(v) /\ Op(v) = "adjust" /\ Key(v) = Key(w) => v = w

\* Balances are not negative, nor is the one an adjustment is about to write.
SolventWrites ==
  /\ \A u \in Users : balance[u] >= 0
  /\ \A w \in Workers : at[w] = "move" /\ Op(w) = "adjust"
                          => job[w].seen + Amount(w) >= 0

\* Inductive, whatever the switches are.
SafetyInv ==
  /\ JobsFit
  /\ DocsIssued
  /\ OneOwner
  /\ KeyedBooks
  /\ AdjustBooks
  /\ SolventWrites

\* The lock holds its owner's token as long as the owner works.
TokenInv == \A w \in Workers : InLock(w) => lock[Owner(w)] = w

\* The balance an adjustment read is still the balance.
SeenInv ==
  \A w \in Workers : at[w] = "move" /\ Op(w) = "adjust"
                       => job[w].seen = balance[Owner(w)]

\* Inductive as long as no lock lapses under a live holder.
ExclusionInv == TokenInv /\ SeenInv /\ LedgerAgrees

\* A request that asks for a withdrawal, or decides on one.
Decides(w) == Busy(w) /\ Op(w) \in {"request", "approve", "refuse"}

\* The support agents take withdrawals one at a time.
OneDecider ==
  \A v, w \in Workers : Decides(v) /\ Decides(w) /\ Key(v) = Key(w) => v = w

\* Request w has debited a withdrawal and not marked it yet.
Debited(w) == at[w] = "mark" /\ Op(w) = "approve"

\* Where a request on a withdrawal is tells the status it finds.
DecisionSteps ==
  \A w \in Workers :
    /\ at[w] = "create" /\ Op(w) = "request" => tx[Key(w)] = "none"
    /\ at[w] \in {"lock", "move", "mark", "reject"} /\ Op(w) \in {"approve", "refuse"}
         => tx[Key(w)] = "PENDING"
    /\ at[w] = "notify" => /\ Op(w) \in {"deposit", "request", "approve"}
                           /\ Op(w) # "request" => tx[Key(w)] = "COMPLETED"
    /\ at[w] = "decline" => /\ Op(w) \in {"approve", "refuse"}
                            /\ tx[Key(w)] = "REJECTED"

\* The status of a withdrawal tells whether it was debited; while it is
\* PENDING, the place of the request that approves it does.
WithdrawalBooks ==
  \A k \in Keys : KindOf[k] = "withdrawal" =>
    moved[k] = IF \/ tx[k] = "COMPLETED"
                  \/ \E w \in Workers : Debited(w) /\ Key(w) = k
               THEN 1 ELSE 0

\* What was announced is settled.
NoticesSettled ==
  \A k \in Keys :
    /\ <<k, "credited">> \in notices => KindOf[k] = "deposit" /\ tx[k] = "COMPLETED"
    /\ <<k, "approved">> \in notices => KindOf[k] = "withdrawal" /\ tx[k] = "COMPLETED"
    /\ <<k, "declined">> \in notices => KindOf[k] = "withdrawal" /\ tx[k] = "REJECTED"

\* Inductive as long as decisions do not race and no request breaks off.
DecisionInv == OneDecider /\ DecisionSteps /\ WithdrawalBooks /\ NoticesSettled

\* Request w has moved money and is about to record it.
Recording(w) == at[w] = "mark" \/ (at[w] = "create" /\ Op(w) = "adjust")

\* Money that moved is recorded, or about to be.
Recorded ==
  \A k \in Keys : moved[k] # 0 /\ tx[k] # "COMPLETED" =>
    \E w \in Workers : Recording(w) /\ Key(w) = k

\* The keys of user u whose money moved.
MovedOf(u) == {k \in Keys : OwnerOf[k] = u /\ moved[k] # 0}

\* They are finitely many, and the ledger is their sum.
LedgerAddsUp ==
  \A u \in Users :
    /\ IsFiniteSet(MovedOf(u))
    /\ ledger[u] = SumFunctionOnSet([k \in Keys |-> Delta(k)], MovedOf(u))

\* Inductive where both of the above are.
StatementInv == Recorded /\ LedgerAddsUp

=============================================================================
