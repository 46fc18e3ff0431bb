-------------------------- MODULE OrderInvariants --------------------------
(***************************************************************************)
(* The strengthenings that make the share and money properties of          *)
(* OrderService inductive, and the steps under which they are.             *)
(* OrderServiceProofs proves them.                                         *)
(***************************************************************************)
EXTENDS OrderService

\* Steps at which no lock lapses under a live holder.
LockKeepingNext ==
  \/ \E o \in Orders :
       Quote(o) \/ Proceed(o) \/ Respond(o) \/ TimeOut(o) \/ Fail(o) \/ Crash(o)
  \/ \E d \in Deposits : Fund(d)
  \/ \E s \in Stocks : CacheExpires(s)
  \/ \E m \in Members : lock[m] = Orphan /\ Expire(m)

\* Steps at which, moreover, no call is left unanswered or answered wrongly
\* and no request breaks off.
CalmNext ==
  \/ \E o \in Orders :
       \/ Quote(o) \/ Proceed(o) \/ WalletRefuses(o)
       \/ WalletSettles(o) /\ net'[o] = "ok"
  \/ \E d \in Deposits : Fund(d)
  \/ \E s \in Stocks : CacheExpires(s)
  \/ \E m \in Members : lock[m] = Orphan /\ Expire(m)

-----------------------------------------------------------------------------
\* Where a sell has taken its shares and does not know the wallet's answer.
Selling == {"create", "call", "wait", "restore"}

\* Finitely many shares were counted, each where its order can be.
HistoryFits ==
  /\ IsFiniteSet(booked) /\ IsFiniteSet(taken)
  /\ \A o \in Orders :
       /\ o \in booked => at[o] \in {"execute", "announce", "release", "done"}
       /\ o \in taken => at[o] \in Selling \cup {"drop", "execute", "announce",
                                                 "release", "done"}
       /\ o \in Sells /\ at[o] \in Selling \cup {"drop"} => o \in taken

\* What was bought and not sold at place p.
Owed(p) == Shares(At(p, booked)) - Shares(At(p, taken))

\* Inductive, whatever the switches are.
BackedInv == HistoryFits /\ SharesBacked

\* The lock holds its owner's token as long as the owner works.
TokenInv == \A o \in Orders : InLock(o) => lock[MemberOf[o]] = o

\* The position a request read or wrote is still there when it acts on it.
SeenHeld ==
  \A o \in Orders :
    at[o] = "write" \/ (o \in Sells /\ at[o] \in Selling \cup {"drop"})
      => /\ seen[o] = Held(o)
         /\ o \in Sells => seen[o] # NoPosition

\* The sells at place p that are past their rollback.
Sold(p) == {o \in At(p, taken) : at[o] \notin Selling}

\* As long as nothing was sold, a position knows what its shares cost.
CostsKept ==
  \A p \in DOMAIN pos : pos[p] # NoPosition /\ Sold(p) = {} =>
    /\ pos[p].invested = Costs(At(p, booked))
    /\ pos[p].avg[1] * Shares(At(p, booked)) = pos[p].avg[2] * pos[p].invested

\* Inductive as long as no lock lapses under a live holder.
ShareInv == TokenInv /\ SeenHeld /\ SharesAgree /\ CostsKept

\* What each step of a request finds of its order document, its wallet call and
\* its shares.
StepsFit ==
  \A o \in Orders :
    /\ at[o] \in {"idle", "lock", "take", "create", "call"}
         => net[o] = "none" /\ fate[o] = "open"
    /\ at[o] = "wait" => /\ net[o] # "none"
                         /\ net[o] = "asked" => fate[o] = "open"
                         /\ net[o] = "error" => fate[o] # "applied"
    /\ at[o] # "wait" => net[o] # "asked"
    /\ at[o] \in {"restore", "reject"} => fate[o] # "applied"
    /\ at[o] \in {"execute", "announce"} => o \in booked \cup taken
    /\ at[o] = "announce" => status[o] = "EXECUTED"
    /\ at[o] \notin {"announce", "release", "done"} => status[o] # "EXECUTED"
    /\ at[o] \in {"release", "done"} =>
         /\ fate[o] = "applied" <=> status[o] = "EXECUTED"
         /\ o \in booked \cup taken <=> status[o] = "EXECUTED"

=============================================================================
