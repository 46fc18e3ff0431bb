--------------------------- MODULE WalletPromise ---------------------------
(***************************************************************************)
(* What the wallet-service promises its callers, without locks, documents  *)
(* or retries: an operation that was asked for is applied to the balance   *)
(* at most once and in one piece, or refused, and never overdraws.         *)
(***************************************************************************)
EXTENDS Integers

CONSTANTS Users, Keys, KindOf, OwnerOf, AmountOf

VARIABLES
  issued,   \* operations asked for
  balance,  \* wallet balances
  fate      \* what became of each operation

Takes(k) == KindOf[k] \in {"deduct", "withdrawal"}

After(k) == balance[OwnerOf[k]] + (IF Takes(k) THEN 0 - AmountOf[k] ELSE AmountOf[k])

Init ==
  /\ issued = {}
  /\ balance = [u \in Users |-> 0]
  /\ fate = [k \in Keys |-> "open"]

Ask(k) ==
  /\ k \notin issued
  /\ issued' = issued \cup {k}
  /\ UNCHANGED <<balance, fate>>

Apply(k) ==
  /\ k \in issued
  /\ fate[k] = "open"
  /\ After(k) >= 0
  /\ balance' = [balance EXCEPT ![OwnerOf[k]] = After(k)]
  /\ fate' = [fate EXCEPT ![k] = "applied"]
  /\ UNCHANGED issued

Refuse(k) ==
  /\ k \in issued
  /\ fate[k] = "open"
  /\ Takes(k)
  /\ fate' = [fate EXCEPT ![k] = "refused"]
  /\ UNCHANGED <<issued, balance>>

Next == \E k \in Keys : Ask(k) \/ Apply(k) \/ Refuse(k)

Spec == Init /\ [][Next]_<<issued, balance, fate>>

=============================================================================
