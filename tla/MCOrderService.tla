--------------------------- MODULE MCOrderService ---------------------------
(***************************************************************************)
(* Instances of OrderService: one member trading one stock, where every    *)
(* hazard of the member lock shows; once it is funded the wallet can pay   *)
(* every buy, and before that none of them.                                *)
(***************************************************************************)
EXTENDS OrderInvariants

CONSTANTS buy1, buy2, buy3, sell1, sell2, dep1, alice, acme

MCSide == [o \in Orders |-> IF o \in {buy1, buy2, buy3} THEN "BUY" ELSE "SELL"]
MCMember == [k \in Calls |-> alice]
MCStock == [o \in Orders |-> acme]
MCShares == [o \in Orders |-> IF o \in {buy1, sell2} THEN 2 ELSE 1]
MCPrice == [k \in Calls |-> CASE k = dep1 -> 5 [] k = buy2 -> 2 [] OTHER -> 1]

=============================================================================
