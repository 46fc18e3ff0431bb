-------------------------- MODULE WalletRefinement --------------------------
(***************************************************************************)
(* WalletService keeps WalletPromise: an operation is applied by its       *)
(* balance write and refused by its REJECTED document.                     *)
(***************************************************************************)
EXTENDS WalletInvariants

Fate == [k \in Keys |-> IF moved[k] > 0 THEN "applied"
                        ELSE IF tx[k] = "REJECTED" THEN "refused" ELSE "open"]

Promise == INSTANCE WalletPromise WITH fate <- Fate

\* Seen from its callers, every interleaving of locked critical sections,
\* duplicate deliveries, failures and crashes is a sequence of whole
\* operations, each applied once.
KeepsPromise == Promise!Spec

=============================================================================
