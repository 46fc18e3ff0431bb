-------------------------- MODULE MCWalletService --------------------------
(***************************************************************************)
(* Instances of WalletService.  Amounts are chosen so that each debit is   *)
(* covered by some subsets of the credits and not by others.               *)
(***************************************************************************)
EXTENDS WalletRefinement

\* The keys name the operation: MCKind reads it off the first component.
CONSTANTS dep1, dep2, buy1, sell1, wd1, adj1, alice, bob

\* dep2 and buy1 leave exactly nothing; wd1 needs the larger deposit.
MCKind ==
  [k \in Keys |->
     CASE k \in {dep1, dep2} -> "deposit"
       [] k = buy1 -> "deduct"
       [] k = sell1 -> "credit"
       [] k = wd1 -> "withdrawal"
       [] OTHER -> "adjust"]

MCAmount ==
  [k \in Keys |->
     CASE k = dep1 -> 2
       [] k = dep2 -> 1
       [] k = buy1 -> 1
       [] k = sell1 -> 1
       [] k = wd1 -> 1
       [] OTHER -> 0 - 1]

AliceOnly == [k \in Keys |-> alice]
TwoOwners == [k \in Keys |-> IF k = dep2 THEN bob ELSE alice]

=============================================================================
