------------------------------ MODULE MCOrders ------------------------------
(***************************************************************************)
(* One member's orders in two settings, chosen in the first state.  In the *)
(* calm one the member lock does not lapse, calls and steps succeed and    *)
(* nothing dies; otherwise all of that may happen.  Each has orders of its *)
(* own; those of the other are over before it begins.                      *)
(***************************************************************************)
EXTENDS MCOrderService

CONSTANTS
  CalmOrders,    \* the orders placed in the calm setting
  TroubledOrders \* those placed in the other one

VARIABLE calm

Ideal == INSTANCE OrderService
           WITH LockMayLapse <- FALSE, CallsMayFail <- FALSE,
                StepsMayFail <- FALSE, MayCrash <- FALSE

Placed == IF calm THEN CalmOrders ELSE TroubledOrders

MCInit ==
  /\ calm \in BOOLEAN
  /\ cached = {} /\ priced = {} /\ traded = {}
  /\ lock = [m \in Members |-> Free]
  /\ at = [o \in Orders |-> IF o \in Placed THEN "idle" ELSE "done"]
  /\ seen = [o \in Orders |-> NoPosition]
  /\ status = [o \in Orders |-> "none"]
  /\ pos = [p \in Members \X Stocks |-> NoPosition]
  /\ net = [o \in Orders |-> "none"]
  /\ Wallet!Init
  /\ booked = {} /\ taken = {}

MCNext == UNCHANGED calm /\ IF calm THEN Ideal!Next ELSE Next

\* Requests keep running and the wallet answers what it was asked.
CalmStep ==
  /\ calm /\ UNCHANGED calm
  /\ \E o \in Orders : Ideal!Proceed(o) \/ Ideal!Respond(o)

MCSpec == MCInit /\ [][MCNext]_<<vars, calm>> /\ WF_<<vars, calm>>(CalmStep)

\* No share is lost while the lock does its work (OrderService!SharesAgree).
CalmSharesAgree == calm => SharesAgree

\* Orders and wallet tell one story once a request is over
\* (OrderService!BooksAgree).
CalmBooksAgree == calm => BooksAgree

\* As long as nothing was sold the average is what the shares cost
\* (OrderService!AverageOfBuys).
CalmAverage == calm => AverageOfBuys

\* No order stays PENDING: time and again each is executed or rejected.
OrderSettled == []<>(calm => \A o \in Orders : status[o] # "PENDING")
=============================================================================
