------------------------------ MODULE MCEdges -------------------------------
(***************************************************************************)
(* The two edges of the platform, which share no state: the mails it sends *)
(* and the requests it answers.  A behaviour takes the steps of one of     *)
(* them, chosen in its first state.                                        *)
(***************************************************************************)
EXTENDS MCNotificationService

CONSTANTS MaxTries, DefaultLimit, AuthLimit

VARIABLES edge, route, role, hits, phase, status, work, reply, done

Gateway == INSTANCE ApiGateway

ASSUME EdgesAssumption == Gateway!GatewayAssumption

requests == <<route, role, hits, phase, status, work, reply, done>>

MCInit ==
  /\ edge \in {"mails", "requests"}
  /\ Init /\ Gateway!Init
  /\ edge = "mails" => role = "member" /\ route = CHOOSE r \in Gateway!Routes : TRUE

MCNext ==
  \/ edge = "mails" /\ Next /\ UNCHANGED <<edge, requests>>
  \/ edge = "requests" /\ Gateway!Next /\ UNCHANGED <<edge, vars>>

\* The fairness of each (NotificationService!FairSpec, ApiGateway!FairSpec); at
\* the edge that is not chosen none of these steps is enabled.
MCSpec ==
  /\ MCInit /\ [][MCNext]_<<edge, vars, requests>>
  /\ \A w \in Workers : WF_vars(Proceed(w))
  /\ \A e \in Events : SF_vars(\E w \in Workers : Deliver(w, e))
  /\ Gateway!Fairness

\* Types of both (NotificationService, ApiGateway).
Typed == TypeOK /\ Gateway!TypeOK

\* A client may believe that it was refused (ApiGateway).
RefusalsFinal == Gateway!RefusalsFinal

\* Whatever hangs, every event is settled and every request is answered
\* (NotificationService!EventSettled, ApiGateway!EveryRequestAnswered).
EverythingServed == EventSettled /\ Gateway!EveryRequestAnswered
=============================================================================
