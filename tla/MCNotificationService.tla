----------------------- MODULE MCNotificationService -----------------------
(***************************************************************************)
(* Instances of NotificationService.  Both events have the same key, as    *)
(* two price alerts of one member with the same ticker and target do; the  *)
(* template of one of them throws.                                         *)
(***************************************************************************)
EXTENDS NotificationService

CONSTANTS alert1, alert2, alertKey

MCKey == [e \in Events |-> alertKey]

=============================================================================
