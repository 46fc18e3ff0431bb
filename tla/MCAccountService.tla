-------------------------- MODULE MCAccountService --------------------------
(***************************************************************************)
(* Instances of the two account services of the auth-service: two people   *)
(* whose forms name one email but not one national id, and the staff of    *)
(* the CMS.  The two share no state, so a behaviour moves only the one in  *)
(* focus: what holds of each alone holds of both together.                 *)
(***************************************************************************)
EXTENDS AccountService, CmsStaff, Naturals

CONSTANTS alice, bob, code1, code2, code3, id1, id2, mail, root, eve

VARIABLES users, admins, active, mustChange, password, tokens, mailed, step, task

Staff == INSTANCE CmsAuthService
staff == <<users, admins, active, mustChange, password, tokens, mailed, step, task>>

MCEmailOf == [f \in {alice, bob} |-> mail]
MCIdOf == [f \in {alice, bob} |-> IF f = alice THEN id1 ELSE id2]
MCCodesFor ==
  [p \in {"verification", "reset"} |->
     IF p = "verification" THEN {code1, code2} ELSE {code3}]

VARIABLE focus

MCInit == focus \in {"members", "staff"} /\ Init /\ Staff!Init

MCNext ==
  /\ UNCHANGED focus
  /\ \/ focus = "members" /\ Next /\ UNCHANGED staff
     \/ focus = "staff" /\ Staff!Next /\ UNCHANGED vars

MCSpec == MCInit /\ [][MCNext]_<<vars, staff, focus>>

\* The type invariants of both.
Typed == TypeOK /\ Staff!TypeOK

\* The last active administrator is not lost unless deactivations overtake.
AdministratorRemains == Staff!AdministratorRemains

\* The mailed temporary password is the one of the account.
MailedPasswordOpens == Staff!MailedPasswordOpens
=============================================================================
