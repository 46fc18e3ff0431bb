-------------------------- MODULE MCMemberService --------------------------
(***************************************************************************)
(* Instances of MemberService.  One member is enough: no two members share *)
(* a document, a cache entry or an event.                                  *)
(***************************************************************************)
EXTENDS MemberService

CONSTANTS alice

=============================================================================
