------------------------------ MODULE CmsStaff ------------------------------
(***************************************************************************)
(* The people who work with the CMS, each known by an email.               *)
(***************************************************************************)
EXTENDS FiniteSets

CONSTANTS
  Emails,        \* emails of the staff
  SuperAdmin     \* the email of CMS_SUPER_ADMIN_EMAIL

ASSUME CmsAssumption == IsFiniteSet(Emails) /\ SuperAdmin \in Emails
=============================================================================
