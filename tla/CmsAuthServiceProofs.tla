------------------------ MODULE CmsAuthServiceProofs ------------------------
(***************************************************************************)
(* A mailed temporary password opens its account, and the last             *)
(* administrator is lost only to overlapping deactivations, for any number *)
(* of accounts and requests in flight.                                     *)
(***************************************************************************)
EXTENDS CmsAuthService, FiniteSetTheorems, TLAPS

\* A password that is mailed, or about to be, is the one of its account until
\* the owner changes it.
MailInv ==
  /\ MailedPasswordOpens
  /\ \A w \in Workers :
       step[w] = "emit"
         => password[task[w].about] = w \/ task[w].about \notin mustChange

\* A deactivation that was not overtaken leaves another administrator.
AdminInv ==
  \A w \in Workers :
    step[w] = "disable" /\ ~task[w].overtaken /\ task[w].about \in ActiveAdmins
      => ActiveAdmins \ {task[w].about} # {}

\* Who creates an account has one.
CreatorInv ==
  \A w \in Workers : step[w] = "insert" /\ task[w].op = "create" => task[w].by \in users

\* The inductive invariant.
StaffInv == TypeOK /\ CreatorInv /\ MailInv /\ AdminInv

\* Where a request refers to an account that exists.
Past == {"emit", "count", "disable", "sign", "save"}

-----------------------------------------------------------------------------
(* Requests that come and go.                                              *)

\* By a request that arrives, goes on or ends while the documents stay, if it
\* is not about to mail, and counted another administrator when it is about to
\* disable one.
LEMMA RequestSafe ==
  ASSUME StaffInv, NEW w \in Workers, UNCHANGED <<documents, mailed>>,
         tokens' \subseteq users,
         step' = [step EXCEPT ![w] = step'[w]], task' = [task EXCEPT ![w] = task'[w]],
         step'[w] \in {"idle", "insert", "count", "disable", "sign", "save"},
         task'[w] \in Task,
         step'[w] \in Past => task'[w].about \in users /\ task'[w].by \in users,
         step'[w] = "insert" /\ task'[w].op = "create" => task'[w].by \in users,
         step'[w] = "disable" /\ task'[w].about \in ActiveAdmins
           => ActiveAdmins \ {task'[w].about} # {}
  PROVE  StaffInv'
<1> USE DEF StaffInv
<1>1. \A v \in Workers \ {w} : step'[v] = step[v] /\ task'[v] = task[v]
  BY DEF TypeOK
<1>2. TypeOK'
  <2>1. /\ step' \in [Workers -> {"idle", "insert", "emit", "count", "disable", "sign", "save"}]
        /\ task' \in [Workers -> Task]
    BY DEF TypeOK
  <2>2. \A v \in Workers :
          step'[v] \in Past => task'[v].about \in users /\ task'[v].by \in users
    BY <1>1 DEF TypeOK, Past
  <2> QED
    BY <2>1, <2>2 DEF TypeOK, documents, Past
<1>3. MailInv'
  BY <1>1 DEF MailInv, MailedPasswordOpens, documents
<1>4. AdminInv'
  BY <1>1 DEF AdminInv, ActiveAdmins, documents
<1>5. CreatorInv'
  BY <1>1 DEF CreatorInv, documents
<1> QED
  BY <1>2, <1>3, <1>4, <1>5

\* A request of an operation that has passed its checks keeps the invariant.
LEMMA StartSafe ==
  ASSUME StaffInv, NEW w \in Workers, NEW op \in {"seed", "create", "deactivate", "login", "change"},
         NEW by \in Emails, NEW e \in Emails, NEW isAdmin \in BOOLEAN,
         NEW s \in {"insert", "count", "sign", "save"},
         s # "insert" => by \in users /\ e \in users,
         op = "create" => by \in users,
         Start(w, op, by, e, isAdmin, s), UNCHANGED <<documents, tokens, mailed>>
  PROVE  StaffInv'
<1> DEFINE new == [op |-> op, by |-> by, about |-> e, admin |-> isAdmin, overtaken |-> FALSE]
<1>1. new \in Task /\ new.by = by /\ new.about = e /\ new.op = op
  BY DEF Task
<1> HIDE DEF new
<1>2. task' = [task EXCEPT ![w] = new] /\ step' = [step EXCEPT ![w] = s]
  BY DEF Start, new
<1>3. task'[w] = new /\ step'[w] = s
  BY <1>2 DEF StaffInv, TypeOK
<1>4. tokens' \subseteq users
  BY DEF StaffInv, TypeOK
<1> QED
  BY <1>1, <1>2, <1>3, <1>4, RequestSafe DEF Past

\* A request that ends, whatever tokens it leaves, keeps the invariant.
LEMMA FinishSafe ==
  ASSUME StaffInv, NEW w \in Workers, Finish(w), UNCHANGED <<documents, mailed>>, tokens' \subseteq users
  PROVE  StaffInv'
<1>1. NoTask \in Task
  BY CmsAssumption DEF NoTask, Task
<1>2. task'[w] = NoTask /\ step'[w] = "idle"
  BY DEF Finish, StaffInv, TypeOK
<1> QED
  BY <1>1, <1>2, RequestSafe DEF Finish, Past

\* A request that arrives keeps the invariant.
LEMMA ArriveSafe ==
  ASSUME StaffInv, NEW w \in Workers, Arrive(w)
  PROVE  StaffInv'
<1>1. active \subseteq users /\ admins \subseteq users /\ tokens \subseteq users
  BY DEF StaffInv, TypeOK
<1>2. CASE SeedSuperAdmin(w)
  BY <1>2, CmsAssumption, StartSafe DEF SeedSuperAdmin
<1>3. ASSUME NEW e \in Emails, Login(w, e) PROVE StaffInv'
  BY <1>1, <1>3, StartSafe DEF Login
<1>4. ASSUME NEW e \in Emails, ChangePassword(w, e) PROVE StaffInv'
  BY <1>1, <1>4, StartSafe DEF ChangePassword
<1>5. ASSUME NEW by \in Emails, NEW e \in Emails, DeactivateUser(w, by, e) PROVE StaffInv'
  BY <1>1, <1>5, StartSafe DEF DeactivateUser, Administers, Authenticated
<1>6. ASSUME NEW by \in Emails, NEW e \in Emails, NEW isAdmin \in BOOLEAN,
             CreateUser(w, by, e, isAdmin)
      PROVE  StaffInv'
  BY <1>1, <1>6, StartSafe DEF CreateUser, Administers, Authenticated
<1> QED
  BY <1>2, <1>3, <1>4, <1>5, <1>6 DEF Arrive

-----------------------------------------------------------------------------
(* Steps of a request.                                                     *)

\* A new document is of an email that no mail, request or administrator had.
LEMMA InsertSafe ==
  ASSUME StaffInv, NEW w \in Workers, Insert(w)
  PROVE  StaffInv'
<1> USE DEF StaffInv
<1> DEFINE e == task[w].about
<1>1. task[w] \in Task /\ e \in Emails
  BY DEF TypeOK, Task
<1>2. CASE e \in users
  BY <1>2, FinishSafe DEF Insert, TypeOK
<1>3. CASE e \notin users
  <2>1. /\ users' = users \cup {e} /\ active' = active \cup {e}
        /\ admins' = IF task[w].admin THEN admins \cup {e} ELSE admins
        /\ UNCHANGED <<tokens, mailed>>
        /\ \A v \in Workers \ {w} : step'[v] = step[v] /\ task'[v] = task[v]
    BY <1>3 DEF Insert, Document, Goto, Finish, TypeOK
  <2>2. ActiveAdmins \subseteq ActiveAdmins'
    BY <2>1 DEF ActiveAdmins
  <2>3. \A d \in users : d \in ActiveAdmins' => d \in ActiveAdmins
    BY <1>3, <2>1 DEF ActiveAdmins
  <2>4. AdminInv'
    <3>1. \A v \in Workers \ {w} : step[v] = "disable" => task[v].about \in users
      BY DEF TypeOK
    <3>2. step'[w] # "disable"
      BY <1>3 DEF Insert, Document, Goto, Finish, TypeOK
    <3> QED
      BY <2>1, <2>2, <2>3, <3>1, <3>2 DEF AdminInv
  <2>5. \A v \in Workers \ {w} : step[v] = "emit" => task[v].about \in users
    BY DEF TypeOK
  <2>6. \A m \in mailed : m[1] \in users
    BY DEF TypeOK
  <2>7. \A v \in Workers \ {w} : step[v] \in Past => task[v].about \in users /\ task[v].by \in users
    BY DEF TypeOK, Past
  <2>8. CASE task[w].op = "create"
    <3>1. /\ mustChange' = mustChange \cup {e} /\ password' = [password EXCEPT ![e] = w]
          /\ step' = [step EXCEPT ![w] = "emit"] /\ task' = task
      BY <1>3, <2>8 DEF Insert, Document, Goto
    <3>2. step[w] = "insert" /\ task[w].by \in users
      BY <2>8 DEF Insert, CreatorInv
    <3>3. \A d \in users : password'[d] = password[d] /\ (d \in mustChange' <=> d \in mustChange)
      BY <1>3, <3>1 DEF TypeOK
    <3>4. password'[e] = w /\ step'[w] = "emit"
      BY <1>1, <3>1 DEF TypeOK
    <3>5. MailInv'
      BY <2>1, <2>5, <2>6, <3>1, <3>3, <3>4 DEF MailInv, MailedPasswordOpens
    <3>6. \A v \in Workers : step'[v] \in Past => task'[v].about \in users' /\ task'[v].by \in users'
      BY <2>1, <2>7, <3>1, <3>2
    <3>7. TypeOK'
      <4>1. password' \in [Emails -> Passwords]
        BY <1>1, <3>1 DEF TypeOK, Passwords
      <4>2. step' \in [Workers -> {"idle", "insert", "emit", "count", "disable", "sign", "save"}]
        BY <3>1 DEF TypeOK
      <4> QED
        BY <1>1, <2>1, <3>1, <3>6, <4>1, <4>2 DEF TypeOK, Past
    <3>8. CreatorInv'
      BY <2>1, <3>1, <3>4 DEF CreatorInv
    <3> QED
      BY <2>4, <3>5, <3>7, <3>8
  <2>9. CASE task[w].op # "create"
    <3>1. /\ mustChange' = mustChange /\ password' = [password EXCEPT ![e] = "default"]
          /\ step' = [step EXCEPT ![w] = "idle"] /\ task' = [task EXCEPT ![w] = NoTask]
      BY <1>3, <2>9 DEF Insert, Document, Finish
    <3>2. step'[w] = "idle" /\ NoTask \in Task
      BY <3>1, CmsAssumption DEF TypeOK, NoTask, Task
    <3>3. \A d \in users : password'[d] = password[d]
      BY <1>3, <3>1 DEF TypeOK
    <3>5. MailInv'
      BY <2>1, <2>5, <2>6, <3>1, <3>2, <3>3 DEF MailInv, MailedPasswordOpens
    <3>6. \A v \in Workers : step'[v] \in Past => task'[v].about \in users' /\ task'[v].by \in users'
      BY <2>1, <2>7, <3>2 DEF Past
    <3>7. TypeOK'
      <4>1. password' \in [Emails -> Passwords]
        BY <1>1, <3>1 DEF TypeOK, Passwords
      <4>2. /\ step' \in [Workers -> {"idle", "insert", "emit", "count", "disable", "sign", "save"}]
            /\ task' \in [Workers -> Task]
        BY <3>1, <3>2 DEF TypeOK
      <4> QED
        BY <1>1, <2>1, <3>1, <3>6, <4>1, <4>2 DEF TypeOK, Past
    <3>8. CreatorInv'
      BY <2>1, <3>2 DEF CreatorInv
    <3> QED
      BY <2>4, <3>5, <3>7, <3>8
  <2> QED
    BY <2>8, <2>9
<1> QED
  BY <1>2, <1>3

\* The mail goes out while the password is still the account's.
LEMMA EmitSafe ==
  ASSUME StaffInv, NEW w \in Workers, EmitProvisioned(w)
  PROVE  StaffInv'
<1> USE DEF StaffInv
<1> DEFINE e == task[w].about
<1>1. /\ step[w] = "emit" /\ mailed' = mailed \cup {<<e, w>>}
      /\ step' = [step EXCEPT ![w] = "idle"] /\ task' = [task EXCEPT ![w] = NoTask]
      /\ UNCHANGED <<documents, tokens>>
  BY DEF EmitProvisioned, Finish
<1>2. e \in users /\ NoTask \in Task
  BY <1>1, CmsAssumption DEF TypeOK, NoTask, Task
<1>3. /\ step'[w] = "idle"
      /\ \A v \in Workers \ {w} : step'[v] = step[v] /\ task'[v] = task[v]
  BY <1>1 DEF TypeOK
<1>4. TypeOK'
  <2>1. /\ step' \in [Workers -> {"idle", "insert", "emit", "count", "disable", "sign", "save"}]
        /\ task' \in [Workers -> Task] /\ mailed' \subseteq users \X Workers
    BY <1>1, <1>2 DEF TypeOK
  <2>2. \A v \in Workers :
          step'[v] \in Past => task'[v].about \in users /\ task'[v].by \in users
    BY <1>3 DEF TypeOK, Past
  <2> QED
    BY <1>1, <2>1, <2>2 DEF TypeOK, documents, Past
<1>5. MailInv'
  <2>1. password[e] = w \/ e \notin mustChange
    BY <1>1 DEF MailInv
  <2>2. MailedPasswordOpens'
    BY <1>1, <2>1 DEF MailInv, MailedPasswordOpens, documents
  <2> QED
    BY <1>1, <1>3, <2>2 DEF MailInv, documents
<1>6. AdminInv' /\ CreatorInv'
  BY <1>1, <1>3 DEF AdminInv, CreatorInv, ActiveAdmins, documents
<1> QED
  BY <1>4, <1>5, <1>6

\* Who counts more than one active administrator leaves one.
LEMMA CountSafe ==
  ASSUME StaffInv, NEW w \in Workers, CountAdmins(w)
  PROVE  StaffInv'
<1> DEFINE e == task[w].about
<1>1. UNCHANGED <<documents, tokens, mailed>> /\ tokens \subseteq users /\ step[w] = "count"
  BY DEF CountAdmins, StaffInv, TypeOK
<1>2. CASE Finish(w)
  BY <1>1, <1>2, FinishSafe
<1>3. CASE Goto(w, "disable") /\ ~(e \in admins /\ Cardinality(ActiveAdmins) <= 1)
  <2>1. step'[w] = "disable" /\ task' = task /\ step' = [step EXCEPT ![w] = "disable"]
    BY <1>3 DEF Goto, StaffInv, TypeOK
  <2>2. task[w] \in Task /\ e \in users /\ task[w].by \in users
    BY <1>1 DEF StaffInv, TypeOK
  <2>3. ASSUME e \in ActiveAdmins
        PROVE  ActiveAdmins \ {e} # {}
    <3>1. SUFFICES ASSUME ActiveAdmins = {e} PROVE FALSE
      BY <2>3
    <3>2. Cardinality({e}) = 1
      BY FS_Singleton
    <3> QED
      BY <1>3, <2>3, <3>1, <3>2 DEF ActiveAdmins
  <2>4. task' = [task EXCEPT ![w] = task'[w]] /\ task'[w] = task[w]
    BY <2>1 DEF StaffInv, TypeOK
  <2> QED
    BY <1>1, <2>1, <2>2, <2>3, <2>4, RequestSafe DEF Past
<1> QED
  BY <1>2, <1>3 DEF CountAdmins

\* Disabling an administrator overtakes the other deactivations.
LEMMA DisableSafe ==
  ASSUME StaffInv, NEW w \in Workers, Disable(w)
  PROVE  StaffInv'
<1> USE DEF StaffInv
<1> DEFINE e == task[w].about
           New(v) == IF v = w THEN NoTask
                     ELSE IF step[v] = "disable" /\ e \in ActiveAdmins
                          THEN [task[v] EXCEPT !.overtaken = TRUE]
                     ELSE task[v]
<1>1. /\ step[w] = "disable" /\ active' = active \ {e} /\ task' = [v \in Workers |-> New(v)]
      /\ step' = [step EXCEPT ![w] = "idle"]
      /\ UNCHANGED <<users, admins, mustChange, password, tokens, mailed>>
  BY DEF Disable
<1>2. NoTask \in Task
  BY CmsAssumption DEF NoTask, Task
<1>3. ASSUME NEW v \in Workers \ {w}
      PROVE  /\ New(v) \in Task /\ New(v).about = task[v].about /\ New(v).by = task[v].by
             /\ New(v).op = task[v].op
             /\ step[v] = "disable" /\ e \in ActiveAdmins => New(v).overtaken
             /\ ~(step[v] = "disable" /\ e \in ActiveAdmins) => New(v) = task[v]
  <2>1. task[v] \in Task
    BY DEF TypeOK
  <2> QED
    BY <1>3, <2>1 DEF Task
<1>4. New(w) \in Task
  BY <1>2
<1> HIDE DEF New
<1>5. /\ step'[w] = "idle" /\ \A v \in Workers \ {w} : step'[v] = step[v] /\ task'[v] = New(v)
  BY <1>1 DEF TypeOK
<1>6. TypeOK'
  <2>1. /\ step' \in [Workers -> {"idle", "insert", "emit", "count", "disable", "sign", "save"}]
        /\ task' \in [Workers -> Task]
    BY <1>1, <1>3, <1>4 DEF TypeOK
  <2>2. \A v \in Workers :
          step'[v] \in Past => task'[v].about \in users /\ task'[v].by \in users
    BY <1>3, <1>5 DEF TypeOK, Past
  <2> QED
    BY <1>1, <2>1, <2>2 DEF TypeOK, Past
<1>7. MailInv'
  BY <1>1, <1>3, <1>5 DEF MailInv, MailedPasswordOpens
<1>8. CreatorInv'
  BY <1>1, <1>3, <1>5 DEF CreatorInv
<1>9. AdminInv'
  <2>1. CASE e \in ActiveAdmins
    BY <1>3, <1>5, <2>1 DEF AdminInv
  <2>2. CASE e \notin ActiveAdmins
    <3>1. ActiveAdmins' = ActiveAdmins
      BY <1>1, <2>2 DEF ActiveAdmins
    <3> QED
      BY <1>3, <1>5, <2>2, <3>1 DEF AdminInv
  <2> QED
    BY <2>1, <2>2
<1> QED
  BY <1>6, <1>7, <1>8, <1>9

\* A changed password needs no mail.
LEMMA SaveSafe ==
  ASSUME StaffInv, NEW w \in Workers, SavePassword(w)
  PROVE  StaffInv'
<1> USE DEF StaffInv
<1> DEFINE e == task[w].by
<1>1. /\ step[w] = "save" /\ password' = [password EXCEPT ![e] = "own"]
      /\ mustChange' = mustChange \ {e}
      /\ step' = [step EXCEPT ![w] = "idle"] /\ task' = [task EXCEPT ![w] = NoTask]
      /\ UNCHANGED <<users, admins, active, tokens, mailed>>
  BY DEF SavePassword, Finish
<1>2. NoTask \in Task
  BY CmsAssumption DEF NoTask, Task
<1>3. /\ step'[w] = "idle"
      /\ \A v \in Workers \ {w} : step'[v] = step[v] /\ task'[v] = task[v]
  BY <1>1 DEF TypeOK
<1>4. \A d : d \in mustChange' => d \in mustChange /\ d # e
  BY <1>1
<1>5. TypeOK'
  <2>1. /\ step' \in [Workers -> {"idle", "insert", "emit", "count", "disable", "sign", "save"}]
        /\ task' \in [Workers -> Task] /\ password' \in [Emails -> Passwords]
    BY <1>1, <1>2 DEF TypeOK, Passwords
  <2>2. \A v \in Workers :
          step'[v] \in Past => task'[v].about \in users /\ task'[v].by \in users
    BY <1>3 DEF TypeOK, Past
  <2> QED
    BY <1>1, <1>4, <2>1, <2>2 DEF TypeOK, Past
<1>6. \A d \in Emails : d # e => password'[d] = password[d]
  BY <1>1 DEF TypeOK
<1>7. MailInv'
  <2>1. \A m \in mailed : m[1] \in Emails
    BY DEF TypeOK
  <2>2. \A v \in Workers : task[v].about \in Emails
    BY DEF TypeOK, Task
  <2> QED
    BY <1>1, <1>3, <1>4, <1>6, <2>1, <2>2 DEF MailInv, MailedPasswordOpens
<1>8. AdminInv' /\ CreatorInv'
  BY <1>1, <1>3 DEF AdminInv, CreatorInv, ActiveAdmins
<1> QED
  BY <1>5, <1>7, <1>8

\* By a login that ends, a token that expires and a request that breaks off.
LEMMA EndSafe ==
  ASSUME StaffInv, NEW w \in Workers, SignToken(w) \/ Abort(w)
  PROVE  StaffInv'
<1>1. Finish(w) /\ UNCHANGED <<documents, mailed>>
  BY DEF SignToken, Abort
<1>2. tokens' \subseteq users
  <2>1. tokens \subseteq users /\ (step[w] = "sign" => task[w].by \in users)
    BY DEF StaffInv, TypeOK
  <2> QED
    BY <2>1 DEF SignToken, Abort
<1> QED
  BY <1>1, <1>2, FinishSafe

-----------------------------------------------------------------------------
(* The theorems.                                                           *)

\* The first states satisfy the invariant.
LEMMA StaffInit == Init => StaffInv
<1> SUFFICES ASSUME Init PROVE StaffInv
  OBVIOUS
<1>1. NoTask \in Task
  BY CmsAssumption DEF NoTask, Task
<1>2. step = [w \in Workers |-> "idle"] /\ \A w \in Workers : step[w] = "idle"
  BY DEF Init
<1>3. TypeOK
  BY <1>1, <1>2 DEF Init, TypeOK, Passwords
<1> QED
  BY <1>2, <1>3 DEF Init, StaffInv, CreatorInv, MailInv, MailedPasswordOpens, AdminInv

\* Every step keeps the invariant.
LEMMA StaffStep == StaffInv /\ [Next]_vars => StaffInv'
<1> SUFFICES ASSUME StaffInv, [Next]_vars PROVE StaffInv'
  OBVIOUS
<1>1. ASSUME NEW w \in Workers, Arrive(w) \/ Proceed(w) \/ Abort(w) PROVE StaffInv'
  BY <1>1, ArriveSafe, InsertSafe, EmitSafe, CountSafe, DisableSafe, SaveSafe, EndSafe DEF Proceed
<1>2. ASSUME NEW e \in Emails, TokenExpires(e) PROVE StaffInv'
  BY <1>2 DEF TokenExpires, StaffInv, TypeOK, CreatorInv, MailInv, MailedPasswordOpens,
              AdminInv, ActiveAdmins, documents
<1>3. CASE UNCHANGED vars
  BY <1>3 DEF vars, StaffInv, TypeOK, CreatorInv, MailInv, MailedPasswordOpens,
              AdminInv, ActiveAdmins, documents
<1> QED
  BY <1>1, <1>2, <1>3 DEF Next

\* Documents, tokens, mails and requests refer to accounts that exist.
THEOREM StaffTyping == Spec => []TypeOK
<1>1. StaffInv => TypeOK
  BY DEF StaffInv
<1> QED
  BY StaffInit, StaffStep, <1>1, PTL DEF Spec

\* However creations of one email interleave, a temporary password that was
\* mailed opens the account until its owner changes it (createUser).
THEOREM MailedPasswordsOpen == Spec => []MailedPasswordOpens
<1>1. StaffInv => MailedPasswordOpens
  BY DEF StaffInv, MailInv
<1> QED
  BY StaffInit, StaffStep, <1>1, PTL DEF Spec

\* Only a deactivation that was overtaken after its count takes the last active
\* administrator away.
LEMMA OvertakenOnly ==
  ASSUME StaffInv, [Next]_vars, ActiveAdmins # {}, ActiveAdmins' = {}
  PROVE  \E w \in Workers : step[w] = "disable" /\ task[w].overtaken
<1>1. ~(admins \subseteq admins' /\ active \subseteq active')
  BY DEF ActiveAdmins
<1>2. PICK w \in Workers : Disable(w)
  BY <1>1 DEF Next, Arrive, Proceed, SeedSuperAdmin, CreateUser, DeactivateUser, Login,
              ChangePassword, Insert, Document, EmitProvisioned, CountAdmins, SignToken,
              SavePassword, TokenExpires, Abort, documents, vars
<1>3. ActiveAdmins' = ActiveAdmins \ {task[w].about} /\ step[w] = "disable"
  BY <1>2 DEF Disable, ActiveAdmins
<1>4. task[w].about \in ActiveAdmins /\ ActiveAdmins \ {task[w].about} = {}
  BY <1>3
<1> QED
  BY <1>3, <1>4 DEF StaffInv, AdminInv

\* The last active administrator is disabled only by a deactivation that another
\* one overtook after its count (deactivateUser).
THEOREM AdministratorsRemain == Spec => AdministratorRemains
<1>1. StaffInv /\ [Next]_vars
        => [\/ ActiveAdmins = {} \/ ActiveAdmins' # {}
            \/ \E w \in Workers : step[w] = "disable" /\ task[w].overtaken]_vars
  BY OvertakenOnly
<1> QED
  BY StaffInit, StaffStep, <1>1, PTL DEF Spec, AdministratorRemains
=============================================================================
