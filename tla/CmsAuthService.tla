--------------------------- MODULE CmsAuthService ---------------------------
(***************************************************************************)
(* Accounts of the CMS staff in the auth-service: seeding the first        *)
(* administrator, creating and deactivating accounts, login and password   *)
(* change, behind the gateway's token check and the role guards.           *)
(*                                                                         *)
(* An account is known by its email.  Of the three roles only being an     *)
(* administrator matters to this service.  A temporary password is named   *)
(* after the request that drew it; the password of a login is the right    *)
(* one.  Tokens are not revoked: they end by themselves after 8 hours.     *)
(***************************************************************************)
EXTENDS CmsStaff, Naturals

CONSTANTS
  Workers,       \* HTTP requests, and bootstraps, in flight at one time
  StepsMayFail   \* may a call throw, or a request die half-way?

VARIABLES
  users,        \* emails with a document, whether active or not
  admins,       \* the administrators among them
  active,       \* isActive
  mustChange,   \* mustChangePassword
  password,     \* password[e]: whose hash the document of e has
  tokens,       \* emails with a token that has not expired
  mailed,       \* <<e, w>>: the password that w drew was published to e
  step,         \* step[w]: the call request w is about to make
  task          \* task[w]: its operation, caller, account and role; as history,
                \* whether an administrator went while it was disabling another

documents == <<users, admins, active, mustChange, password>>
vars == <<documents, tokens, mailed, step, task>>

-----------------------------------------------------------------------------
(* Accounts and requests.                                                  *)

Passwords == {"none", "default", "own"} \cup Workers

Task == [op : {"none", "seed", "create", "deactivate", "login", "change"},
         by : Emails, about : Emails, admin : BOOLEAN, overtaken : BOOLEAN]
NoTask == [op |-> "none", by |-> SuperAdmin, about |-> SuperAdmin,
           admin |-> FALSE, overtaken |-> FALSE]

Init ==
  /\ users = {} /\ admins = {} /\ active = {} /\ mustChange = {}
  /\ password = [e \in Emails |-> "none"]
  /\ tokens = {} /\ mailed = {}
  /\ step = [w \in Workers |-> "idle"]
  /\ task = [w \in Workers |-> NoTask]

ActiveAdmins == admins \cap active

Start(w, op, by, e, isAdmin, s) ==
  /\ step[w] = "idle"
  /\ task' = [task EXCEPT ![w] = [op |-> op, by |-> by, about |-> e,
                                  admin |-> isAdmin, overtaken |-> FALSE]]
  /\ step' = [step EXCEPT ![w] = s]

Goto(w, s) == step' = [step EXCEPT ![w] = s] /\ UNCHANGED task

Finish(w) ==
  /\ step' = [step EXCEPT ![w] = "idle"]
  /\ task' = [task EXCEPT ![w] = NoTask]

\* The gateway verifies the token; the guards of the service see only the role
\* in it, which is the role of the account at login.
Authenticated(by) == by \in tokens
Administers(by) == Authenticated(by) /\ by \in admins

-----------------------------------------------------------------------------
(* Seeding and creation.                                                   *)

\* Every bootstrap seeds if there is no administrator, active or not.
SeedSuperAdmin(w) ==
  /\ admins = {}
  /\ Start(w, "seed", SuperAdmin, SuperAdmin, TRUE, "insert")
  /\ UNCHANGED <<documents, tokens, mailed>>

CreateUser(w, by, e, isAdmin) ==
  /\ Administers(by)
  /\ e \notin users
  /\ Start(w, "create", by, e, isAdmin, "insert")
  /\ UNCHANGED <<documents, tokens, mailed>>

Document(w) ==
  LET t == task[w]
  IN  /\ users' = users \cup {t.about}
      /\ active' = active \cup {t.about}
      /\ admins' = IF t.admin THEN admins \cup {t.about} ELSE admins
      /\ mustChange' = IF t.op = "create" THEN mustChange \cup {t.about} ELSE mustChange
      /\ password' = [password EXCEPT ![t.about] = IF t.op = "create" THEN w ELSE "default"]
      /\ IF t.op = "create" THEN Goto(w, "emit") ELSE Finish(w)

\* Mutant: the email has no unique index.
InsertUnindexed(w) ==
  /\ step[w] = "insert"
  /\ Document(w)
  /\ UNCHANGED <<tokens, mailed>>

\* The email is unique: the second insert fails.
Insert(w) ==
  /\ step[w] = "insert"
  /\ IF task[w].about \in users THEN Finish(w) /\ UNCHANGED documents ELSE Document(w)
  /\ UNCHANGED <<tokens, mailed>>

EmitProvisioned(w) ==
  /\ step[w] = "emit"
  /\ mailed' = mailed \cup {<<task[w].about, w>>}
  /\ Finish(w)
  /\ UNCHANGED <<documents, tokens>>

-----------------------------------------------------------------------------
(* Deactivation.                                                           *)

DeactivateUser(w, by, e) ==
  /\ Administers(by)
  /\ e # by /\ e \in users
  /\ Start(w, "deactivate", by, e, FALSE, "count")
  /\ UNCHANGED <<documents, tokens, mailed>>

\* Mutant: deactivated administrators are counted.
CountEveryAdmin(w) ==
  /\ step[w] = "count"
  /\ IF task[w].about \in admins /\ Cardinality(admins) <= 1
     THEN Finish(w)
     ELSE Goto(w, "disable")
  /\ UNCHANGED <<documents, tokens, mailed>>

CountAdmins(w) ==
  /\ step[w] = "count"
  /\ IF task[w].about \in admins /\ Cardinality(ActiveAdmins) <= 1
     THEN Finish(w)
     ELSE Goto(w, "disable")
  /\ UNCHANGED <<documents, tokens, mailed>>

Disable(w) ==
  /\ step[w] = "disable"
  /\ active' = active \ {task[w].about}
  /\ step' = [step EXCEPT ![w] = "idle"]
  /\ task' = [v \in Workers |->
                IF v = w THEN NoTask
                ELSE IF step[v] = "disable" /\ task[w].about \in ActiveAdmins
                     THEN [task[v] EXCEPT !.overtaken = TRUE]
                ELSE task[v]]
  /\ UNCHANGED <<users, admins, mustChange, password, tokens, mailed>>

-----------------------------------------------------------------------------
(* Login and password.                                                     *)

Login(w, e) ==
  /\ e \in active
  /\ Start(w, "login", e, e, FALSE, "sign")
  /\ UNCHANGED <<documents, tokens, mailed>>

\* Nothing looks at the account again while the password is compared.
SignToken(w) ==
  /\ step[w] = "sign"
  /\ tokens' = tokens \cup {task[w].by}
  /\ Finish(w)
  /\ UNCHANGED <<documents, mailed>>

\* A token that expires says nothing of requests under way with it.
TokenExpires(e) ==
  /\ e \in tokens
  /\ tokens' = tokens \ {e}
  /\ UNCHANGED <<documents, mailed, step, task>>

ChangePassword(w, by) ==
  /\ Authenticated(by) /\ by \in users
  /\ Start(w, "change", by, by, FALSE, "save")
  /\ UNCHANGED <<documents, tokens, mailed>>

\* mongoose writes the fields that were assigned.
SavePassword(w) ==
  /\ step[w] = "save"
  /\ password' = [password EXCEPT ![task[w].by] = "own"]
  /\ mustChange' = mustChange \ {task[w].by}
  /\ Finish(w)
  /\ UNCHANGED <<users, admins, active, tokens, mailed>>

-----------------------------------------------------------------------------
(* Failures, and the whole.                                                *)

Abort(w) ==
  /\ StepsMayFail /\ step[w] # "idle"
  /\ Finish(w)
  /\ UNCHANGED <<documents, tokens, mailed>>

Arrive(w) ==
  \/ SeedSuperAdmin(w)
  \/ \E e \in Emails : Login(w, e) \/ ChangePassword(w, e)
  \/ \E by, e \in Emails : DeactivateUser(w, by, e)
  \/ \E by, e \in Emails, isAdmin \in BOOLEAN : CreateUser(w, by, e, isAdmin)

Proceed(w) ==
  \/ Insert(w) \/ EmitProvisioned(w) \/ CountAdmins(w) \/ Disable(w)
  \/ SignToken(w) \/ SavePassword(w)

Next ==
  \/ \E w \in Workers : Arrive(w) \/ Proceed(w) \/ Abort(w)
  \/ \E e \in Emails : TokenExpires(e)

Spec == Init /\ [][Next]_vars

-----------------------------------------------------------------------------
(* Properties.                                                             *)

\* Documents refer to existing accounts, and only accounts that have one hold
\* a token, draw mail, or are the subject of a request past its look-up.
TypeOK ==
  /\ users \subseteq Emails
  /\ admins \subseteq users /\ active \subseteq users /\ mustChange \subseteq users
  /\ password \in [Emails -> Passwords]
  /\ tokens \subseteq users
  /\ mailed \subseteq users \X Workers
  /\ step \in [Workers -> {"idle", "insert", "emit", "count", "disable", "sign", "save"}]
  /\ task \in [Workers -> Task]
  /\ \A w \in Workers :
       step[w] \in {"emit", "count", "disable", "sign", "save"}
         => task[w].about \in users /\ task[w].by \in users

\* The last active administrator goes only through a deactivation that another
\* one overtook between its count and its write (cms-auth.service.ts
\* deactivateUser counts, compares, and updates in three steps).
AdministratorRemains ==
  [][ActiveAdmins = {} \/ ActiveAdmins' # {}
       \/ \E w \in Workers : step[w] = "disable" /\ task[w].overtaken]_vars

\* However creations of one email interleave, a temporary password that was
\* mailed opens the account until its owner has chosen another
\* (cms-auth.service.ts createUser hashes, inserts and publishes in turn).
MailedPasswordOpens ==
  \A m \in mailed : password[m[1]] = m[2] \/ m[1] \notin mustChange
=============================================================================
