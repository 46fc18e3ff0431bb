--------------------------- MODULE AccountService ---------------------------
(***************************************************************************)
(* Member accounts of the auth-service: registration, one-time codes, the  *)
(* password flows they open and sessions, one step per awaited call.  The  *)
(* password itself is left out: a login is one with the right password.    *)
(*                                                                         *)
(* A form is one set of personal data; the account it leads to is known by *)
(* the form.  A code stands for one OTP of a user and purpose: the chance  *)
(* that two of them draw the same six digits, or are stored in another     *)
(* order than they were made in, is left out.                              *)
(***************************************************************************)
EXTENDS Sequences, SequencesExt

CONSTANTS
  Forms,         \* personal data people register with
  EmailOf,       \* EmailOf[f], IdOf[f]: email and national id on a form
  IdOf,
  CodesFor,      \* CodesFor[p]: codes sent for purpose p; bounds the OTPs alive
  NoCode,
  Workers,       \* HTTP requests in flight at one time
  StepsMayFail   \* may a database call throw, or a request die half-way?

ASSUME AccountAssumption ==
  /\ Forms # {} /\ DOMAIN CodesFor = {"verification", "reset"}
  /\ DOMAIN EmailOf = Forms /\ DOMAIN IdOf = Forms
  /\ \A p \in DOMAIN CodesFor : NoCode \notin CodesFor[p]
  /\ StepsMayFail \in BOOLEAN

VARIABLES
  account,   \* account[f]: "none", "pending" or "active"
  otps,      \* otps[<<f, p>>]: OTP documents of the last 15 minutes, oldest first
  session,   \* accounts with a stored refresh token hash
  at,        \* at[w]: the call request w is about to make
  job,       \* job[w]: its operation, form and code; and, as history, whether
             \* that code was spent or superseded when the request arrived, and
             \* whether sessions were revoked since it loaded the account
  ended      \* history: accounts revoked, with no login or late grant since

vars == <<account, otps, session, at, job, ended>>
sessions == <<session, ended>>

-----------------------------------------------------------------------------
(* Documents and requests.                                                 *)

Purposes == {"verification", "reset"}

Boxes == Forms \X Purposes
Codes == UNION {CodesFor[p] : p \in Purposes}

\* "fresh" for 10 minutes, then "expired"; after 15 minutes no query accepts it.
Otp == [code : Codes, used : BOOLEAN, age : {"fresh", "expired"}]

Points == {"idle", "insert", "invalidate", "issue", "check", "use", "confirm",
           "activate", "save", "revoke", "grant"}
Ops == {"register", "resend", "verify", "set", "forgot", "reset",
        "login", "refresh", "logout"}
Job == [op : Ops, form : Forms, code : Codes \cup {NoCode},
        stale : BOOLEAN, late : BOOLEAN]
NoJob == [op |-> "register", form |-> CHOOSE f \in Forms : TRUE, code |-> NoCode,
          stale |-> FALSE, late |-> FALSE]

Busy(w) == at[w] # "idle"
Purpose(op) == IF op \in {"forgot", "reset"} THEN "reset" ELSE "verification"
\* The documents that request w reads and writes.
Box(w) == <<job[w].form, Purpose(job[w].op)>>

Init ==
  /\ account = [f \in Forms |-> "none"]
  /\ otps = [b \in Boxes |-> <<>>]
  /\ session = {} /\ ended = {}
  /\ at = [w \in Workers |-> "idle"]
  /\ job = [w \in Workers |-> NoJob]

\* A code is stale in a box if it was used there or a newer one exists.
Stale(box, c) ==
  \E i \in DOMAIN box : box[i].code = c /\ (box[i].used \/ i < Len(box))

\* The box with every OTP whose code is in S marked used.
MarkUsed(box, S) ==
  [i \in DOMAIN box |-> [box[i] EXCEPT !.used = @ \/ box[i].code \in S]]

Start(w, op, f, c, p) ==
  /\ ~Busy(w)
  /\ job' = [job EXCEPT ![w] = [op |-> op, form |-> f, code |-> c, late |-> FALSE,
                                stale |-> Stale(otps[<<f, Purpose(op)>>], c)]]
  /\ at' = [at EXCEPT ![w] = p]

Goto(w, p) == at' = [at EXCEPT ![w] = p] /\ UNCHANGED job

Finish(w) ==
  /\ at' = [at EXCEPT ![w] = "idle"]
  /\ job' = [job EXCEPT ![w] = NoJob]

-----------------------------------------------------------------------------
(* Registration.                                                           *)

\* Accounts that a form collides with.
Rivals(f) ==
  {g \in Forms : account[g] # "none" /\ (EmailOf[g] = EmailOf[f] \/ IdOf[g] = IdOf[f])}

\* findOne by email or national id found nobody.
Register(w, f) ==
  /\ Rivals(f) = {}
  /\ Start(w, "register", f, NoCode, "insert")
  /\ UNCHANGED <<account, otps, sessions>>

\* Mutant: the schema has no unique indexes.
CreateUnindexed(w) ==
  /\ at[w] = "insert"
  /\ account' = [account EXCEPT ![job[w].form] = "pending"]
  /\ Goto(w, "invalidate")
  /\ UNCHANGED <<otps, sessions>>

\* The insert, where email and national id are unique.
CreateUser(w) ==
  /\ at[w] = "insert"
  /\ IF Rivals(job[w].form) = {}
     THEN account' = [account EXCEPT ![job[w].form] = "pending"] /\ Goto(w, "invalidate")
     ELSE UNCHANGED account /\ Finish(w)
  /\ UNCHANGED <<otps, sessions>>

-----------------------------------------------------------------------------
(* One-time codes.                                                         *)

ResendOtp(w, f) ==
  /\ account[f] = "pending"
  /\ Start(w, "resend", f, NoCode, "invalidate")
  /\ UNCHANGED <<account, otps, sessions>>

ForgotPassword(w, f) ==
  /\ account[f] # "none"
  /\ Start(w, "forgot", f, NoCode, "invalidate")
  /\ UNCHANGED <<account, otps, sessions>>

\* createAndSend: first every unused OTP of the user and purpose is marked
\* used, ...
Invalidate(w) ==
  /\ at[w] = "invalidate"
  /\ otps' = [otps EXCEPT ![Box(w)] = MarkUsed(@, Codes)]
  /\ Goto(w, "issue")
  /\ UNCHANGED <<account, sessions>>

\* Codes that a document or a request of box b still holds.
Taken(b) ==
  {otps[b][i].code : i \in DOMAIN otps[b]} \cup {job[v].code : v \in {u \in Workers : Box(u) = b}}

\* ... then a new one with code c is stored and sent.
Store(w, c) ==
  /\ at[w] = "issue"
  /\ otps' = [otps EXCEPT ![Box(w)] = Append(@, [code |-> c, used |-> FALSE, age |-> "fresh"])]
  /\ Finish(w)
  /\ UNCHANGED <<account, sessions>>

\* Mutant: a code may be drawn again while it is alive.
IssueAgain(w, c) == c \in CodesFor[Purpose(job[w].op)] /\ Store(w, c)

Issue(w, c) == c \in CodesFor[Purpose(job[w].op)] \ Taken(Box(w)) /\ Store(w, c)

VerifyOtp(w, f, c) ==
  /\ account[f] # "none"
  /\ Start(w, "verify", f, c, "check")
  /\ UNCHANGED <<account, otps, sessions>>

ResetPassword(w, f, c) ==
  /\ account[f] # "none"
  /\ Start(w, "reset", f, c, "check")
  /\ UNCHANGED <<account, otps, sessions>>

\* Mutant: the OTP is looked up by its code.
AcceptedByCode(w) ==
  \E i \in DOMAIN otps[Box(w)] :
    LET otp == otps[Box(w)][i]
    IN  ~otp.used /\ otp.age = "fresh" /\ otp.code = job[w].code

\* validate looks at the newest OTP of the user and purpose only.
Accepted(w) ==
  /\ otps[Box(w)] # <<>>
  /\ LET otp == Last(otps[Box(w)])
     IN  ~otp.used /\ otp.age = "fresh" /\ otp.code = job[w].code

CheckOtp(w) ==
  /\ at[w] = "check"
  /\ IF Accepted(w) THEN Goto(w, "use") ELSE Finish(w)
  /\ UNCHANGED <<account, otps, sessions>>

\* Save the OTP as used; a reset goes on to the password.
UseOtp(w) ==
  /\ at[w] = "use"
  /\ otps' = [otps EXCEPT ![Box(w)] = MarkUsed(@, {job[w].code})]
  /\ IF job[w].op = "reset" THEN Goto(w, "save") ELSE Finish(w)
  /\ UNCHANGED <<account, sessions>>

-----------------------------------------------------------------------------
(* Setting the first password.                                             *)

SetPassword(w, f, c) ==
  /\ account[f] # "none"
  /\ Start(w, "set", f, c, "confirm")
  /\ UNCHANGED <<account, otps, sessions>>

\* wasVerified: the code is marked used and not older than 15 minutes, whether
\* it was verified or superseded.
WasVerified(w) ==
  \E i \in DOMAIN otps[Box(w)] : otps[Box(w)][i].used /\ otps[Box(w)][i].code = job[w].code

Confirm(w) ==
  /\ at[w] = "confirm"
  /\ IF WasVerified(w) THEN Goto(w, "activate") ELSE Finish(w)
  /\ UNCHANGED <<account, otps, sessions>>

Activate(w) ==
  /\ at[w] = "activate"
  /\ account' = [account EXCEPT ![job[w].form] = "active"]
  /\ Finish(w)
  /\ UNCHANGED <<otps, sessions>>

-----------------------------------------------------------------------------
(* Sessions.                                                               *)

\* Only a verified email and the right password get this far; the account is
\* loaded here and its tokens are stored later.
Login(w, f) ==
  /\ account[f] = "active"
  /\ Start(w, "login", f, NoCode, "grant")
  /\ ended' = ended \ {f}
  /\ UNCHANGED <<account, otps, session>>

\* A stored hash is all that is asked for: bcrypt compares 72 bytes, and these
\* are the same in every token of an account.
Refresh(w, f) ==
  /\ f \in session
  /\ Start(w, "refresh", f, NoCode, "grant")
  /\ UNCHANGED <<account, otps, sessions>>

Logout(w, f) ==
  /\ account[f] = "active"
  /\ Start(w, "logout", f, NoCode, "revoke")
  /\ UNCHANGED <<account, otps, sessions>>

\* issueTokenPair overwrites the stored hash.
IssueTokenPair(w) ==
  /\ at[w] = "grant"
  /\ session' = session \cup {job[w].form}
  /\ ended' = IF job[w].late THEN ended \ {job[w].form} ELSE ended
  /\ Finish(w)
  /\ UNCHANGED <<account, otps>>

\* A reset saves the new password, and then revokes.
SavePassword(w) ==
  /\ at[w] = "save"
  /\ Goto(w, "revoke")
  /\ UNCHANGED <<account, otps, sessions>>

\* History: the requests that loaded account f before are late now.
Revoked(w, f) ==
  /\ ended' = ended \cup {f}
  /\ at' = [at EXCEPT ![w] = "idle"]
  /\ job' = [v \in Workers |->
               IF v = w THEN NoJob
               ELSE IF at[v] = "grant" /\ job[v].form = f THEN [job[v] EXCEPT !.late = TRUE]
               ELSE job[v]]

\* Mutant: the update names no user.
RevokeNothing(w) ==
  /\ at[w] = "revoke"
  /\ Revoked(w, job[w].form)
  /\ UNCHANGED <<account, otps, session>>

RevokeRefreshToken(w) ==
  /\ at[w] = "revoke"
  /\ session' = session \ {job[w].form}
  /\ Revoked(w, job[w].form)
  /\ UNCHANGED <<account, otps>>

-----------------------------------------------------------------------------
(* The passage of time, failures, and the whole.                           *)

\* OTPs of a box expire in the order they were made, and are forgotten so.
Expire(b) ==
  /\ \E i \in DOMAIN otps[b] :
       /\ otps[b][i].age = "fresh" /\ \A j \in 1 .. i - 1 : otps[b][j].age = "expired"
       /\ otps' = [otps EXCEPT ![b] = [@ EXCEPT ![i].age = "expired"]]
  /\ UNCHANGED <<account, at, job, sessions>>

Forget(b) ==
  /\ otps[b] # <<>> /\ Head(otps[b]).age = "expired"
  /\ otps' = [otps EXCEPT ![b] = Tail(@)]
  /\ UNCHANGED <<account, at, job, sessions>>

\* A database call throws, or the process dies: the request ends where it is.
Abort(w) ==
  /\ StepsMayFail /\ Busy(w)
  /\ Finish(w)
  /\ UNCHANGED <<account, otps, sessions>>

Arrive(w) ==
  \E f \in Forms :
    \/ Register(w, f) \/ ResendOtp(w, f) \/ ForgotPassword(w, f)
    \/ Login(w, f) \/ Refresh(w, f) \/ Logout(w, f)
    \/ \E c \in CodesFor["verification"] : VerifyOtp(w, f, c) \/ SetPassword(w, f, c)
    \/ \E c \in CodesFor["reset"] : ResetPassword(w, f, c)

Step(w) ==
  \/ CreateUser(w) \/ Invalidate(w) \/ CheckOtp(w) \/ UseOtp(w) \/ Confirm(w) \/ Activate(w)
  \/ IssueTokenPair(w) \/ SavePassword(w) \/ RevokeRefreshToken(w)
  \/ \E c \in Codes : Issue(w, c)

Next ==
  \/ \E w \in Workers : Arrive(w) \/ Step(w) \/ Abort(w)
  \/ \E b \in Boxes : Expire(b) \/ Forget(b)

Spec == Init /\ [][Next]_vars

-----------------------------------------------------------------------------
(* Properties.                                                             *)

\* A request is where its operation can be, only requests that carry a code
\* look one up, and the codes of the OTPs of a user and purpose differ.
PointsOf(op) ==
  CASE op = "register" -> {"insert", "invalidate", "issue"}
    [] op \in {"resend", "forgot"} -> {"invalidate", "issue"}
    [] op = "verify" -> {"check", "use"}
    [] op = "reset" -> {"check", "use", "save", "revoke"}
    [] op = "set" -> {"confirm", "activate"}
    [] op \in {"login", "refresh"} -> {"grant"}
    [] op = "logout" -> {"revoke"}

Distinct(box) == \A i, j \in DOMAIN box : box[i].code = box[j].code => i = j

TypeOK ==
  /\ account \in [Forms -> {"none", "pending", "active"}]
  /\ otps \in [Boxes -> Seq(Otp)]
  /\ session \subseteq Forms /\ ended \subseteq Forms
  /\ at \in [Workers -> Points] /\ job \in [Workers -> Job]
  /\ \A w \in Workers : Busy(w) => at[w] \in PointsOf(job[w].op)
  /\ \A b \in Boxes : Distinct(otps[b])

\* However registrations interleave, no two accounts share an email or a
\* national id (auth-service.service.ts register reads before it inserts).
OneAccount ==
  \A f, g \in Forms :
    account[f] # "none" /\ account[g] # "none" /\ f # g
      => EmailOf[f] # EmailOf[g] /\ IdOf[f] # IdOf[g]

\* A code that was spent, or superseded by a newer one, when a verification or
\* reset arrived is refused, even where two resends left two unused OTPs
\* (otp.service.ts createAndSend, validate).
StaleCodeRefused == \A w \in Workers : at[w] = "use" => ~job[w].stale

\* A logout or password reset ends the session for good: until the next login,
\* only a login or refresh that had loaded the account before the revocation
\* can store a token after it (token.service.ts; each of them writes long
\* after it reads).
RevocationHolds == session \cap ended = {}
=============================================================================
