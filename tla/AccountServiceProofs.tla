------------------------ MODULE AccountServiceProofs ------------------------
(***************************************************************************)
(* Accounts stay distinct, stale codes stay refused and revoked sessions   *)
(* stay ended, for any number of forms, codes and requests in flight; and  *)
(* with the staff of the CMS beside them (MCAccountService), mailed        *)
(* passwords open and an administrator remains.                            *)
(***************************************************************************)
EXTENDS MCAccountService, TLAPS

\* A code that was stale in a box is not accepted there any more.
Refused(box, c) ==
  \A i \in DOMAIN box : box[i].code = c => box[i].used \/ i < Len(box)

\* While its code is being checked, a stale request stays stale.
StaleKept ==
  \A w \in Workers : at[w] = "check" /\ job[w].stale => Refused(otps[Box(w)], job[w].code)

\* The account that a password is being set for exists.
SetExists == \A w \in Workers : at[w] \in {"confirm", "activate"} => account[job[w].form] # "none"

\* TypeOK without sessions, which no other document depends on.
DocsOK ==
  /\ account \in [Forms -> {"none", "pending", "active"}]
  /\ otps \in [Boxes -> Seq(Otp)]
  /\ at \in [Workers -> Points] /\ job \in [Workers -> Job]
  /\ \A w \in Workers : Busy(w) => at[w] \in PointsOf(job[w].op)
  /\ \A b \in Boxes : Distinct(otps[b])

\* The inductive invariant of accounts and codes.
AccountInv == DocsOK /\ OneAccount /\ StaleKept /\ StaleCodeRefused /\ SetExists

\* That of sessions: a token that is about to be stored for an account revoked
\* since belongs to a request that had loaded the account before.
SessionInv ==
  /\ session \subseteq Forms /\ ended \subseteq Forms /\ RevocationHolds
  /\ \A w \in Workers : at[w] = "grant" /\ job[w].form \in ended => job[w].late

-----------------------------------------------------------------------------
(* Boxes of one-time codes.                                                *)

\* Marking OTPs used changes nothing else of a box.
LEMMA MarkUsedKeeps ==
  ASSUME NEW box \in Seq(Otp), NEW S
  PROVE  /\ MarkUsed(box, S) \in Seq(Otp)
         /\ Len(MarkUsed(box, S)) = Len(box) /\ DOMAIN MarkUsed(box, S) = DOMAIN box
         /\ \A i \in DOMAIN box :
              /\ MarkUsed(box, S)[i].code = box[i].code
              /\ box[i].used => MarkUsed(box, S)[i].used
<1> DEFINE New(i) == [box[i] EXCEPT !.used = @ \/ box[i].code \in S]
<1>1. ASSUME NEW i \in 1 .. Len(box)
      PROVE  New(i) \in Otp /\ New(i).code = box[i].code /\ (box[i].used => New(i).used)
  <2>1. box[i] \in Otp
    OBVIOUS
  <2> HIDE DEF New
  <2> QED
    BY <2>1 DEF Otp, New
<1>2. DOMAIN box = 1 .. Len(box) /\ Len(box) \in Nat
  OBVIOUS
<1>3. MarkUsed(box, S) = [i \in 1 .. Len(box) |-> New(i)]
  BY <1>2 DEF MarkUsed
<1> HIDE DEF New
<1>4. MarkUsed(box, S) \in [1 .. Len(box) -> Otp]
  BY <1>1, <1>3
<1>5. MarkUsed(box, S) \in Seq(Otp) /\ Len(MarkUsed(box, S)) = Len(box)
  BY <1>2, <1>4
<1> QED
  BY <1>1, <1>2, <1>3, <1>5

\* So it leaves codes distinct and stale codes refused.
LEMMA MarkUsedSafe ==
  ASSUME NEW box \in Seq(Otp), NEW S
  PROVE  /\ Distinct(box) => Distinct(MarkUsed(box, S))
         /\ \A c : Refused(box, c) => Refused(MarkUsed(box, S), c)
BY MarkUsedKeeps DEF Distinct, Refused

\* A newer OTP does too, if its code is a new one.
LEMMA AppendSafe ==
  ASSUME NEW box \in Seq(Otp), NEW c \in Codes, Distinct(box),
         c \notin {box[i].code : i \in DOMAIN box}
  PROVE  LET new == Append(box, [code |-> c, used |-> FALSE, age |-> "fresh"])
         IN  /\ new \in Seq(Otp) /\ Distinct(new)
             /\ \A d : d # c /\ Refused(box, d) => Refused(new, d)
<1> DEFINE otp == [code |-> c, used |-> FALSE, age |-> "fresh"]
           new == Append(box, otp)
<1>1. otp \in Otp /\ otp.code = c
  BY DEF Otp
<1> HIDE DEF otp
<1>2. /\ new \in Seq(Otp) /\ Len(new) = Len(box) + 1 /\ Len(box) \in Nat
      /\ DOMAIN box = 1 .. Len(box) /\ DOMAIN new = 1 .. Len(box) + 1
      /\ \A i \in DOMAIN box : new[i] = box[i]
      /\ new[Len(box) + 1] = otp
  BY <1>1
<1> HIDE DEF new
<1>3. Distinct(new)
  BY <1>1, <1>2 DEF Distinct
<1>4. ASSUME NEW d, d # c, Refused(box, d)
      PROVE  Refused(new, d)
  BY <1>1, <1>2, <1>4 DEF Refused
<1> QED
  BY <1>2, <1>3, <1>4 DEF new, otp

\* So do expiry and forgetting.
LEMMA ExpireSafe ==
  ASSUME NEW box \in Seq(Otp), NEW k \in DOMAIN box, Distinct(box)
  PROVE  LET new == [box EXCEPT ![k].age = "expired"]
         IN  new \in Seq(Otp) /\ Distinct(new) /\ \A c : Refused(box, c) => Refused(new, c)
<1> DEFINE old == [box[k] EXCEPT !.age = "expired"]
           new == [box EXCEPT ![k] = old]
<1>1. box[k] \in Otp
  OBVIOUS
<1>2. old \in Otp /\ old.code = box[k].code /\ old.used = box[k].used
  BY <1>1 DEF Otp
<1> HIDE DEF old
<1>3. DOMAIN box = 1 .. Len(box) /\ Len(box) \in Nat
  OBVIOUS
<1>4. new \in [1 .. Len(box) -> Otp]
  BY <1>2, <1>3
<1>5. /\ new \in Seq(Otp) /\ Len(new) = Len(box) /\ DOMAIN new = DOMAIN box
      /\ \A i \in DOMAIN box : new[i].code = box[i].code /\ new[i].used = box[i].used
  BY <1>2, <1>3, <1>4
<1> HIDE DEF new
<1>6. Distinct(new) /\ \A c : Refused(box, c) => Refused(new, c)
  BY <1>5 DEF Distinct, Refused
<1> QED
  BY <1>5, <1>6 DEF new, old

\* A box from which its oldest code is dropped refuses what it refused before.
LEMMA ForgetSafe ==
  ASSUME NEW box \in Seq(Otp), box # <<>>, Distinct(box)
  PROVE  /\ Tail(box) \in Seq(Otp) /\ Distinct(Tail(box))
         /\ \A c : Refused(box, c) => Refused(Tail(box), c)
<1>1. /\ Tail(box) \in Seq(Otp) /\ Len(box) \in Nat \ {0} /\ DOMAIN box = 1 .. Len(box)
      /\ Len(Tail(box)) = Len(box) - 1 /\ DOMAIN Tail(box) = 1 .. Len(box) - 1
      /\ \A i \in 1 .. Len(box) - 1 : Tail(box)[i] = box[i + 1]
  OBVIOUS
<1>2. Distinct(Tail(box))
  BY <1>1 DEF Distinct
<1>3. ASSUME NEW c, Refused(box, c)
      PROVE  Refused(Tail(box), c)
  <2>1. ASSUME NEW i \in 1 .. Len(box) - 1, box[i + 1].code = c
        PROVE  box[i + 1].used \/ i + 1 < Len(box)
    BY <1>1, <1>3, <2>1 DEF Refused
  <2> QED
    BY <1>1, <2>1 DEF Refused
<1> QED
  BY <1>1, <1>2, <1>3

\* A stale code is refused if codes are distinct, and a refused one is not
\* accepted.
LEMMA StaleRefused ==
  ASSUME NEW box, NEW c, Distinct(box), Stale(box, c)
  PROVE  Refused(box, c)
BY DEF Distinct, Stale, Refused

\* A code that its box refuses is not accepted.
LEMMA RefusedNotAccepted ==
  ASSUME DocsOK, NEW w \in Workers, Box(w) \in Boxes, Refused(otps[Box(w)], job[w].code)
  PROVE  ~Accepted(w)
<1> DEFINE box == otps[Box(w)]
<1>1. box \in Seq(Otp)
  BY DEF DocsOK
<1>2. CASE box # <<>>
  <2>1. Len(box) \in DOMAIN box /\ Len(box) \in Nat /\ Last(box) = box[Len(box)]
    BY <1>1, <1>2 DEF Last
  <2>2. box[Len(box)].code = job[w].code => box[Len(box)].used
    BY <2>1 DEF Refused
  <2> QED
    BY <2>1, <2>2 DEF Accepted
<1> QED
  BY <1>2 DEF Accepted

-----------------------------------------------------------------------------
(* Requests in flight.                                                     *)

\* Where a request depends on documents that others write.
Looking == {"check", "use", "confirm", "activate"}

\* The part of DocsOK about requests.
SlotsOK ==
  /\ at \in [Workers -> Points] /\ job \in [Workers -> Job]
  /\ \A w \in Workers : Busy(w) => at[w] \in PointsOf(job[w].op)

\* What a request is doing follows from where it is, and it has a box.
LEMMA SlotFacts ==
  ASSUME DocsOK, NEW w \in Workers
  PROVE  /\ job[w].op \in Ops /\ job[w].form \in Forms /\ job[w].code \in Codes \cup {NoCode}
         /\ Box(w) \in Boxes /\ otps[Box(w)] \in Seq(Otp) /\ Distinct(otps[Box(w)])
         /\ at[w] = "insert" => job[w].op = "register"
         /\ at[w] = "invalidate" => job[w].op \in {"register", "resend", "forgot"}
         /\ at[w] \in {"check", "use"} => job[w].op \in {"verify", "reset"}
         /\ at[w] \in {"confirm", "activate"} => job[w].op = "set"
<1>1. job[w] \in Job
  BY DEF DocsOK
<1>2. job[w].op \in Ops /\ job[w].form \in Forms /\ job[w].code \in Codes \cup {NoCode}
  BY <1>1 DEF Job
<1>3. Purpose(job[w].op) \in Purposes
  BY DEF Purpose, Purposes
<1>4. Box(w) \in Boxes
  BY <1>2, <1>3 DEF Box, Boxes
<1>5. Busy(w) => at[w] \in PointsOf(job[w].op)
  BY DEF DocsOK
<1>6. /\ at[w] = "insert" => job[w].op = "register"
      /\ at[w] = "invalidate" => job[w].op \in {"register", "resend", "forgot"}
      /\ at[w] \in {"check", "use"} => job[w].op \in {"verify", "reset"}
      /\ at[w] \in {"confirm", "activate"} => job[w].op = "set"
  BY <1>2, <1>5 DEF Busy, PointsOf, Ops
<1> QED
  BY <1>2, <1>4, <1>6 DEF DocsOK

\* Requests that arrive, go on and end are where they can be.
LEMMA StartSlots ==
  ASSUME DocsOK, NEW w \in Workers, NEW op \in Ops, NEW f \in Forms,
         NEW c \in Codes \cup {NoCode}, NEW p \in PointsOf(op), Start(w, op, f, c, p)
  PROVE  SlotsOK' /\ p \in Points
<1>1. p \in Points
  BY DEF PointsOf, Points, Ops
<1> DEFINE new == [op |-> op, form |-> f, code |-> c, late |-> FALSE,
                   stale |-> Stale(otps[<<f, Purpose(op)>>], c)]
<1>2. Stale(otps[<<f, Purpose(op)>>], c) \in BOOLEAN
  BY DEF Stale
<1>3. new \in Job /\ new.op = op
  BY <1>2 DEF Job
<1> HIDE DEF new
<1>4. job' = [job EXCEPT ![w] = new] /\ at' = [at EXCEPT ![w] = p]
  BY DEF Start, new
<1> QED
  BY <1>1, <1>3, <1>4 DEF DocsOK, SlotsOK, Busy

\* A request that goes on, to a point of its operation, keeps the slots.
LEMMA GotoSlots ==
  ASSUME DocsOK, NEW w \in Workers, NEW p \in PointsOf(job[w].op), Goto(w, p)
  PROVE  SlotsOK'
<1>1. p \in Points
  BY SlotFacts DEF PointsOf, Points, Ops
<1> QED
  BY <1>1 DEF DocsOK, SlotsOK, Goto, Busy

\* A request that ends keeps the slots.
LEMMA FinishSlots ==
  ASSUME DocsOK, NEW w \in Workers, Finish(w)
  PROVE  SlotsOK'
<1>1. NoJob \in Job
  BY AccountAssumption DEF NoJob, Job, Ops
<1>2. "idle" \in Points
  BY DEF Points
<1> QED
  BY <1>1, <1>2 DEF DocsOK, SlotsOK, Finish, Busy

-----------------------------------------------------------------------------
(* The invariant is kept.                                                  *)

\* By steps that write at most one account and no OTP, if what is checked or
\* used was so before or is a fresh check.
LEMMA SlotSafe ==
  ASSUME AccountInv, SlotsOK', UNCHANGED otps,
         account' \in [Forms -> {"none", "pending", "active"}], OneAccount', SetExists',
         \A v \in Workers :
           /\ at'[v] = "check" /\ job'[v].stale => Refused(otps[Box(v)'], job'[v].code)
           /\ at'[v] = "use" => ~job'[v].stale
  PROVE  AccountInv'
BY DEF AccountInv, DocsOK, SlotsOK, StaleKept, StaleCodeRefused

\* By steps that write one box, if codes stay distinct there and those refused
\* stay refused.
LEMMA BoxSafe ==
  ASSUME AccountInv, SlotsOK', UNCHANGED account,
         NEW b \in Boxes, NEW box \in Seq(Otp), Distinct(box), otps' = [otps EXCEPT ![b] = box],
         \A v \in Workers :
           /\ at'[v] \in Looking => at'[v] = at[v] /\ job'[v] = job[v]
           /\ at'[v] = "check" /\ Box(v) = b /\ Refused(otps[b], job[v].code)
                => Refused(box, job[v].code)
  PROVE  AccountInv'
<1>1. DocsOK'
  BY DEF AccountInv, DocsOK, SlotsOK
<1>2. OneAccount'
  BY DEF AccountInv, OneAccount
<1>3. StaleCodeRefused'
  BY DEF AccountInv, StaleCodeRefused, Looking
<1>4. StaleKept'
  <2> SUFFICES ASSUME NEW v \in Workers, at'[v] = "check", job'[v].stale
               PROVE  Refused(otps'[Box(v)'], job'[v].code)
    BY DEF StaleKept
  <2>1. at[v] = "check" /\ job'[v] = job[v] /\ Box(v)' = Box(v)
    BY DEF Box, Looking
  <2>2. Refused(otps[Box(v)], job[v].code)
    BY <2>1 DEF AccountInv, StaleKept
  <2>3. CASE Box(v) = b
    BY <2>1, <2>2, <2>3 DEF AccountInv, DocsOK
  <2>4. CASE Box(v) # b
    BY <2>1, <2>2, <2>4 DEF AccountInv, DocsOK
  <2> QED
    BY <2>3, <2>4
<1>5. SetExists'
  BY DEF AccountInv, SetExists, Looking
<1> QED
  BY <1>1, <1>2, <1>3, <1>4, <1>5 DEF AccountInv

\* By a request that arrives.
LEMMA StartSafe ==
  ASSUME AccountInv, NEW w \in Workers, NEW op \in Ops, NEW f \in Forms,
         NEW c \in Codes \cup {NoCode}, NEW p \in PointsOf(op), p # "use",
         p \in {"confirm", "activate"} => account[f] # "none", Start(w, op, f, c, p), UNCHANGED <<account, otps>>
  PROVE  AccountInv'
<1> USE DEF AccountInv
<1>1. SlotsOK' /\ p \in Points
  BY StartSlots
<1>2. /\ at' = [at EXCEPT ![w] = p]
      /\ job'[w].form = f /\ job'[w].op = op /\ job'[w].code = c
      /\ job'[w].stale = Stale(otps[<<f, Purpose(op)>>], c)
      /\ \A v \in Workers \ {w} : job'[v] = job[v] /\ at'[v] = at[v]
  BY DEF Start, DocsOK
<1>3. Box(w)' = <<f, Purpose(op)>> /\ <<f, Purpose(op)>> \in Boxes
  BY <1>2 DEF Box, Boxes, Purpose, Purposes
<1>4. job'[w].stale => Refused(otps[Box(w)'], job'[w].code)
  BY <1>2, <1>3, StaleRefused DEF DocsOK
<1>5. \A v \in Workers \ {w} : Box(v)' = Box(v)
  BY <1>2 DEF Box
<1>6. at'[w] = p
  BY <1>2 DEF DocsOK
<1>7. ASSUME NEW v \in Workers
      PROVE  /\ at'[v] = "check" /\ job'[v].stale => Refused(otps'[Box(v)'], job'[v].code)
             /\ at'[v] = "use" => ~job'[v].stale
  BY <1>2, <1>4, <1>5, <1>6 DEF StaleKept, StaleCodeRefused
<1>8. OneAccount' /\ account' \in [Forms -> {"none", "pending", "active"}]
  BY DEF OneAccount, DocsOK
<1>9. SetExists'
  BY <1>2, <1>6 DEF SetExists
<1> QED
  BY <1>1, <1>7, <1>8, <1>9, SlotSafe

\* A request that arrives keeps the invariant.
LEMMA ArriveSafe ==
  ASSUME AccountInv, NEW w \in Workers, Arrive(w)
  PROVE  AccountInv'
<1>1. PICK f \in Forms :
        \/ Register(w, f) \/ ResendOtp(w, f) \/ ForgotPassword(w, f)
        \/ Login(w, f) \/ Refresh(w, f) \/ Logout(w, f)
        \/ \E c \in CodesFor["verification"] : VerifyOtp(w, f, c) \/ SetPassword(w, f, c)
        \/ \E c \in CodesFor["reset"] : ResetPassword(w, f, c)
  BY DEF Arrive
<1>2. CodesFor["verification"] \subseteq Codes /\ CodesFor["reset"] \subseteq Codes
  BY DEF Codes, Purposes
<1>3. CASE Register(w, f)
  BY <1>3, StartSafe DEF Register, Ops, PointsOf
<1>4. CASE ResendOtp(w, f)
  BY <1>4, StartSafe DEF ResendOtp, Ops, PointsOf
<1>5. CASE ForgotPassword(w, f)
  BY <1>5, StartSafe DEF ForgotPassword, Ops, PointsOf
<1>6. ASSUME NEW c \in CodesFor["verification"], VerifyOtp(w, f, c) PROVE AccountInv'
  BY <1>2, <1>6, StartSafe DEF VerifyOtp, Ops, PointsOf
<1>7. ASSUME NEW c \in CodesFor["verification"], SetPassword(w, f, c) PROVE AccountInv'
  BY <1>2, <1>7, StartSafe DEF SetPassword, Ops, PointsOf
<1>8. ASSUME NEW c \in CodesFor["reset"], ResetPassword(w, f, c) PROVE AccountInv'
  BY <1>2, <1>8, StartSafe DEF ResetPassword, Ops, PointsOf
<1>9. CASE Login(w, f)
  BY <1>9, StartSafe DEF Login, Ops, PointsOf
<1>10. CASE Refresh(w, f)
  BY <1>10, StartSafe DEF Refresh, sessions, Ops, PointsOf
<1>11. CASE Logout(w, f)
  BY <1>11, StartSafe DEF Logout, Ops, PointsOf
<1> QED
  BY <1>1, <1>3, <1>4, <1>5, <1>6, <1>7, <1>8, <1>9, <1>10, <1>11

\* By a request that ends, or goes on without depending on documents, or to
\* save the account it loaded, and writes no OTP.
LEMMA MoveSafe ==
  ASSUME AccountInv, NEW w \in Workers, UNCHANGED otps,
         \/ Finish(w)
         \/ \E p \in PointsOf(job[w].op) \ Looking : Goto(w, p)
         \/ at[w] = "confirm" /\ Goto(w, "activate"),
         \A g \in Forms : account[g] # "none" => account'[g] # "none",
         account' \in [Forms -> {"none", "pending", "active"}], OneAccount'
  PROVE  AccountInv'
<1>1. SlotsOK'
  <2>1. at[w] = "confirm" => "activate" \in PointsOf(job[w].op)
    BY SlotFacts DEF AccountInv, PointsOf
  <2> QED
    BY <2>1, GotoSlots, FinishSlots DEF AccountInv
<1>2. /\ at'[w] \notin {"check", "use"}
      /\ at'[w] \in Looking => at[w] = "confirm" /\ job'[w] = job[w]
      /\ \A v \in Workers \ {w} : at'[v] = at[v] /\ job'[v] = job[v]
  BY DEF AccountInv, DocsOK, Finish, Goto, Looking
<1>3. \A v \in Workers \ {w} : Box(v)' = Box(v)
  BY <1>2 DEF Box
<1>4. \A v \in Workers :
        /\ at'[v] = "check" /\ job'[v].stale => Refused(otps'[Box(v)'], job'[v].code)
        /\ at'[v] = "use" => ~job'[v].stale
  BY <1>2, <1>3 DEF AccountInv, StaleKept, StaleCodeRefused
<1>5. SetExists'
  BY <1>2, SlotFacts DEF AccountInv, SetExists, Looking
<1> QED
  BY <1>1, <1>4, <1>5, SlotSafe

\* By the insert, which the unique indexes refuse to a rival.
LEMMA CreateSafe ==
  ASSUME AccountInv, NEW w \in Workers, CreateUser(w)
  PROVE  AccountInv'
<1> DEFINE f == job[w].form
<1>1. f \in Forms /\ job[w].op = "register"
  BY SlotFacts DEF AccountInv, CreateUser
<1>2. CASE Rivals(f) = {}
  <2>1. account' = [account EXCEPT ![f] = "pending"] /\ Goto(w, "invalidate") /\ UNCHANGED otps
    BY <1>2 DEF CreateUser
  <2>2. "invalidate" \in PointsOf(job[w].op)
    BY <1>1 DEF PointsOf
  <2> "invalidate" \notin Looking
    BY DEF Looking
  <2>3. \A g \in Forms : account[g] # "none" => EmailOf[g] # EmailOf[f] /\ IdOf[g] # IdOf[f]
    BY <1>2 DEF Rivals
  <2>4. /\ account' \in [Forms -> {"none", "pending", "active"}]
        /\ \A g \in Forms \ {f} : account'[g] = account[g]
    BY <1>1, <2>1 DEF AccountInv, DocsOK
  <2>5. OneAccount'
    BY <1>1, <2>3, <2>4 DEF AccountInv, OneAccount
  <2> QED
    BY <2>1, <2>2, <2>4, <2>5, MoveSafe
<1>3. CASE Rivals(f) # {}
  <2>1. UNCHANGED <<account, otps>> /\ Finish(w)
    BY <1>3 DEF CreateUser
  <2> QED
    BY <2>1, MoveSafe DEF AccountInv, DocsOK, OneAccount
<1> QED
  BY <1>2, <1>3

\* By createAndSend.
LEMMA InvalidateSafe ==
  ASSUME AccountInv, NEW w \in Workers, Invalidate(w)
  PROVE  AccountInv'
<1>1. Goto(w, "issue") /\ UNCHANGED account /\ job[w].op \in {"register", "resend", "forgot"}
  BY SlotFacts DEF AccountInv, Invalidate
<1>2. PICK b \in Boxes, box \in Seq(Otp) :
        /\ otps' = [otps EXCEPT ![b] = box]
        /\ Distinct(box) /\ \A c : Refused(otps[b], c) => Refused(box, c)
  BY SlotFacts, MarkUsedKeeps, MarkUsedSafe DEF AccountInv, Invalidate
<1>3. SlotsOK'
  BY <1>1, GotoSlots DEF AccountInv, PointsOf
<1>4. \A v \in Workers : at'[v] \in Looking => at'[v] = at[v] /\ job'[v] = job[v]
  BY <1>1 DEF Looking, Goto, AccountInv, DocsOK
<1> QED
  <2>1. \A v \in Workers :
          /\ at'[v] \in Looking => at'[v] = at[v] /\ job'[v] = job[v]
          /\ at'[v] = "check" /\ Box(v) = b /\ Refused(otps[b], job[v].code)
               => Refused(box, job[v].code)
    BY <1>2, <1>4
  <2> QED
    BY <1>1, <1>2, <1>3, <2>1, BoxSafe, Zenon

\* Issuing a code keeps the invariant.
LEMMA IssueSafe ==
  ASSUME AccountInv, NEW w \in Workers, NEW c \in Codes, Issue(w, c)
  PROVE  AccountInv'
<1>1. Finish(w) /\ UNCHANGED account
  BY DEF Issue, Store
<1>2. PICK b \in Boxes, box \in Seq(Otp) :
        /\ otps' = [otps EXCEPT ![b] = box]
        /\ Distinct(box)
        /\ \A v \in Workers : Box(v) = b /\ Refused(otps[b], job[v].code)
                              => Refused(box, job[v].code)
  <2> DEFINE b == Box(w)
             box == Append(otps[b], [code |-> c, used |-> FALSE, age |-> "fresh"])
  <2>1. b \in Boxes /\ otps[b] \in Seq(Otp) /\ Distinct(otps[b])
    BY SlotFacts DEF AccountInv
  <2>2. /\ c \notin {otps[b][i].code : i \in DOMAIN otps[b]}
        /\ \A v \in Workers : Box(v) = b => job[v].code # c
    BY DEF Issue, Taken
  <2>3. box \in Seq(Otp) /\ Distinct(box) /\ \A d : d # c /\ Refused(otps[b], d) => Refused(box, d)
    BY <2>1, <2>2, AppendSafe
  <2>4. otps' = [otps EXCEPT ![b] = box]
    BY DEF Issue, Store
  <2>5. \A v \in Workers : Box(v) = b /\ Refused(otps[b], job[v].code)
                          => Refused(box, job[v].code)
    BY <2>2, <2>3
  <2> HIDE DEF b, box
  <2> QED
    BY <2>1, <2>3, <2>4, <2>5, Zenon
<1>3. SlotsOK'
  BY <1>1, FinishSlots DEF AccountInv
<1>4. \A v \in Workers : at'[v] \in Looking => at'[v] = at[v] /\ job'[v] = job[v]
  BY <1>1 DEF Looking, Finish, AccountInv, DocsOK
<1> QED
  <2>1. \A v \in Workers :
          /\ at'[v] \in Looking => at'[v] = at[v] /\ job'[v] = job[v]
          /\ at'[v] = "check" /\ Box(v) = b /\ Refused(otps[b], job[v].code)
               => Refused(box, job[v].code)
    BY <1>2, <1>4
  <2> QED
    BY <1>1, <1>2, <1>3, <2>1, BoxSafe, Zenon

\* By validate: a stale code is found refused.
LEMMA CheckSafe ==
  ASSUME AccountInv, NEW w \in Workers, CheckOtp(w)
  PROVE  AccountInv'
<1>1. UNCHANGED <<account, otps>> /\ account' \in [Forms -> {"none", "pending", "active"}] /\ OneAccount'
  BY DEF CheckOtp, AccountInv, DocsOK, OneAccount
<1>2. CASE Accepted(w)
  <2>1. Goto(w, "use") /\ at[w] = "check"
    BY <1>2 DEF CheckOtp
  <2>2. ~job[w].stale
    BY <1>2, <2>1, SlotFacts, RefusedNotAccepted DEF AccountInv, StaleKept
  <2>3. SlotsOK'
    BY <2>1, SlotFacts, GotoSlots DEF AccountInv, PointsOf
  <2>4. /\ job' = job /\ at'[w] = "use"
        /\ \A v \in Workers \ {w} : at'[v] = at[v]
    BY <2>1 DEF Goto, AccountInv, DocsOK
  <2>5. \A v \in Workers : Box(v)' = Box(v)
    BY <2>4 DEF Box
  <2>6. \A v \in Workers :
          /\ at'[v] = "check" /\ job'[v].stale => Refused(otps'[Box(v)'], job'[v].code)
          /\ at'[v] = "use" => ~job'[v].stale
    BY <1>1, <2>2, <2>4, <2>5 DEF AccountInv, StaleKept, StaleCodeRefused
  <2>7. SetExists'
    BY <1>1, <2>4 DEF AccountInv, SetExists
  <2> QED
    BY <1>1, <2>3, <2>6, <2>7, SlotSafe
<1>3. CASE ~Accepted(w)
  BY <1>1, <1>3, MoveSafe DEF CheckOtp
<1> QED
  BY <1>2, <1>3

\* Using up a code keeps the invariant.
LEMMA UseSafe ==
  ASSUME AccountInv, NEW w \in Workers, UseOtp(w)
  PROVE  AccountInv'
<1>1. /\ Finish(w) \/ (job[w].op = "reset" /\ Goto(w, "save"))
      /\ UNCHANGED account
  BY DEF UseOtp
<1>2. PICK b \in Boxes, box \in Seq(Otp) :
        /\ otps' = [otps EXCEPT ![b] = box]
        /\ Distinct(box) /\ \A c : Refused(otps[b], c) => Refused(box, c)
  <2> DEFINE b == Box(w)
             box == MarkUsed(otps[b], {job[w].code})
  <2>1. b \in Boxes /\ otps[b] \in Seq(Otp) /\ Distinct(otps[b])
    BY SlotFacts DEF AccountInv
  <2>2. box \in Seq(Otp) /\ Distinct(box) /\ \A c : Refused(otps[b], c) => Refused(box, c)
    BY <2>1, MarkUsedKeeps, MarkUsedSafe
  <2>3. otps' = [otps EXCEPT ![b] = box]
    BY DEF UseOtp
  <2> HIDE DEF b, box
  <2> QED
    BY <2>1, <2>2, <2>3, Zenon
<1>3. SlotsOK'
  <2>1. job[w].op = "reset" => "save" \in PointsOf(job[w].op)
    BY DEF PointsOf
  <2> QED
    BY <1>1, <2>1, FinishSlots, GotoSlots DEF AccountInv
<1>4. \A v \in Workers : at'[v] \in Looking => at'[v] = at[v] /\ job'[v] = job[v]
  BY <1>1 DEF Looking, Finish, Goto, AccountInv, DocsOK
<1> QED
  <2>1. \A v \in Workers :
          /\ at'[v] \in Looking => at'[v] = at[v] /\ job'[v] = job[v]
          /\ at'[v] = "check" /\ Box(v) = b /\ Refused(otps[b], job[v].code)
               => Refused(box, job[v].code)
    BY <1>2, <1>4
  <2> QED
    BY <1>1, <1>2, <1>3, <2>1, BoxSafe, Zenon

\* By setPassword and by a request that breaks off.
LEMMA SetSafe ==
  ASSUME AccountInv, NEW w \in Workers, Confirm(w) \/ Activate(w) \/ Abort(w)
  PROVE  AccountInv'
<1>1. CASE Confirm(w)
  BY <1>1, MoveSafe DEF Confirm, AccountInv, DocsOK, OneAccount
<1>2. CASE Activate(w)
  <2>1. Finish(w) /\ UNCHANGED otps /\ account' = [account EXCEPT ![job[w].form] = "active"]
    BY <1>2 DEF Activate
  <2>2. account' \in [Forms -> {"none", "pending", "active"}]
    BY <2>1 DEF AccountInv, DocsOK
  <2>3. account[job[w].form] # "none"
    BY <1>2 DEF Activate, AccountInv, SetExists
  <2>4. \A g \in Forms : account'[g] # "none" <=> account[g] # "none"
    BY <2>1, <2>3 DEF AccountInv, DocsOK
  <2>5. OneAccount'
    BY <2>4 DEF AccountInv, OneAccount
  <2> QED
    BY <2>1, <2>2, <2>4, <2>5, MoveSafe
<1>3. CASE Abort(w)
  BY <1>3, MoveSafe DEF Abort, AccountInv, DocsOK, OneAccount
<1> QED
  BY <1>1, <1>2, <1>3

\* By storing tokens and saving a password.
LEMMA GrantSafe ==
  ASSUME AccountInv, NEW w \in Workers, IssueTokenPair(w) \/ SavePassword(w)
  PROVE  AccountInv'
<1>1. UNCHANGED <<account, otps>>
  BY DEF IssueTokenPair, SavePassword
<1>2. at[w] = "save" => job[w].op = "reset" /\ "revoke" \in PointsOf(job[w].op) \ Looking
  <2>1. at[w] = "save" => at[w] \in PointsOf(job[w].op) /\ job[w].op \in Ops
    BY SlotFacts DEF AccountInv, DocsOK, Busy
  <2> QED
    BY <2>1 DEF PointsOf, Ops, Looking
<1>3. Finish(w) \/ \E p \in PointsOf(job[w].op) \ Looking : Goto(w, p)
  BY <1>2 DEF IssueTokenPair, SavePassword
<1>4. account' \in [Forms -> {"none", "pending", "active"}] /\ OneAccount'
  BY <1>1 DEF AccountInv, DocsOK, OneAccount
<1> QED
  BY <1>1, <1>3, <1>4, MoveSafe

\* By a revocation, which only marks other requests late.
LEMMA RevokeSafe ==
  ASSUME AccountInv, NEW w \in Workers, RevokeRefreshToken(w)
  PROVE  AccountInv'
<1>1. UNCHANGED <<account, otps>> /\ Revoked(w, job[w].form)
  BY DEF RevokeRefreshToken
<1>2. NoJob \in Job /\ "idle" \in Points
  BY AccountAssumption DEF NoJob, Job, Ops, Points
<1>3. ASSUME NEW v \in Workers \ {w}
      PROVE  /\ job'[v] \in Job /\ at'[v] = at[v]
             /\ job'[v].op = job[v].op /\ job'[v].form = job[v].form
             /\ job'[v].code = job[v].code /\ job'[v].stale = job[v].stale
  <2>1. job[v] \in Job
    BY DEF AccountInv, DocsOK
  <2>2. job'[v] = job[v] \/ job'[v] = [job[v] EXCEPT !.late = TRUE]
    BY <1>1, <1>3 DEF Revoked
  <2>3. at'[v] = at[v]
    BY <1>1, <1>3 DEF Revoked, AccountInv, DocsOK
  <2> QED
    BY <2>1, <2>2, <2>3 DEF Job
<1>4. at'[w] = "idle" /\ job'[w] = NoJob /\ DOMAIN job' = Workers /\ at' \in [Workers -> Points]
  BY <1>1, <1>2 DEF Revoked, AccountInv, DocsOK
<1>5. SlotsOK'
  <2>1. job' = [v \in Workers |-> job'[v]]
    BY <1>1 DEF Revoked
  <2>2. job' \in [Workers -> Job]
    BY <1>2, <1>3, <1>4, <2>1
  <2>3. \A v \in Workers : Busy(v)' => at'[v] \in PointsOf(job'[v].op)
    BY <1>3, <1>4 DEF Busy, AccountInv, DocsOK
  <2> QED
    BY <1>4, <2>2, <2>3 DEF SlotsOK, Busy
<1>6. \A v \in Workers \ {w} : Box(v)' = Box(v)
  BY <1>3 DEF Box
<1>7. \A v \in Workers :
        /\ at'[v] = "check" /\ job'[v].stale => Refused(otps'[Box(v)'], job'[v].code)
        /\ at'[v] = "use" => ~job'[v].stale
  BY <1>1, <1>3, <1>4, <1>6 DEF AccountInv, StaleKept, StaleCodeRefused
<1>8. SetExists'
  BY <1>1, <1>3, <1>4 DEF AccountInv, SetExists
<1>9. account' \in [Forms -> {"none", "pending", "active"}] /\ OneAccount'
  BY <1>1 DEF AccountInv, DocsOK, OneAccount
<1> QED
  BY <1>1, <1>5, <1>7, <1>8, <1>9, SlotSafe

\* By the passage of time.
LEMMA TimeSafe ==
  ASSUME AccountInv, NEW b \in Boxes, Expire(b) \/ Forget(b)
  PROVE  AccountInv'
<1>1. /\ UNCHANGED <<account, at, job>> /\ SlotsOK'
      /\ otps[b] \in Seq(Otp) /\ Distinct(otps[b])
  BY DEF Expire, Forget, AccountInv, DocsOK, SlotsOK, Busy
<1>2. PICK box :
        /\ otps' = [otps EXCEPT ![b] = box]
        /\ box \in Seq(Otp) /\ Distinct(box)
        /\ \A c : Refused(otps[b], c) => Refused(box, c)
  <2>1. CASE Expire(b)
    <3>1. PICK i \in DOMAIN otps[b] :
            otps' = [otps EXCEPT ![b] = [otps[b] EXCEPT ![i].age = "expired"]]
      BY <2>1 DEF Expire
    <3> QED
      BY <1>1, <3>1, ExpireSafe
  <2>2. CASE Forget(b)
    <3>1. otps[b] # <<>> /\ otps' = [otps EXCEPT ![b] = Tail(otps[b])]
      BY <2>2 DEF Forget
    <3> QED
      BY <1>1, <3>1, ForgetSafe
  <2> QED
    BY <2>1, <2>2
<1> QED
  BY <1>1, <1>2, BoxSafe

-----------------------------------------------------------------------------
(* The theorems.                                                           *)

\* The first states satisfy the invariant.
LEMMA InitInv == Init => AccountInv
<1> SUFFICES ASSUME Init PROVE AccountInv
  OBVIOUS
<1>1. NoJob \in Job /\ "idle" \in Points
  BY AccountAssumption DEF NoJob, Job, Ops, Points
<1>2. <<>> \in Seq(Otp) /\ Distinct(<<>>)
  BY DEF Distinct
<1>3. DocsOK
  BY <1>1, <1>2 DEF Init, DocsOK, Busy
<1> QED
  BY <1>3 DEF Init, AccountInv, OneAccount, StaleKept, StaleCodeRefused, SetExists

\* Every step keeps the invariant.
LEMMA StepInv == AccountInv /\ [Next]_vars => AccountInv'
<1> SUFFICES ASSUME AccountInv, [Next]_vars PROVE AccountInv'
  OBVIOUS
<1>1. CASE UNCHANGED vars
  BY <1>1 DEF vars, AccountInv, DocsOK, OneAccount, StaleKept, StaleCodeRefused, SetExists, Box, Busy
<1>2. ASSUME NEW w \in Workers, Arrive(w) \/ Step(w) \/ Abort(w) PROVE AccountInv'
  BY <1>2, ArriveSafe, CreateSafe, InvalidateSafe, IssueSafe, CheckSafe, UseSafe, SetSafe,
     GrantSafe, RevokeSafe DEF Step
<1>3. ASSUME NEW b \in Boxes, Expire(b) \/ Forget(b) PROVE AccountInv'
  BY <1>3, TimeSafe
<1> QED
  BY <1>1, <1>2, <1>3 DEF Next

\* Sessions.  A request that is idle or does not store tokens next cannot break
\* the invariant; one that loads the account is not late and not revoked.
LEMMA CalmSessions ==
  ASSUME SessionInv, UNCHANGED sessions,
         \A v \in Workers :
           at'[v] = "grant" => \/ at[v] = "grant" /\ job'[v] = job[v]
                              \/ job'[v].form \notin ended
  PROVE  SessionInv'
BY DEF SessionInv, RevocationHolds, sessions

\* A request that arrives keeps what is known of the sessions.
LEMMA ArriveSessions ==
  ASSUME AccountInv, SessionInv, NEW w \in Workers, Arrive(w)
  PROVE  SessionInv'
<1>0. PICK f \in Forms : \E op, c, p :
        /\ Start(w, op, f, c, p)
        /\ p = "grant" => f \notin ended'
        /\ session' = session /\ ended' \in {ended, ended \ {f}}
        /\ ended' # ended => p = "grant"
  <2>1. PICK f \in Forms :
          \/ Register(w, f) \/ ResendOtp(w, f) \/ ForgotPassword(w, f)
          \/ Login(w, f) \/ Refresh(w, f) \/ Logout(w, f)
          \/ \E c \in CodesFor["verification"] : VerifyOtp(w, f, c) \/ SetPassword(w, f, c)
          \/ \E c \in CodesFor["reset"] : ResetPassword(w, f, c)
    BY DEF Arrive
  <2>2. CASE Login(w, f)
    BY <2>2 DEF Login
  <2>3. CASE Refresh(w, f)
    BY <2>3 DEF Refresh, sessions, SessionInv, RevocationHolds
  <2>4. CASE Logout(w, f)
    BY <2>4 DEF Logout, sessions
  <2>5. CASE Register(w, f)
    BY <2>5 DEF Register, sessions
  <2>6. CASE ResendOtp(w, f)
    BY <2>6 DEF ResendOtp, sessions
  <2>7. CASE ForgotPassword(w, f)
    BY <2>7 DEF ForgotPassword, sessions
  <2>8. ASSUME NEW c, VerifyOtp(w, f, c)
        PROVE  Start(w, "verify", f, c, "check") /\ UNCHANGED sessions
    BY <2>8 DEF VerifyOtp
  <2>9. ASSUME NEW c, SetPassword(w, f, c)
        PROVE  Start(w, "set", f, c, "confirm") /\ UNCHANGED sessions
    BY <2>9 DEF SetPassword
  <2>10. ASSUME NEW c, ResetPassword(w, f, c)
         PROVE  Start(w, "reset", f, c, "check") /\ UNCHANGED sessions
    BY <2>10 DEF ResetPassword
  <2> QED
    BY <2>1, <2>2, <2>3, <2>4, <2>5, <2>6, <2>7, <2>8, <2>9, <2>10 DEF sessions
<1>1. PICK op, c, p :
        /\ Start(w, op, f, c, p)
        /\ p = "grant" => f \notin ended'
        /\ session' = session /\ ended' \in {ended, ended \ {f}}
        /\ ended' # ended => p = "grant"
  BY <1>0
<1>2. /\ at'[w] = p /\ job'[w].form = f
      /\ \A v \in Workers \ {w} : at'[v] = at[v] /\ job'[v] = job[v]
  BY <1>1 DEF Start, AccountInv, DocsOK
<1>3. session' \subseteq Forms /\ ended' \subseteq ended /\ RevocationHolds'
  BY <1>1 DEF SessionInv, RevocationHolds
<1>4. \A v \in Workers : at'[v] = "grant" /\ job'[v].form \in ended' => job'[v].late
  BY <1>1, <1>2, <1>3 DEF SessionInv
<1> QED
  BY <1>3, <1>4 DEF SessionInv

\* A pair of tokens that is issued keeps what is known of the sessions.
LEMMA GrantSessions ==
  ASSUME AccountInv, SessionInv, NEW w \in Workers, IssueTokenPair(w)
  PROVE  SessionInv'
<1>1. /\ at[w] = "grant" /\ session' = session \cup {job[w].form}
      /\ ended' = IF job[w].late THEN ended \ {job[w].form} ELSE ended
      /\ job[w].form \in Forms
  BY SlotFacts DEF IssueTokenPair, AccountInv
<1>2. /\ at'[w] = "idle" /\ \A v \in Workers \ {w} : at'[v] = at[v] /\ job'[v] = job[v]
  BY DEF IssueTokenPair, Finish, AccountInv, DocsOK
<1>3. job[w].form \notin ended'
  BY <1>1 DEF SessionInv
<1>4. session' \subseteq Forms /\ ended' \subseteq ended /\ RevocationHolds'
  BY <1>1, <1>3 DEF SessionInv, RevocationHolds
<1> QED
  BY <1>2, <1>4 DEF SessionInv

\* A token that is revoked keeps what is known of the sessions.
LEMMA RevokeSessions ==
  ASSUME AccountInv, SessionInv, NEW w \in Workers, RevokeRefreshToken(w)
  PROVE  SessionInv'
<1> DEFINE f == job[w].form
<1>1. f \in Forms /\ session' = session \ {f} /\ ended' = ended \cup {f} /\ at'[w] = "idle"
  BY SlotFacts DEF RevokeRefreshToken, Revoked, AccountInv, DocsOK
<1>2. ASSUME NEW v \in Workers \ {w}, at'[v] = "grant", job'[v].form \in ended'
      PROVE  job'[v].late
  <2>1. at[v] = "grant" /\ job[v] \in Job
    BY <1>2 DEF RevokeRefreshToken, Revoked, AccountInv, DocsOK
  <2>2. job'[v] = IF job[v].form = f THEN [job[v] EXCEPT !.late = TRUE] ELSE job[v]
    BY <1>2, <2>1 DEF RevokeRefreshToken, Revoked
  <2> QED
    BY <1>1, <1>2, <2>1, <2>2 DEF SessionInv, Job
<1> QED
  BY <1>1, <1>2 DEF SessionInv, RevocationHolds

\* Every other step leaves sessions alone and leads nobody to store a token.
LEMMA StepSessions ==
  ASSUME AccountInv, SessionInv, NEW w \in Workers, Step(w) \/ Abort(w)
  PROVE  SessionInv'
<1>1. CASE IssueTokenPair(w)
  BY <1>1, GrantSessions
<1>2. CASE RevokeRefreshToken(w)
  BY <1>2, RevokeSessions
<1>3. ASSUME ~IssueTokenPair(w), ~RevokeRefreshToken(w)
      PROVE  SessionInv'
  <2>1. /\ UNCHANGED sessions
        /\ Finish(w) \/ \E p \in Points \ {"grant"} : Goto(w, p)
    BY <1>3 DEF Step, Abort, CreateUser, Invalidate, CheckOtp, UseOtp, Confirm, Activate,
                SavePassword, Issue, Store, Points
  <2>2. \A v \in Workers : at'[v] = "grant" => at[v] = "grant" /\ job'[v] = job[v]
    BY <2>1 DEF Finish, Goto, AccountInv, DocsOK
  <2> QED
    BY <2>1, <2>2, CalmSessions
<1> QED
  BY <1>1, <1>2, <1>3

\* Both invariants together.
LEMMA BothInv ==
  /\ Init => AccountInv /\ SessionInv
  /\ AccountInv /\ SessionInv /\ [Next]_vars => AccountInv' /\ SessionInv'
<1>1. Init => AccountInv /\ SessionInv
  BY InitInv DEF Init, SessionInv, RevocationHolds
<1>2. ASSUME AccountInv, SessionInv, [Next]_vars
      PROVE  SessionInv'
  <2>1. CASE UNCHANGED vars
    BY <1>2, <2>1 DEF vars, SessionInv, RevocationHolds
  <2>2. ASSUME NEW w \in Workers, Arrive(w) \/ Step(w) \/ Abort(w) PROVE SessionInv'
    BY <1>2, <2>2, ArriveSessions, StepSessions
  <2>3. ASSUME NEW b \in Boxes, Expire(b) \/ Forget(b) PROVE SessionInv'
    BY <1>2, <2>3, CalmSessions DEF Expire, Forget
  <2> QED
    BY <1>2, <2>1, <2>2, <2>3 DEF Next
<1> QED
  BY <1>1, <1>2, StepInv

\* Requests are always where their operation can be and the live codes of a
\* user and purpose differ.
THEOREM Typing == Spec => []TypeOK
<1>1. AccountInv /\ SessionInv => TypeOK
  BY DEF AccountInv, SessionInv, DocsOK, TypeOK
<1> QED
  BY BothInv, <1>1, PTL DEF Spec

\* No interleaving of registrations makes two accounts with one email or
\* national id (register, and the unique indexes of the schema).
THEOREM AccountsDistinct == Spec => []OneAccount
<1>1. AccountInv => OneAccount
  BY DEF AccountInv
<1> QED
  BY InitInv, StepInv, <1>1, PTL DEF Spec

\* No interleaving of resends and checks lets a code through that was spent or
\* superseded when it arrived (createAndSend, validate).
THEOREM StaleCodesRefused == Spec => []StaleCodeRefused
<1>1. AccountInv => StaleCodeRefused
  BY DEF AccountInv
<1> QED
  BY InitInv, StepInv, <1>1, PTL DEF Spec

\* No interleaving of logins, refreshes, logouts and resets revives a session
\* that was revoked, except by a request that had loaded the account before
\* (issueTokenPair, revokeRefreshToken).
THEOREM RevocationsHold == Spec => []RevocationHolds
<1>1. SessionInv => RevocationHolds
  BY DEF SessionInv
<1> QED
  BY BothInv, <1>1, PTL DEF Spec

-----------------------------------------------------------------------------
(* Members and staff together.  CmsAuthServiceProofs speaks of the same     *)
(* staff: its operators expand to those of Staff.                           *)

StaffProofs == INSTANCE CmsAuthServiceProofs

\* Its initial states,
LEMMA SameInit == Staff!Init <=> StaffProofs!Init
  BY DEF Staff!Init, StaffProofs!Init, Staff!NoTask, StaffProofs!NoTask

\* its steps,
LEMMA SameNext == Staff!Next <=> StaffProofs!Next
  BY DEF Staff!Next, Staff!Arrive, Staff!Proceed, Staff!Abort, Staff!TokenExpires,
         Staff!SeedSuperAdmin, Staff!Login, Staff!ChangePassword, Staff!DeactivateUser,
         Staff!CreateUser, Staff!Insert, Staff!EmitProvisioned, Staff!CountAdmins,
         Staff!Disable, Staff!SignToken, Staff!SavePassword, Staff!Finish, Staff!Start,
         Staff!Goto, Staff!Document, Staff!documents, Staff!Authenticated,
         Staff!Administers, Staff!NoTask, Staff!ActiveAdmins, Staff!Cardinality,
         StaffProofs!Next, StaffProofs!Arrive, StaffProofs!Proceed, StaffProofs!Abort,
         StaffProofs!TokenExpires, StaffProofs!SeedSuperAdmin, StaffProofs!Login,
         StaffProofs!ChangePassword, StaffProofs!DeactivateUser, StaffProofs!CreateUser,
         StaffProofs!Insert, StaffProofs!EmitProvisioned, StaffProofs!CountAdmins,
         StaffProofs!Disable, StaffProofs!SignToken, StaffProofs!SavePassword,
         StaffProofs!Finish, StaffProofs!Start, StaffProofs!Goto, StaffProofs!Document,
         StaffProofs!documents, StaffProofs!Authenticated, StaffProofs!Administers,
         StaffProofs!NoTask, StaffProofs!ActiveAdmins, StaffProofs!Cardinality

\* its stutters (the tuples nest differently)
LEMMA SameVars ==
  /\ UNCHANGED Staff!vars <=> UNCHANGED StaffProofs!vars
  /\ UNCHANGED Staff!vars <=> UNCHANGED staff
  BY DEF Staff!vars, StaffProofs!vars, Staff!documents, StaffProofs!documents, staff

\* and what it promises are the same.
LEMMA SameProperties ==
  ASSUME StaffProofs!StaffInv
  PROVE  Staff!TypeOK /\ Staff!MailedPasswordOpens
  BY DEF StaffProofs!StaffInv, StaffProofs!TypeOK, StaffProofs!MailInv,
         StaffProofs!MailedPasswordOpens, StaffProofs!Passwords, StaffProofs!Task,
         Staff!TypeOK, Staff!MailedPasswordOpens, Staff!Passwords, Staff!Task

\* The staff's invariant holds of them in every behaviour of both services.
LEMMA StaffKept ==
  /\ Staff!Init => StaffProofs!StaffInv
  /\ StaffProofs!StaffInv /\ [Staff!Next]_staff => StaffProofs!StaffInv'
<1>1. StaffProofs!IsFiniteSet(Emails)
  BY CmsAssumption DEF StaffProofs!IsFiniteSet, IsFiniteSet
<1>2. Staff!Init => StaffProofs!StaffInv
  BY <1>1, CmsAssumption, SameInit, StaffProofs!StaffInit
<1>3. StaffProofs!StaffInv /\ [StaffProofs!Next]_(StaffProofs!vars) => StaffProofs!StaffInv'
  BY <1>1, CmsAssumption, StaffProofs!StaffStep
<1>4. [Staff!Next]_staff => [StaffProofs!Next]_(StaffProofs!vars)
  BY SameNext, SameVars
<1> QED
  BY <1>2, <1>3, <1>4

\* A behaviour of both is one of each, whichever is in focus.
LEMMA BothKept ==
  /\ MCInit => AccountInv /\ SessionInv /\ StaffProofs!StaffInv
  /\ AccountInv /\ SessionInv /\ StaffProofs!StaffInv /\ [MCNext]_<<vars, staff, focus>>
       => AccountInv' /\ SessionInv' /\ StaffProofs!StaffInv'
<1>1. MCInit => Init /\ Staff!Init
  BY DEF MCInit
<1>2. [MCNext]_<<vars, staff, focus>> => [Next]_vars /\ [Staff!Next]_staff
  BY DEF MCNext
<1> QED
  BY <1>1, <1>2, BothInv, StaffKept

\* Requests of members and of staff are always where their operation can be,
\* and the accounts, tokens and mails of the staff refer to each other.
THEOREM BothTyped == MCSpec => []Typed
<1>1. AccountInv /\ SessionInv /\ StaffProofs!StaffInv => Typed
  BY SameProperties DEF AccountInv, SessionInv, DocsOK, TypeOK, Typed
<1> QED
  BY BothKept, <1>1, PTL DEF MCSpec

\* However creations of one email interleave, with whatever members do, a
\* temporary password that was mailed opens the account until its owner changes
\* it (createUser).
THEOREM BothMailed == MCSpec => []MailedPasswordOpens
<1>1. StaffProofs!StaffInv => MailedPasswordOpens
  BY SameProperties DEF MailedPasswordOpens
<1> QED
  BY BothKept, <1>1, PTL DEF MCSpec

\* The last active administrator is disabled only by a deactivation that another
\* one overtook after its count (deactivateUser).
THEOREM BothAdministered == MCSpec => AdministratorRemains
<1> DEFINE Kept ==
      \/ Staff!ActiveAdmins = {} \/ Staff!ActiveAdmins' # {}
      \/ \E w \in Workers : step[w] = "disable" /\ task[w].overtaken
<1>1. StaffProofs!StaffInv /\ [MCNext]_<<vars, staff, focus>> => [Kept]_(Staff!vars)
  <2> SUFFICES ASSUME StaffProofs!StaffInv, [MCNext]_<<vars, staff, focus>>,
                      Staff!ActiveAdmins # {}, Staff!ActiveAdmins' = {}
               PROVE  \E w \in Workers : step[w] = "disable" /\ task[w].overtaken
    OBVIOUS
  <2>1. [StaffProofs!Next]_(StaffProofs!vars)
    BY SameNext, SameVars DEF MCNext
  <2>2. Staff!ActiveAdmins = StaffProofs!ActiveAdmins
    BY DEF Staff!ActiveAdmins, StaffProofs!ActiveAdmins
  <2>3. StaffProofs!ActiveAdmins # {} /\ StaffProofs!ActiveAdmins' = {}
    BY DEF Staff!ActiveAdmins, StaffProofs!ActiveAdmins
  <2>4. StaffProofs!IsFiniteSet(Emails)
    BY CmsAssumption DEF StaffProofs!IsFiniteSet, IsFiniteSet
  <2> QED
    BY <2>1, <2>3, <2>4, CmsAssumption, StaffProofs!OvertakenOnly
<1> QED
  BY BothKept, <1>1, PTL DEF MCSpec, AdministratorRemains, Staff!AdministratorRemains
=============================================================================
