------------------------ MODULE MemberServiceProofs ------------------------
(***************************************************************************)
(* What the CMS decides about a member sticks, for any number of members,  *)
(* requests and redelivered events.                                        *)
(***************************************************************************)
EXTENDS MemberService, TLAPS

\* The inductive invariant.
MemberInv == TypeOK /\ LoadedExists /\ DecisionsStick

\* The fields that hold a document keep their types when one is replaced.
LEMMA DocTypes ==
  ASSUME NEW d \in Member
  PROVE  /\ d # NoDoc
         /\ d.status \in Statuses /\ d.kyc \in KycStatuses /\ d.name \in Names
         /\ \A s \in Statuses : [d EXCEPT !.status = s] \in Member
         /\ \A k \in KycStatuses : [d EXCEPT !.kyc = k] \in Member
         /\ \A n \in Names : [d EXCEPT !.name = n] \in Member
BY MemberAssumption DEF Member

\* The same for the read model.
LEMMA TraderTypes ==
  ASSUME NEW d \in Trader
  PROVE  /\ d # NoDoc
         /\ \A s \in Statuses : [d EXCEPT !.status = s] \in Trader
         /\ \A k \in KycStatuses : [d EXCEPT !.kyc = k] \in Trader
BY MemberAssumption DEF Trader

\* A new member is a member.
LEMMA NewMemberType == NewMember \in Member
BY MemberAssumption DEF NewMember, Member, Statuses, KycStatuses

\* What a decision writes is the member with one field replaced, and it agrees
\* with what the history records of it.
LEMMA DecisionTypes ==
  ASSUME TypeOK, NEW w \in Workers, NEW d \in Member
  PROVE  /\ Decision(w, d) \in Member
         /\ LET t == [status |-> d.status, kyc |-> d.kyc]
            IN  /\ Decision(w, t) \in Trader
                /\ Decision(w, t) = [status |-> Decision(w, d).status,
                                     kyc |-> Decision(w, d).kyc]
<1> job[w].kyc \in KycStatuses
  BY DEF TypeOK, Job
<1> d.status \in Statuses /\ d.kyc \in KycStatuses /\ d.name \in Names
  BY DocTypes
<1>1. CASE Op(w) = "suspend"
  BY <1>1, DocTypes DEF Decision, Member, Trader, Statuses
<1>2. CASE Op(w) = "unsuspend"
  BY <1>2, DocTypes DEF Decision, Member, Trader, Statuses
<1>3. CASE Op(w) \notin {"suspend", "unsuspend"}
  BY <1>3, DocTypes DEF Decision, Member, Trader
<1> QED
  BY <1>1, <1>2, <1>3

\* The events in flight are of the kinds published.
LEMMA EventShape ==
  ASSUME NEW e \in Events
  PROVE  \E m \in Members :
           \/ e = Registered(m) \/ e = Suspended(m) \/ e = Activated(m)
           \/ \E s \in KycStatuses : e = KycUpdated(m, s)
BY DEF Events

\* Consuming an event leaves a read model of the right type.
LEMMA ConsumeTypes ==
  ASSUME TypeOK, NEW e \in topics
  PROVE  (IF e.topic = "member.registered" THEN Upserted(e) ELSE Mirrored(e))
           \in [Members -> Trader \cup {NoDoc}]
<1>1. PICK m \in Members :
        \/ e = Registered(m) \/ e = Suspended(m) \/ e = Activated(m)
        \/ \E s \in KycStatuses : e = KycUpdated(m, s)
  BY EventShape DEF TypeOK
<1>2. CASE e = Registered(m)
  <2>1. e.topic = "member.registered" /\ e.payload.userId = m
    BY <1>2 DEF Registered
  <2>2. Upserted(e) \in [Members -> Trader \cup {NoDoc}]
    BY <2>1 DEF TypeOK, Upserted, Trader, Statuses, KycStatuses
  <2> QED
    BY <2>1, <2>2
<1>3. CASE ~(e = Registered(m))
  <2>1. e.topic # "member.registered" /\ "memberId" \notin DOMAIN e.payload
    BY <1>1, <1>3 DEF Suspended, Activated, KycUpdated
  <2>2. Addressee(e) = {}
    BY <2>1 DEF Addressee
  <2>3. Mirrored(e) = [n \in Members |-> trader[n]]
    BY <2>2 DEF Mirrored
  <2> QED
    BY <2>1, <2>3 DEF TypeOK
<1> QED
  BY <1>2, <1>3

\* An empty slot has the type of a slot.
LEMMA NoJobType == NoJob \in Job
BY MemberAssumption DEF NoJob, Job, Ops, KycStatuses

\* A request slot that is filled, moved on or emptied keeps its type.
LEMMA SlotTypes ==
  ASSUME TypeOK, NEW w \in Workers
  PROVE  /\ \A op \in Ops, m \in Members, doc \in Member \cup {NoDoc},
               k \in KycStatuses, p \in Points :
              Start(w, op, m, doc, k, p)
                => at' \in [Workers -> Points] /\ job' \in [Workers -> Job]
         /\ \A doc \in Member \cup {NoDoc}, p \in Points :
              Keep(w, doc, p) => at' \in [Workers -> Points] /\ job' \in [Workers -> Job]
         /\ \A p \in Points :
              Goto(w, p) => at' \in [Workers -> Points] /\ job' \in [Workers -> Job]
         /\ Finish(w) => at' \in [Workers -> Points] /\ job' \in [Workers -> Job]
         /\ Op(w) \in Ops /\ Who(w) \in Members /\ job[w].kyc \in KycStatuses
         /\ job[w].seen \in Member \cup {NoDoc}
<1>1. job[w] \in Job
  BY DEF TypeOK
<1>2. /\ Op(w) \in Ops /\ Who(w) \in Members /\ job[w].kyc \in KycStatuses
      /\ job[w].seen \in Member \cup {NoDoc}
  BY <1>1 DEF Job, Op, Who
<1>3. NoJob \in Job
  BY NoJobType
<1>4. ASSUME NEW op \in Ops, NEW m \in Members, NEW doc \in Member \cup {NoDoc},
             NEW k \in KycStatuses, NEW p \in Points, Start(w, op, m, doc, k, p)
      PROVE  at' \in [Workers -> Points] /\ job' \in [Workers -> Job]
  <2>1. [op |-> op, who |-> m, seen |-> doc, kyc |-> k] \in Job
    BY DEF Job
  <2> QED
    BY <1>4, <2>1 DEF TypeOK, Start
<1>5. ASSUME NEW doc \in Member \cup {NoDoc}, NEW p \in Points, Keep(w, doc, p)
      PROVE  at' \in [Workers -> Points] /\ job' \in [Workers -> Job]
  <2>1. [op |-> Op(w), who |-> Who(w), seen |-> doc, kyc |-> job[w].kyc] \in Job
    BY <1>2 DEF Job
  <2> QED
    BY <1>5, <2>1 DEF TypeOK, Keep
<1>6. ASSUME NEW p \in Points, Goto(w, p)
      PROVE  at' \in [Workers -> Points] /\ job' \in [Workers -> Job]
  BY <1>6 DEF TypeOK, Goto
<1>7. ASSUME Finish(w)
      PROVE  at' \in [Workers -> Points] /\ job' \in [Workers -> Job]
  <2>1. "idle" \in Points
    BY DEF Points
  <2> QED
    BY <1>3, <1>7, <2>1 DEF TypeOK, Finish
<1> QED
  BY <1>2, <1>4, <1>5, <1>6, <1>7

\* The initial state.
LEMMA InitInv == Init => MemberInv
<1> SUFFICES ASSUME Init PROVE MemberInv
  OBVIOUS
<1> QED
  BY NoJobType DEF Init, MemberInv, TypeOK, LoadedExists, DecisionsStick, Points

\* A step that only fills, moves on or empties a slot, or touches what the
\* history does not depend on, keeps DecisionsStick.
LEMMA StickKept ==
  ASSUME DecisionsStick, UNCHANGED decided,
         \A m \in Members :
           /\ member'[m] = NoDoc <=> member[m] = NoDoc
           /\ member[m] # NoDoc => /\ member'[m].status = member[m].status
                                  /\ member'[m].kyc = member[m].kyc
  PROVE  DecisionsStick'
BY DEF DecisionsStick

\* No step but CreateMember, UpdateProfile and SaveMember writes a document.
LEMMA StickUnchanged ==
  ASSUME DecisionsStick, UNCHANGED <<member, decided>>
  PROVE  DecisionsStick'
BY DEF DecisionsStick

\* MemberInv is preserved by the events of Kafka and Redis.
LEMMA ArrivalsKeep ==
  ASSUME MemberInv, NEW m \in Members, Register(m) \/ CreateMember(m) \/ CacheExpires(m)
  PROVE  MemberInv'
<1> USE DEF MemberInv
<1>1. CASE Register(m)
  <2>1. Registered(m) \in Events
    BY DEF Events
  <2>2. TypeOK' /\ LoadedExists'
    BY <1>1, <2>1 DEF Register, TypeOK, LoadedExists, Who
  <2> QED
    BY <1>1, <2>2, StickUnchanged DEF Register
<1>2. CASE CreateMember(m)
  <2>1. NewMember.status = "active" /\ NewMember.kyc = "pending"
    BY DEF NewMember
  <2>2. [status |-> "active", kyc |-> "pending"] \in Trader
    BY DEF Trader, Statuses, KycStatuses
  <2>3. NewMember # NoDoc
    BY NewMemberType, MemberAssumption
  <2>4. TypeOK'
    BY <1>2, <2>2, NewMemberType DEF CreateMember, TypeOK
  <2>5. LoadedExists'
    <3>1. \A k \in Members : member[k] # NoDoc => member'[k] # NoDoc
      BY <1>2, <2>3 DEF CreateMember, TypeOK
    <3>2. UNCHANGED <<at, job>> /\ \A w \in Workers : job[w].who \in Members
      BY <1>2 DEF CreateMember, TypeOK, Job
    <3> QED
      BY <3>1, <3>2 DEF LoadedExists, Who
  <2>6. DecisionsStick'
    BY <1>2, <2>1, <2>3 DEF CreateMember, TypeOK, DecisionsStick
  <2> QED
    BY <2>4, <2>5, <2>6
<1>3. CASE CacheExpires(m)
  <2>1. TypeOK' /\ LoadedExists'
    BY <1>3 DEF CacheExpires, TypeOK, LoadedExists, Who
  <2> QED
    BY <1>3, <2>1, StickUnchanged DEF CacheExpires
<1> QED
  BY <1>1, <1>2, <1>3

\* ... and by the requests that arrive.
LEMMA RequestsKeep ==
  ASSUME MemberInv, NEW w \in Workers, NEW m \in Members, Arrive(w, m)
  PROVE  MemberInv'
<1> USE DEF MemberInv
<1>0. {"get", "update", "suspend", "unsuspend", "kyc"} \subseteq Ops
      /\ {"find", "evict", "save"} \subseteq Points /\ "pending" \in KycStatuses
  BY DEF Ops, StatusOps, Points, KycStatuses
<1>1. CASE GetProfile(w, m)
  <2>1. at' \in [Workers -> Points] /\ job' \in [Workers -> Job]
    BY <1>0, <1>1, SlotTypes DEF GetProfile
  <2>2. TypeOK'
    BY <1>1, <2>1 DEF GetProfile, TypeOK
  <2>3. LoadedExists'
    BY <1>1 DEF GetProfile, Start, TypeOK, LoadedExists, Who
  <2> QED
    BY <1>1, <2>2, <2>3, StickUnchanged DEF GetProfile
<1>2. ASSUME NEW n \in Names, UpdateProfile(w, m, n)
      PROVE  MemberInv'
  <2>1. member[m] \in Member /\ member[m] # NoDoc
    BY <1>2 DEF UpdateProfile, TypeOK
  <2>2. at' \in [Workers -> Points] /\ job' \in [Workers -> Job]
    BY <1>0, <1>2, SlotTypes DEF UpdateProfile
  <2>3. member' = [member EXCEPT ![m] = [member[m] EXCEPT !.name = n]]
    BY <1>2 DEF UpdateProfile
  <2>4. /\ [member[m] EXCEPT !.name = n] \in Member
        /\ [member[m] EXCEPT !.name = n].status = member[m].status
        /\ [member[m] EXCEPT !.name = n].kyc = member[m].kyc
    BY <2>1 DEF Member
  <2>5. [member[m] EXCEPT !.name = n] # NoDoc
    BY <2>4, MemberAssumption
  <2>6. TypeOK'
    BY <1>2, <2>2, <2>3, <2>4 DEF UpdateProfile, TypeOK
  <2>7. LoadedExists'
    BY <1>2, <2>3, <2>5 DEF UpdateProfile, Start, TypeOK, LoadedExists, Who
  <2>8. DecisionsStick'
    <3>1. UNCHANGED decided
      BY <1>2 DEF UpdateProfile
    <3>2. \A k \in Members :
            /\ member'[k] = NoDoc <=> member[k] = NoDoc
            /\ member[k] # NoDoc => /\ member'[k].status = member[k].status
                                   /\ member'[k].kyc = member[k].kyc
      BY <2>1, <2>3, <2>4, <2>5 DEF TypeOK
    <3> QED
      BY <3>1, <3>2, StickKept
  <2> QED
    BY <2>6, <2>7, <2>8
<1>3. ASSUME NEW op \in StatusOps, DecideStatus(w, op, m)
      PROVE  MemberInv'
  <2>1. op \in Ops /\ member[m] \in Member \cup {NoDoc}
    BY DEF Ops, TypeOK
  <2>2. at' \in [Workers -> Points] /\ job' \in [Workers -> Job]
    BY <1>0, <1>3, <2>1, SlotTypes DEF DecideStatus
  <2>3. TypeOK'
    BY <1>3, <2>2 DEF DecideStatus, TypeOK
  <2>4. LoadedExists'
    BY <1>3 DEF DecideStatus, Start, TypeOK, LoadedExists, Who
  <2> QED
    BY <1>3, <2>3, <2>4, StickUnchanged DEF DecideStatus
<1>4. ASSUME NEW s \in Verdicts, DecideKyc(w, m, s)
      PROVE  MemberInv'
  <2>1. s \in KycStatuses /\ member[m] \in Member \cup {NoDoc}
    BY MemberAssumption DEF KycStatuses, TypeOK
  <2>2. at' \in [Workers -> Points] /\ job' \in [Workers -> Job]
    BY <1>0, <1>4, <2>1, SlotTypes DEF DecideKyc
  <2>3. TypeOK'
    BY <1>4, <2>2 DEF DecideKyc, TypeOK
  <2>4. LoadedExists'
    BY <1>4 DEF DecideKyc, Start, TypeOK, LoadedExists, Who
  <2> QED
    BY <1>4, <2>3, <2>4, StickUnchanged DEF DecideKyc
<1> QED
  BY <1>1, <1>2, <1>3, <1>4 DEF Arrive

\* ... by every further step of a request.
LEMMA StepsKeep ==
  ASSUME MemberInv, NEW w \in Workers, Proceed(w) \/ Abort(w)
  PROVE  MemberInv'
<1> USE DEF MemberInv
<1>0. /\ "fill" \in Points /\ "evict" \in Points /\ "emit" \in Points
      /\ Who(w) \in Members /\ job[w].kyc \in KycStatuses
      /\ job[w].seen \in Member \cup {NoDoc}
  BY SlotTypes DEF Points
<1>1. CASE FindMember(w)
  <2>1. member[Who(w)] \in Member \cup {NoDoc}
    BY <1>0 DEF TypeOK
  <2>2. at' \in [Workers -> Points] /\ job' \in [Workers -> Job]
    BY <1>0, <1>1, <2>1, SlotTypes DEF FindMember
  <2>3. TypeOK'
    BY <1>1, <2>2 DEF FindMember, TypeOK
  <2>4. LoadedExists'
    BY <1>1 DEF FindMember, Keep, Finish, TypeOK, LoadedExists, Who
  <2> QED
    BY <1>1, <2>3, <2>4, StickUnchanged DEF FindMember
<1>2. CASE FillCache(w)
  <2>1. cache' \in [Members -> Member \cup {NoDoc}]
    BY <1>0, <1>2 DEF FillCache, TypeOK
  <2>2. at' \in [Workers -> Points] /\ job' \in [Workers -> Job]
    BY <1>2, SlotTypes DEF FillCache
  <2>3. TypeOK'
    BY <1>2, <2>1, <2>2 DEF FillCache, TypeOK
  <2>4. LoadedExists'
    BY <1>2 DEF FillCache, Finish, TypeOK, LoadedExists, Who
  <2> QED
    BY <1>2, <2>3, <2>4, StickUnchanged DEF FillCache
<1>3. CASE SaveMember(w)
  <2> DEFINE m == Who(w)
  <2>1. member[m] \in Member /\ job[w].seen \in Member
    BY <1>0, <1>3 DEF SaveMember, LoadedExists, TypeOK
  <2>2. decided[m] = [status |-> member[m].status, kyc |-> member[m].kyc]
    BY <1>0, <1>3 DEF SaveMember, LoadedExists, DecisionsStick
  <2>3. Decision(w, member[m]) \in Member
    BY <2>1, DecisionTypes
  <2>4. /\ Decision(w, decided[m]) \in Trader
        /\ Decision(w, decided[m]) = [status |-> Decision(w, member[m]).status,
                                     kyc |-> Decision(w, member[m]).kyc]
    BY <2>1, <2>2, DecisionTypes
  <2>5. at' \in [Workers -> Points] /\ job' \in [Workers -> Job]
    BY <1>0, <1>3, SlotTypes DEF SaveMember
  <2>6. member' = [member EXCEPT ![m] = Saved(w)] /\ Saved(w) \in Member
    BY <1>3, <2>1, <2>3 DEF SaveMember, Saved
  <2>7. Saved(w) # NoDoc
    BY <2>6, MemberAssumption
  <2>8. TypeOK'
    BY <1>0, <1>3, <2>4, <2>5, <2>6 DEF SaveMember, TypeOK
  <2>9. LoadedExists'
    BY <1>0, <1>3, <2>6, <2>7 DEF SaveMember, Keep, TypeOK, LoadedExists, Who
  <2>10. DecisionsStick'
    <3>1. CASE Decision(w, job[w].seen) = job[w].seen
      <4>1. UNCHANGED decided /\ \A k \in Members : member'[k] = member[k]
        BY <1>3, <3>1 DEF SaveMember, Saved, TypeOK
      <4> QED
        BY <4>1, StickKept
    <3>2. CASE Decision(w, job[w].seen) # job[w].seen
      <4>1. /\ member' = [member EXCEPT ![m] = Decision(w, member[m])]
            /\ decided' = [decided EXCEPT ![m] = Decision(w, decided[m])]
        BY <1>3, <3>2 DEF SaveMember, Saved
      <4>2. Decision(w, member[m]) # NoDoc
        BY <2>3, MemberAssumption
      <4> QED
        BY <1>0, <2>4, <4>1, <4>2 DEF DecisionsStick, TypeOK
    <3> QED
      BY <3>1, <3>2
  <2> QED
    BY <2>8, <2>9, <2>10
<1>4. CASE EvictCache(w)
  <2>1. cache' \in [Members -> Member \cup {NoDoc}]
    BY <1>4 DEF EvictCache, TypeOK
  <2>2. at' \in [Workers -> Points] /\ job' \in [Workers -> Job]
    BY <1>0, <1>4, SlotTypes DEF EvictCache
  <2>3. TypeOK'
    BY <1>4, <2>1, <2>2 DEF EvictCache, TypeOK
  <2>4. LoadedExists'
    BY <1>4 DEF EvictCache, Goto, Finish, TypeOK, LoadedExists, Who
  <2> QED
    BY <1>4, <2>3, <2>4, StickUnchanged DEF EvictCache
<1>5. CASE EmitEvent(w)
  <2>1. topics' \subseteq Events
    BY <1>0, <1>5 DEF EmitEvent, TypeOK, Events
  <2>2. at' \in [Workers -> Points] /\ job' \in [Workers -> Job]
    BY <1>5, SlotTypes DEF EmitEvent
  <2>3. TypeOK'
    BY <1>5, <2>1, <2>2 DEF EmitEvent, TypeOK
  <2>4. LoadedExists'
    BY <1>5 DEF EmitEvent, Finish, TypeOK, LoadedExists, Who
  <2> QED
    BY <1>5, <2>3, <2>4, StickUnchanged DEF EmitEvent
<1>6. CASE Abort(w)
  <2>1. at' \in [Workers -> Points] /\ job' \in [Workers -> Job]
    BY <1>6, SlotTypes DEF Abort
  <2>2. TypeOK'
    BY <1>6, <2>1 DEF Abort, TypeOK
  <2>3. LoadedExists'
    BY <1>6 DEF Abort, Finish, TypeOK, LoadedExists, Who
  <2> QED
    BY <1>6, <2>2, <2>3, StickUnchanged DEF Abort
<1> QED
  BY <1>1, <1>2, <1>3, <1>4, <1>5, <1>6 DEF Proceed

\* ... and by the trading-service.
LEMMA ConsumerKeeps ==
  ASSUME MemberInv, NEW e \in topics, ConsumeEvent(e)
  PROVE  MemberInv'
<1> USE DEF MemberInv
<1>1. trader' \in [Members -> Trader \cup {NoDoc}]
  BY ConsumeTypes DEF ConsumeEvent
<1>2. TypeOK' /\ LoadedExists'
  BY <1>1 DEF ConsumeEvent, TypeOK, LoadedExists, Who
<1> QED
  BY <1>2, StickUnchanged DEF ConsumeEvent

\* MemberInv holds in every reachable state.
THEOREM Inductive == Spec => []MemberInv
<1>1. MemberInv /\ [Next]_vars => MemberInv'
  <2> SUFFICES ASSUME MemberInv, [Next]_vars PROVE MemberInv'
    OBVIOUS
  <2>1. CASE Next
    BY <2>1, ArrivalsKeep, RequestsKeep, StepsKeep, ConsumerKeeps DEF Next
  <2>2. CASE UNCHANGED vars
    BY <2>2 DEF vars, MemberInv, TypeOK, LoadedExists, DecisionsStick, Who
  <2> QED
    BY <2>1, <2>2
<1> QED
  BY <1>1, InitInv, PTL DEF Spec

\* Documents, cache entries, read models and events keep their types.
THEOREM MemberTypes == Spec => []TypeOK
BY Inductive, PTL DEF MemberInv

\* The decisions of the CMS stick: with any number of agents, edits and
\* redelivered registrations, a member's status and KYC status are the ones
\* last decided.
THEOREM DecisionsLast == Spec => []DecisionsStick
BY Inductive, PTL DEF MemberInv

=============================================================================
