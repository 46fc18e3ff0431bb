---------------------------- MODULE MemberService ----------------------------
(***************************************************************************)
(* The member module of the user-service: profile reads through the Redis  *)
(* cache, profile edits, and the CMS decisions on a member's status and    *)
(* KYC, one step per awaited call; together with the events it publishes   *)
(* and the Trader read model that the trading-service builds from them.    *)
(*                                                                         *)
(* A member document is its status, its KYC status and one profile field.  *)
(* Kafka delivers each event at least once to each consumer group, in any  *)
(* order: the topics differ, and the events carry no key.                  *)
(***************************************************************************)
EXTENDS Naturals

CONSTANTS
  Members,
  Workers,        \* HTTP requests in flight at one time
  Names,          \* values of the profile field a member may edit
  Verdicts,       \* KYC statuses an agent may set
  NoDoc,          \* no document, no cache entry
  CacheMayFail,   \* may a Redis call fail? (it is logged and ignored)
  StepsMayFail    \* may a database call throw, or a request die half-way?

Statuses == {"active", "suspended"}
KycStatuses == {"pending", "approved", "rejected"}

Trader == [status : Statuses, kyc : KycStatuses]
Member == [status : Statuses, kyc : KycStatuses, name : Names]

ASSUME MemberAssumption ==
  /\ Members # {} /\ Names # {} /\ Verdicts \subseteq {"approved", "rejected"}
  /\ NoDoc \notin Member \cup Trader
  /\ {CacheMayFail, StepsMayFail} \subseteq BOOLEAN

VARIABLES
  member,    \* member[m]: document in the users database
  cache,     \* cache[m]: entry cache:member:{m} in Redis
  trader,    \* trader[m]: document in the trading database
  joining,   \* members whose member.registered the user-service has not committed
  topics,    \* events the trading-service has not committed
  at,        \* at[w]: the call request w is about to make
  job,       \* job[w]: its operation, member, the document it loaded, its input
  decided    \* history: the status and KYC status last written by a decision

vars == <<member, cache, trader, joining, topics, at, job, decided>>

-----------------------------------------------------------------------------
(* Requests and events.                                                    *)

StatusOps == {"suspend", "unsuspend"}
Ops == StatusOps \cup {"get", "update", "kyc"}
Points == {"idle", "find", "fill", "save", "evict", "emit"}

Job == [op : Ops, who : Members, seen : Member \cup {NoDoc}, kyc : KycStatuses]
NoJob == [op |-> "get", who |-> CHOOSE m \in Members : TRUE, seen |-> NoDoc,
          kyc |-> "pending"]

Op(w) == job[w].op
Who(w) == job[w].who
Busy(w) == at[w] # "idle"

\* The payloads published: member-events.service names the member "userId".
Registered(m) == [topic |-> "member.registered", payload |-> [userId |-> m]]
Suspended(m) == [topic |-> "member.suspended", payload |-> [userId |-> m]]
Activated(m) == [topic |-> "member.activated", payload |-> [userId |-> m]]
KycUpdated(m, s) ==
  [topic |-> "member.kyc.updated", payload |-> [userId |-> m, kycStatus |-> s]]

Events ==
  {Registered(m) : m \in Members} \cup {Suspended(m) : m \in Members}
    \cup {Activated(m) : m \in Members}
    \cup {KycUpdated(m, s) : m \in Members, s \in KycStatuses}

Init ==
  /\ member = [m \in Members |-> NoDoc]
  /\ cache = [m \in Members |-> NoDoc]
  /\ trader = [m \in Members |-> NoDoc]
  /\ joining = {} /\ topics = {}
  /\ at = [w \in Workers |-> "idle"]
  /\ job = [w \in Workers |-> NoJob]
  /\ decided = [m \in Members |-> NoDoc]

\* A request takes slot w; after its first call, which gave it the document
\* doc, it is about to make the call p.
Start(w, op, m, doc, kyc, p) ==
  /\ ~Busy(w)
  /\ job' = [job EXCEPT ![w] = [op |-> op, who |-> m, seen |-> doc, kyc |-> kyc]]
  /\ at' = [at EXCEPT ![w] = p]

Goto(w, p) == at' = [at EXCEPT ![w] = p] /\ UNCHANGED job

\* Keep the document doc and go on to p.
Keep(w, doc, p) ==
  /\ job' = [job EXCEPT ![w] = [op |-> Op(w), who |-> Who(w), seen |-> doc,
                                kyc |-> job[w].kyc]]
  /\ at' = [at EXCEPT ![w] = p]

Finish(w) ==
  /\ at' = [at EXCEPT ![w] = "idle"]
  /\ job' = [job EXCEPT ![w] = NoJob]

-----------------------------------------------------------------------------
(* Registration.                                                           *)

\* auth-service: setPassword publishes member.registered, again each time it
\* is repeated.
Register(m) ==
  /\ joining' = joining \cup {m}
  /\ topics' = topics \cup {Registered(m)}
  /\ UNCHANGED <<member, cache, trader, at, job, decided>>

NewMember == [status |-> "active", kyc |-> "pending", name |-> CHOOSE n \in Names : TRUE]

\* MemberRegisteredConsumer: insert, where a duplicate key is swallowed; the
\* offset may not be committed afterwards.  Any other error is rethrown and
\* the event delivered again.
CreateMember(m) ==
  /\ m \in joining
  /\ IF member[m] = NoDoc
     THEN /\ member' = [member EXCEPT ![m] = NewMember]
          /\ decided' = [decided EXCEPT ![m] = [status |-> "active", kyc |-> "pending"]]
     ELSE UNCHANGED <<member, decided>>
  /\ \E done \in BOOLEAN : joining' = IF done THEN joining \ {m} ELSE joining
  /\ UNCHANGED <<cache, trader, topics, at, job>>

-----------------------------------------------------------------------------
(* Reading a profile through the cache.                                    *)

\* A hit answers the request; a miss, or a Redis error, goes to the database.
GetProfile(w, m) ==
  /\ cache[m] = NoDoc \/ CacheMayFail
  /\ Start(w, "get", m, NoDoc, "pending", "find")
  /\ UNCHANGED <<member, cache, trader, joining, topics, decided>>

FindMember(w) ==
  /\ at[w] = "find"
  /\ IF member[Who(w)] = NoDoc THEN Finish(w) ELSE Keep(w, member[Who(w)], "fill")
  /\ UNCHANGED <<member, cache, trader, joining, topics, decided>>

FillCache(w) ==
  /\ at[w] = "fill"
  /\ \/ cache' = [cache EXCEPT ![Who(w)] = job[w].seen]
     \/ CacheMayFail /\ UNCHANGED cache
  /\ Finish(w)
  /\ UNCHANGED <<member, trader, joining, topics, decided>>

\* Mutant: SET without EX.
NeverExpires(m) == FALSE

\* The TTL of 300 seconds elapses.
CacheExpires(m) ==
  /\ cache[m] # NoDoc
  /\ cache' = [cache EXCEPT ![m] = NoDoc]
  /\ UNCHANGED <<member, trader, joining, topics, at, job, decided>>

-----------------------------------------------------------------------------
(* Editing a member.                                                       *)

\* One findByIdAndUpdate, then the cache entry is deleted.
UpdateProfile(w, m, n) ==
  /\ member[m] # NoDoc
  /\ Start(w, "update", m, NoDoc, "pending", "evict")
  /\ member' = [member EXCEPT ![m].name = n]
  /\ UNCHANGED <<cache, trader, joining, topics, decided>>

\* findById, then the refusals: no member, already suspended, not suspended.
DecideStatus(w, op, m) ==
  /\ member[m] # NoDoc
  /\ member[m].status = "suspended" <=> op = "unsuspend"
  /\ Start(w, op, m, member[m], "pending", "save")
  /\ UNCHANGED <<member, cache, trader, joining, topics, decided>>

DecideKyc(w, m, s) ==
  /\ member[m] # NoDoc
  /\ Start(w, "kyc", m, member[m], s, "save")
  /\ UNCHANGED <<member, cache, trader, joining, topics, decided>>

\* What a decision makes of a document.
Decision(w, doc) ==
  CASE Op(w) = "suspend" -> [doc EXCEPT !.status = "suspended"]
    [] Op(w) = "unsuspend" -> [doc EXCEPT !.status = "active"]
    [] OTHER -> [doc EXCEPT !.kyc = job[w].kyc]

\* Mutant: the whole document is written back as it was loaded and changed.
SavedWhole(w) == Decision(w, job[w].seen)

\* save writes the fields that differ from the loaded document and no others:
\* a KYC decision equal to the one that was loaded writes nothing.
Saved(w) ==
  IF Decision(w, job[w].seen) = job[w].seen THEN member[Who(w)]
  ELSE Decision(w, member[Who(w)])

SaveMember(w) ==
  /\ at[w] = "save"
  /\ member' = [member EXCEPT ![Who(w)] = Saved(w)]
  /\ decided' = IF Decision(w, job[w].seen) = job[w].seen THEN decided
                ELSE [decided EXCEPT ![Who(w)] = Decision(w, decided[Who(w)])]
  /\ Keep(w, NoDoc, "evict")
  /\ UNCHANGED <<cache, trader, joining, topics>>

EvictCache(w) ==
  /\ at[w] = "evict"
  /\ \/ cache' = [cache EXCEPT ![Who(w)] = NoDoc]
     \/ CacheMayFail /\ UNCHANGED cache
  /\ IF Op(w) = "update" THEN Finish(w) ELSE Goto(w, "emit")
  /\ UNCHANGED <<member, trader, joining, topics, decided>>

EmitEvent(w) ==
  /\ at[w] = "emit"
  /\ topics' = topics \cup
       {CASE Op(w) = "suspend" -> Suspended(Who(w))
          [] Op(w) = "unsuspend" -> Activated(Who(w))
          [] OTHER -> KycUpdated(Who(w), job[w].kyc)}
  /\ Finish(w)
  /\ UNCHANGED <<member, cache, trader, joining, decided>>

\* A database call throws, or the process dies between two calls.
Abort(w) ==
  /\ StepsMayFail
  /\ Busy(w)
  /\ Finish(w)
  /\ UNCHANGED <<member, cache, trader, joining, topics, decided>>

-----------------------------------------------------------------------------
(* The Trader read model of the trading-service.                           *)

\* The handlers of suspensions, activations and KYC updates look for the
\* member in the field "memberId"; without it, new ObjectId(undefined) is a
\* fresh id that no trader has.
Addressee(e) == {e.payload[f] : f \in {"memberId"} \cap DOMAIN e.payload}

\* updateStatus and updateKycStatus: findByIdAndUpdate, without upsert.
Mirrored(e) ==
  [m \in Members |->
     IF m \notin Addressee(e) \/ trader[m] = NoDoc THEN trader[m]
     ELSE CASE e.topic = "member.suspended" -> [trader[m] EXCEPT !.status = "suspended"]
            [] e.topic = "member.activated" -> [trader[m] EXCEPT !.status = "active"]
            [] OTHER -> [trader[m] EXCEPT !.kyc = e.payload.kycStatus]]

\* Mutant: the handler of member.registered reads the field it is not sent.
UpsertMissed(e) ==
  [m \in Members |->
     IF m \in Addressee(e) THEN [status |-> "active", kyc |-> "pending"] ELSE trader[m]]

\* upsertFromRegistration resets status and KYC, however old the trader is.
Upserted(e) ==
  [trader EXCEPT ![e.payload.userId] = [status |-> "active", kyc |-> "pending"]]

ConsumeEvent(e) ==
  /\ e \in topics
  /\ trader' = IF e.topic = "member.registered" THEN Upserted(e) ELSE Mirrored(e)
  /\ \E done \in BOOLEAN : topics' = IF done THEN topics \ {e} ELSE topics
  /\ UNCHANGED <<member, cache, joining, at, job, decided>>

-----------------------------------------------------------------------------
Arrive(w, m) ==
  \/ GetProfile(w, m)
  \/ \E n \in Names : UpdateProfile(w, m, n)
  \/ \E op \in StatusOps : DecideStatus(w, op, m)
  \/ \E s \in Verdicts : DecideKyc(w, m, s)

Proceed(w) ==
  \/ FindMember(w) \/ FillCache(w)
  \/ SaveMember(w) \/ EvictCache(w) \/ EmitEvent(w)

Next ==
  \/ \E m \in Members : Register(m) \/ CreateMember(m) \/ CacheExpires(m)
  \/ \E w \in Workers, m \in Members : Arrive(w, m)
  \/ \E w \in Workers : Proceed(w) \/ Abort(w)
  \/ \E e \in topics : ConsumeEvent(e)

Spec == Init /\ [][Next]_vars

\* Requests keep running, the TTL keeps counting, and Kafka delivers what was
\* not committed (no property needs that of the events other than
\* member.registered).
FairSpec ==
  /\ Spec
  /\ \A w \in Workers : WF_vars(Proceed(w))
  /\ \A m \in Members :
       /\ WF_vars(CacheExpires(m))
       /\ WF_vars(CreateMember(m))
       /\ WF_vars(ConsumeEvent(Registered(m)))

-----------------------------------------------------------------------------
(* Properties.                                                             *)

\* Every variable keeps its type.
TypeOK ==
  /\ member \in [Members -> Member \cup {NoDoc}]
  /\ cache \in [Members -> Member \cup {NoDoc}]
  /\ trader \in [Members -> Trader \cup {NoDoc}]
  /\ joining \subseteq Members /\ topics \subseteq Events
  /\ at \in [Workers -> Points]
  /\ job \in [Workers -> Job]
  /\ decided \in [Members -> Trader \cup {NoDoc}]

\* What the CMS decided last about a member stays: neither a decision on the
\* other field loaded before it and saved after it, nor an edit of the
\* profile, nor a registration delivered again undoes it.
DecisionsStick ==
  \A m \in Members :
    IF member[m] = NoDoc THEN decided[m] = NoDoc
    ELSE decided[m] = [status |-> member[m].status, kyc |-> member[m].kyc]

\* What makes DecisionsStick inductive: a request past its load works on a
\* document that exists.
LoadedExists ==
  \A w \in Workers :
    at[w] \in {"fill", "save"} => job[w].seen # NoDoc /\ member[Who(w)] # NoDoc

\* From some time on nobody writes to a member.
NoMoreWrites == <>[][UNCHANGED member]_vars

\* "Redis is a performance layer, not a correctness layer": a cached profile
\* may be stale, filled by a read that a write overtook or left by a delete
\* that failed, but once writes stop every cached profile is the member's.
CacheConverges ==
  NoMoreWrites => <>[](\A m \in Members : cache[m] \in {NoDoc, member[m]})

\* An activated account becomes a member and a trader, whatever is delivered
\* twice.
EveryoneKnown ==
  \A m \in Members : m \in joining ~> (member[m] # NoDoc /\ trader[m] # NoDoc)

\* Nothing about m is under way.
Settled(m) ==
  /\ \A w \in Workers : Busy(w) => Who(w) # m
  /\ \A e \in topics : e.payload.userId # m
  /\ m \notin joining

\* "Kept in sync via Kafka events": when nothing is under way, the trading-
\* service knows a member by the status and KYC status the member has.
TraderInSync ==
  \A m \in Members :
    Settled(m) /\ trader[m] # NoDoc =>
      trader[m] = [status |-> member[m].status, kyc |-> member[m].kyc]

=============================================================================
