----------------------------- MODULE ApiGateway -----------------------------
(***************************************************************************)
(* One operation of one client through the api-gateway: the gateway's      *)
(* guards, the proxy that forwards the request to a service and waits with *)
(* a time-out, the service's guards, handler and exception filter, and the *)
(* way back.  The client may try again after any answer but success.       *)
(*                                                                         *)
(* A handler is reduced to whether the operation took place and what the   *)
(* handler returned or threw; the other modules say what handlers do.      *)
(* Requests of other clients share only the throttler's storage, under     *)
(* keys of their own.                                                      *)
(***************************************************************************)
EXTENDS Naturals

CONSTANTS
  MaxTries,      \* bounds the attempts of the client
  DefaultLimit,  \* THROTTLE_LIMIT
  AuthLimit      \* limit of the throttler named "auth"

\* What the constants may be; modules that instantiate this one assume it.
GatewayAssumption ==
  MaxTries \in Nat \ {0} /\ DefaultLimit \in Nat \ {0} /\ AuthLimit \in Nat \ {0}

Roles == {"member", "analyst", "support_agent", "administrator"}
Staff == Roles \ {"member"}

\* The sets of roles that the guards of a service's routes let in; a route
\* without a guard takes all that the gateway lets through.
AuthRoles == {Staff, {"administrator"}}
UserRoles == {Roles, Staff, {"administrator", "support_agent"}, {"administrator"}}
WalletRoles == {Roles, {"administrator", "support_agent"}, {"administrator"}}
TradingRoles == {Roles, {"administrator", "analyst"}}

\* The routes that the gateway forwards, as far as guards, time-outs and
\* answers tell them apart: the service, whether the gateway asks for no token,
\* the roles let in, and whether the handler is quiet: asked for an OTP of an
\* e-mail address that nobody has, it answers success and does nothing.
PublicRoutes == [service : {"auth"}, public : {TRUE}, who : {Roles}, quiet : BOOLEAN]
StaffRoutes == [service : {"auth"}, public : {FALSE}, who : AuthRoles, quiet : {FALSE}]
UserRoutes == [service : {"user"}, public : {FALSE}, who : UserRoles, quiet : {FALSE}]
WalletRoutes == [service : {"wallet"}, public : {FALSE}, who : WalletRoles, quiet : {FALSE}]
TradingRoutes == [service : {"trading"}, public : {FALSE}, who : TradingRoles, quiet : {FALSE}]

\* The withdrawal summary, the negative balances and a member's history are
\* forwarded to paths that the wallet-service does not have; so are a rejection,
\* whose path has a double slash, and the public webhook of Stripe, whose path
\* lacks the prefix api/v1 that main.ts puts before every path of the service.
Misrouted == [service : {"wallet"}, public : BOOLEAN, who : {{}}, quiet : {FALSE}]

Routes == PublicRoutes \cup StaffRoutes \cup UserRoutes \cup WalletRoutes
            \cup TradingRoutes \cup Misrouted

Tries == 1 .. MaxTries

VARIABLES
  route, role,   \* the operation, and the role in the client's token
  hits,          \* requests counted in the throttler's window
  phase,         \* phase[t]: "new", "arrived", "forwarded" or "answered"
  status,        \* status[t]: the status the client got; 0 before
  work,          \* work[t]: "none", "queued", "running" or "over" in the service
  reply,         \* reply[t]: the status the service sent; 0 if none, or if it died
  done           \* done[t]: has this attempt carried the operation out?

vars == <<route, role, hits, phase, status, work, reply, done>>

Init ==
  /\ route \in Routes /\ role \in Roles
  /\ hits = 0
  /\ phase = [t \in Tries |-> "new"]
  /\ status = [t \in Tries |-> 0]
  /\ work = [t \in Tries |-> "none"]
  /\ reply = [t \in Tries |-> 0]
  /\ done = [t \in Tries |-> FALSE]

-----------------------------------------------------------------------------
(* The client and the gateway's guards, in their order.                    *)

Send(t) ==
  /\ phase[t] = "new"
  /\ t > 1 => phase[t - 1] = "answered" /\ status[t - 1] # 200
  /\ phase' = [phase EXCEPT ![t] = "arrived"]
  /\ UNCHANGED <<route, role, hits, status, work, reply, done>>

Answer(t, code) ==
  /\ phase' = [phase EXCEPT ![t] = "answered"]
  /\ status' = [status EXCEPT ![t] = code]
  /\ UNCHANGED <<route, role, work, reply, done>>

\* Both throttlers apply to every route.
Throttled == hits >= DefaultLimit \/ hits >= AuthLimit

Throttle(t) ==
  /\ phase[t] = "arrived" /\ Throttled
  /\ Answer(t, 429)
  /\ UNCHANGED hits

WindowEnds ==
  /\ hits > 0
  /\ hits' = 0
  /\ UNCHANGED <<route, role, phase, status, work, reply, done>>

\* Without a token, or with one that expired.
Unauthenticated(t) ==
  /\ phase[t] = "arrived" /\ ~Throttled
  /\ ~route.public
  /\ hits' = hits + 1
  /\ Answer(t, 401)

\* No route of the gateway asks its RolesGuard for a role.
Forward(t) ==
  /\ phase[t] = "arrived" /\ ~Throttled
  /\ hits' = hits + 1
  /\ phase' = [phase EXCEPT ![t] = "forwarded"]
  /\ work' = [work EXCEPT ![t] = "queued"]
  /\ UNCHANGED <<route, role, status, reply, done>>

-----------------------------------------------------------------------------
(* The service, which goes on whatever becomes of the gateway's call.      *)

Reply(t, code, outcome) ==
  /\ work' = [work EXCEPT ![t] = "over"]
  /\ reply' = [reply EXCEPT ![t] = code]
  /\ done' = [done EXCEPT ![t] = outcome]
  /\ UNCHANGED <<route, role, hits, phase, status>>

\* The status of the router or of CmsJwtAuthGuard and RolesGuard; 0 lets pass.
Refusal ==
  CASE route.who = {} -> 404
    [] role \in route.who \/ route.public -> 0
    [] role \notin Staff -> 401
    [] OTHER -> 403

Refuse(t) ==
  /\ work[t] = "queued" /\ Refusal # 0
  /\ Reply(t, Refusal, FALSE)

Enter(t) ==
  /\ work[t] = "queued" /\ Refusal = 0
  /\ work' = [work EXCEPT ![t] = "running"]
  /\ UNCHANGED <<route, role, hits, phase, status, reply, done>>

\* The handler returns.
Succeed(t) ==
  /\ work[t] = "running"
  /\ \E outcome \in BOOLEAN :
       /\ outcome \/ route.quiet
       /\ Reply(t, 200, outcome)

\* What handlers throw: a refusal of their own, errors of mongoose, or that a
\* wallet is locked or its service refused or failed.
Exceptions == {"refused", "validation", "cast", "duplicate", "database", "other", "unavailable"}

MayThrow(exception) ==
  exception = "unavailable" => route.service \in {"wallet", "trading"}

\* Can it be thrown once the operation took place?  Refusals come first, and so
\* do the documents that are made from a request.  What is written afterwards,
\* like the transaction of an adjustment whose balance is set already, has
\* fields and a fresh key of the service's own making, to which Mongoose and the
\* unique indexes have no objection; but for the position of a buy that is
\* already paid, whose upsert may meet that of another.
Late(exception) ==
  \/ exception \in {"database", "other", "unavailable"}
  \/ exception = "duplicate" /\ route.service = "trading"

\* The exception filters of the auth-service and of the user- and the
\* wallet-service; the trading-service has none, and NestJS answers 500.
AuthStatus(exception) ==
  CASE exception = "validation" -> 422
    [] exception = "cast" -> 400
    [] exception = "duplicate" -> 409
    [] OTHER -> 500

OtherStatus(exception) ==
  CASE exception \in {"validation", "cast"} -> 400
    [] exception = "duplicate" -> 409
    [] OTHER -> 500

\* Mutant: the trading-service registers the filter of the others.
StatusWithFilter(service, exception) ==
  CASE exception = "refused" -> 400
    [] exception = "unavailable" -> 503
    [] OTHER -> OtherStatus(exception)

StatusOf(service, exception) ==
  CASE exception = "refused" -> 400
    [] exception = "unavailable" -> 503
    [] service = "auth" -> AuthStatus(exception)
    [] service \in {"user", "wallet"} -> OtherStatus(exception)
    [] OTHER -> 500

Throw(t, exception) ==
  /\ work[t] = "running" /\ MayThrow(exception)
  /\ \E outcome \in BOOLEAN :
       /\ outcome => Late(exception)
       /\ Reply(t, StatusOf(route.service, exception), outcome)

\* The service cannot be reached, or dies.
Die(t) ==
  /\ work[t] \in {"queued", "running"}
  /\ \E outcome \in BOOLEAN :
       /\ outcome => work[t] = "running"
       /\ Reply(t, 0, outcome)

-----------------------------------------------------------------------------
(* The way back.                                                           *)

\* The gateway's filter keeps the status of the service's answer; without an
\* answer the service is "unavailable".
Respond(t) ==
  /\ phase[t] = "forwarded" /\ work[t] = "over"
  /\ Answer(t, IF reply[t] = 0 THEN 500 ELSE reply[t])
  /\ UNCHANGED hits

\* Mutant: only calls of the trading-service have a time-out.
TradingTimeout(t) ==
  /\ phase[t] = "forwarded" /\ route.service = "trading"
  /\ Answer(t, 500)
  /\ UNCHANGED hits

\* Axios gives up after 10 s, for the trading-service after 30 s.
ProxyTimeout(t) ==
  /\ phase[t] = "forwarded"
  /\ Answer(t, 500)
  /\ UNCHANGED hits

\* TimeoutInterceptor gives up after 30 s, which only a call of the
\* trading-service can take.
GatewayTimeout(t) ==
  /\ phase[t] = "forwarded" /\ route.service = "trading"
  /\ Answer(t, 408)
  /\ UNCHANGED hits

Next ==
  \/ WindowEnds
  \/ \E t \in Tries :
       \/ Send(t) \/ Throttle(t) \/ Unauthenticated(t) \/ Forward(t)
       \/ Refuse(t) \/ Enter(t) \/ Succeed(t) \/ Die(t)
       \/ \E exception \in Exceptions : Throw(t, exception)
       \/ Respond(t) \/ ProxyTimeout(t) \/ GatewayTimeout(t)

\* The gateway's event loop runs its guards and its timers.  Nothing says that
\* a handler ever returns.
Fairness ==
  \A t \in Tries :
    /\ WF_vars(Throttle(t) \/ Unauthenticated(t) \/ Forward(t))
    /\ WF_vars(ProxyTimeout(t)) /\ WF_vars(GatewayTimeout(t))

Spec == Init /\ [][Next]_vars
FairSpec == Spec /\ Fairness

-----------------------------------------------------------------------------

TypeOK ==
  /\ route \in Routes /\ role \in Roles /\ hits \in 0 .. MaxTries
  /\ phase \in [Tries -> {"new", "arrived", "forwarded", "answered"}]
  /\ status \in [Tries -> 0 .. 503] /\ reply \in [Tries -> 0 .. 503]
  /\ work \in [Tries -> {"none", "queued", "running", "over"}]
  /\ done \in [Tries -> BOOLEAN]

\* What a client may conclude from an answer that is no success, whatever timed
\* out on the way: after a refusal (a 4xx but 408) the attempt has not carried
\* the operation out and never will; only a time-out or a 5xx leaves it in
\* doubt.  So a client that stops at a clear answer has the operation done twice
\* only if an attempt left it in doubt.  That success means done is no promise
\* of this edge: it is for each handler to keep, and quiet ones do not.
Refused(code) == code \in 400 .. 499 /\ code # 408

RefusalsFinal ==
  \A t \in Tries :
    /\ Refused(status[t]) => ~done[t] /\ work[t] \in {"none", "over"}
    /\ \A u \in Tries : t < u /\ done[t] /\ done[u] => status[t] = 408 \/ status[t] >= 500

\* Every request is answered, though services may hang, die, or answer late.
EveryRequestAnswered ==
  \A t \in Tries : phase[t] = "arrived" ~> phase[t] = "answered"
=============================================================================
