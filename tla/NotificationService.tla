------------------------ MODULE NotificationService ------------------------
(***************************************************************************)
(* The notification-service: ProcessorService.process, reached from every  *)
(* Kafka consumer, with the retry loop, the notification log and the Redis *)
(* idempotency marks it uses, one step per awaited call.                   *)
(*                                                                         *)
(* Kafka delivers an event again when the offset was not committed: after  *)
(* a crash, or to another consumer when a handler outlasts its session (a  *)
(* retry sleeps 10 to 300 seconds).                                        *)
(***************************************************************************)
EXTENDS Integers

CONSTANTS
  Events,        \* Kafka messages
  Keys,          \* idempotency keys
  Workers,       \* deliveries being handled at one time
  KeyOf,         \* KeyOf[e]: the key the consumer builds for e
  Unrenderable,  \* events whose template throws
  MaxAttempts,   \* RETRY_MAX_ATTEMPTS
  Rebalances,    \* may an event be delivered while it is still being handled?
  StepsMayFail,  \* may a Redis or database call throw, or a sent mail be
                 \* reported as an error?
  MayCrash       \* may a handler die with its process?

ASSUME NotificationAssumption ==
  /\ Events # {}
  /\ KeyOf \in [Events -> Keys]
  /\ Unrenderable \subseteq Events
  /\ MaxAttempts \in Nat \ {0}
  /\ {Rebalances, StepsMayFail, MayCrash} \subseteq BOOLEAN

VARIABLES
  queue,     \* queue[e]: "unpublished", "published" or "done" (committed)
  log,       \* log[k]: status of the notification document, "none" if absent
  marks,     \* keys marked as processed in Redis
  at,        \* at[w]: the call worker w is about to make
  job,       \* job[w]: its event and the attempts that failed so far
  mails,     \* history: mails[k], e-mails sent for key k
  troubled,  \* history: keys for which a call of the send operation threw
             \* after the mail was out
  dropped    \* history: keys of events that were given up: committed without
             \* a log document, or their sender died or threw

ghosts == <<mails, troubled, dropped>>
vars == <<queue, log, marks, at, job, ghosts>>

Final == {"SENT", "FAILED", "DEAD"}
Statuses == Final \cup {"none", "PENDING", "RETRYING"}
Sending == {"send", "markSent", "markProcessed"}
\* Where the worker is the one that created the log document.
Handling == Sending \cup {"render", "markFailed", "markRetrying", "markDead"}
Points == Handling \cup {"idle", "check", "create"}

Key(w) == KeyOf[job[w].event]
Busy(w) == at[w] # "idle"
Failures(w) == job[w].failures

Init ==
  /\ queue = [e \in Events |-> "unpublished"]
  /\ log = [k \in Keys |-> "none"]
  /\ marks = {}
  /\ at = [w \in Workers |-> "idle"]
  /\ job = [w \in Workers |-> [event |-> CHOOSE e \in Events : TRUE, failures |-> 0]]
  /\ mails = [k \in Keys |-> 0]
  /\ troubled = {} /\ dropped = {}

Goto(w, p) == at' = [at EXCEPT ![w] = p] /\ UNCHANGED job

\* The handler returns: the offset is committed.
Commit(w) ==
  /\ Goto(w, "idle")
  /\ queue' = [queue EXCEPT ![job[w].event] = "done"]

-----------------------------------------------------------------------------
(* Kafka.                                                                  *)

Publish(e) ==
  /\ queue[e] = "unpublished"
  /\ queue' = [queue EXCEPT ![e] = "published"]
  /\ UNCHANGED <<log, marks, at, job, ghosts>>

Deliver(w, e) ==
  /\ ~Busy(w)
  /\ queue[e] = "published"
  /\ Rebalances \/ \A v \in Workers : Busy(v) => job[v].event # e
  /\ job' = [job EXCEPT ![w] = [event |-> e, failures |-> 0]]
  /\ at' = [at EXCEPT ![w] = "check"]
  /\ UNCHANGED <<queue, log, marks, ghosts>>

-----------------------------------------------------------------------------
(* process, before the retry loop.                                         *)

CheckDuplicate(w) ==
  /\ at[w] = "check"
  /\ IF Key(w) \in marks THEN Commit(w) ELSE Goto(w, "create") /\ UNCHANGED queue
  /\ UNCHANGED <<log, marks, ghosts>>

\* Mutant: no unique index on the idempotency key.
CreateUnindexed(w) ==
  /\ at[w] = "create"
  /\ log' = [log EXCEPT ![Key(w)] = "PENDING"]
  /\ Goto(w, "render")
  /\ UNCHANGED <<queue, marks, ghosts>>

CreatePending(w) ==
  /\ at[w] = "create"
  /\ log[Key(w)] = "none"
  /\ log' = [log EXCEPT ![Key(w)] = "PENDING"]
  /\ Goto(w, "render")
  /\ UNCHANGED <<queue, marks, ghosts>>

\* Any error of the insert is taken for a duplicate key: the event is skipped.
SkipEvent(w) ==
  /\ at[w] = "create"
  /\ log[Key(w)] # "none" \/ StepsMayFail
  /\ Commit(w)
  /\ dropped' = IF log[Key(w)] = "none" THEN dropped \cup {Key(w)} ELSE dropped
  /\ UNCHANGED <<log, marks, mails, troubled>>

Render(w) ==
  /\ at[w] = "render"
  /\ Goto(w, IF job[w].event \in Unrenderable THEN "markFailed" ELSE "send")
  /\ UNCHANGED <<queue, log, marks, ghosts>>

\* Mutant: a template error is logged and forgotten.
RenderErrorUnmarked(w) ==
  /\ at[w] = "markFailed"
  /\ Commit(w)
  /\ UNCHANGED <<log, marks, ghosts>>

MarkFailed(w) ==
  /\ at[w] = "markFailed"
  /\ log' = [log EXCEPT ![Key(w)] = "FAILED"]
  /\ Commit(w)
  /\ UNCHANGED <<marks, ghosts>>

-----------------------------------------------------------------------------
(* The operation that is retried: send, markSent, markProcessed.           *)

SendEmail(w) ==
  /\ at[w] = "send"
  /\ mails' = [mails EXCEPT ![Key(w)] = @ + 1]
  /\ Goto(w, "markSent")
  /\ UNCHANGED <<queue, log, marks, troubled, dropped>>

MarkSent(w) ==
  /\ at[w] = "markSent"
  /\ log' = [log EXCEPT ![Key(w)] = "SENT"]
  /\ Goto(w, "markProcessed")
  /\ UNCHANGED <<queue, marks, ghosts>>

MarkProcessed(w) ==
  /\ at[w] = "markProcessed"
  /\ marks' = marks \cup {Key(w)}
  /\ Commit(w)
  /\ UNCHANGED <<log, ghosts>>

\* Mutants: one attempt too many; a handler that gives up without onDead.
AfterTooMany(w) == IF Failures(w) + 1 > MaxAttempts THEN "markDead" ELSE "markRetrying"

AfterRetryForever(w) == "markRetrying"

\* Where the retry loop goes when the operation throws.
AfterFailure(w) == IF Failures(w) + 1 >= MaxAttempts THEN "markDead" ELSE "markRetrying"

Retry(w) ==
  /\ job' = [job EXCEPT ![w] = [event |-> job[w].event, failures |-> Failures(w) + 1]]
  /\ at' = [at EXCEPT ![w] = AfterFailure(w)]

\* The mail server refuses the mail.
SendRefused(w) ==
  /\ at[w] = "send"
  /\ Retry(w)
  /\ UNCHANGED <<queue, log, marks, ghosts>>

\* The mail is out, but the send, markSent or markProcessed throws: the whole
\* operation will be repeated.
ThrowAfterMail(w) ==
  /\ StepsMayFail
  /\ at[w] \in Sending
  /\ mails' = IF at[w] = "send" THEN [mails EXCEPT ![Key(w)] = @ + 1] ELSE mails
  /\ troubled' = troubled \cup {Key(w)}
  /\ Retry(w)
  /\ UNCHANGED <<queue, log, marks, dropped>>

\* onRetry, then the back-off, then the operation again.
MarkRetrying(w) ==
  /\ at[w] = "markRetrying"
  /\ log' = [log EXCEPT ![Key(w)] = "RETRYING"]
  /\ Goto(w, "send")
  /\ UNCHANGED <<queue, marks, ghosts>>

\* onDead: the loop returns null and the offset is committed.
MarkDead(w) ==
  /\ at[w] = "markDead"
  /\ log' = [log EXCEPT ![Key(w)] = "DEAD"]
  /\ Commit(w)
  /\ UNCHANGED <<marks, ghosts>>

-----------------------------------------------------------------------------
(* Failures and time.                                                      *)

\* A call outside the retried operation throws out of the handler; whether
\* the transport commits or redelivers is its own affair.
Throw(w) ==
  /\ StepsMayFail
  /\ at[w] \in {"check", "markFailed", "markRetrying", "markDead"}
  /\ \/ Commit(w) /\ dropped' = dropped \cup {Key(w)}
     \/ /\ Goto(w, "idle") /\ UNCHANGED queue
        /\ dropped' = IF at[w] = "check" THEN dropped ELSE dropped \cup {Key(w)}
  /\ UNCHANGED <<log, marks, mails, troubled>>

Crash(w) ==
  /\ MayCrash
  /\ Busy(w)
  /\ Goto(w, "idle")
  /\ dropped' = IF at[w] \in Handling THEN dropped \cup {Key(w)} ELSE dropped
  /\ UNCHANGED <<queue, log, marks, mails, troubled>>

\* Redis forgets the mark after a day.
MarkExpires(k) ==
  /\ k \in marks
  /\ marks' = marks \ {k}
  /\ UNCHANGED <<queue, log, at, job, ghosts>>

-----------------------------------------------------------------------------
Proceed(w) ==
  \/ CheckDuplicate(w) \/ CreatePending(w) \/ SkipEvent(w)
  \/ Render(w) \/ MarkFailed(w)
  \/ SendEmail(w) \/ SendRefused(w) \/ MarkSent(w) \/ MarkProcessed(w)
  \/ MarkRetrying(w) \/ MarkDead(w)

Next ==
  \/ \E e \in Events : Publish(e)
  \/ \E w \in Workers, e \in Events : Deliver(w, e)
  \/ \E w \in Workers : Proceed(w) \/ ThrowAfterMail(w) \/ Throw(w) \/ Crash(w)
  \/ \E k \in Keys : MarkExpires(k)

Spec == Init /\ [][Next]_vars

\* Handlers keep running and Kafka delivers what was not committed.
FairSpec ==
  /\ Spec
  /\ \A w \in Workers : WF_vars(Proceed(w))
  /\ \A e \in Events : SF_vars(\E w \in Workers : Deliver(w, e))

-----------------------------------------------------------------------------
(* Properties.                                                             *)

\* Every variable keeps its type; in particular no key is mailed more often
\* than there are attempts.
TypeOK ==
  /\ queue \in [Events -> {"unpublished", "published", "done"}]
  /\ log \in [Keys -> Statuses]
  /\ marks \subseteq Keys
  /\ at \in [Workers -> Points]
  /\ job \in [Workers -> [event : Events, failures : 0 .. MaxAttempts]]
  /\ mails \in [Keys -> 0 .. MaxAttempts]
  /\ troubled \subseteq Keys /\ dropped \subseteq Keys

\* The unique index on the key elects one sender: redelivered events, events
\* with the same key and crashed handlers never mail twice, unless a call
\* failed after the mail was out.
MailedOnce == \A k \in Keys : k \notin troubled => mails[k] <= 1

\* Only the handler that inserted the log document works on a key.
OneSender ==
  \A v, w \in Workers :
    at[v] \in Handling /\ at[w] \in Handling /\ Key(v) = Key(w) => v = w

\* A delivery starts its own count of failures.
StartsFresh == \A w \in Workers : at[w] \in {"check", "create"} => Failures(w) = 0

\* What the sender of a key may rely on at each call, and how far its count of
\* failures runs ahead of the mails it sent.
Knows(w, k, n) ==
  /\ log[k] \in {"PENDING", "RETRYING", "SENT"}
  /\ log[k] = "SENT" => at[w] = "markProcessed" \/ k \in troubled
  /\ at[w] \in {"render", "markFailed"} => mails[k] = 0
  /\ at[w] \in {"send", "markRetrying", "markDead"}
       => mails[k] <= n /\ (mails[k] = 0 \/ k \in troubled)
  /\ at[w] \in {"markSent", "markProcessed"}
       => mails[k] \in 1 .. n + 1 /\ (mails[k] = 1 \/ k \in troubled)
  /\ at[w] = "markProcessed" => log[k] = "SENT"
  /\ at[w] = "markDead" \/ n < MaxAttempts

SenderKnows ==
  \A w \in Workers : at[w] \in Handling => Knows(w, Key(w), Failures(w))

\* Inductive, and strong enough for MailedOnce and LogTellsMail.
SenderInv == OneSender /\ StartsFresh /\ SenderKnows

\* The log tells the truth about the mail: SENT was mailed, FAILED was not,
\* and DEAD was not unless a call failed after the mail was out.
LogTellsMail ==
  \A k \in Keys :
    /\ log[k] = "SENT" \/ k \in marks => mails[k] > 0
    /\ log[k] \in {"none", "FAILED"} => mails[k] = 0
    /\ log[k] = "DEAD" => mails[k] = 0 \/ k \in troubled

\* From some time on no handler dies or throws.
Calm == <>[][\A w \in Workers : ~Crash(w) /\ ~Throw(w)]_vars

\* Once handlers stop dying, every event published ends as SENT, FAILED or DEAD
\* in the log, unless it was dropped: skipped or thrown out without a log
\* document, or by the handler that had inserted it.
EventSettled == Calm =>
  \A e \in Events :
    queue[e] = "published" ~> log[KeyOf[e]] \in Final \/ KeyOf[e] \in dropped

=============================================================================
