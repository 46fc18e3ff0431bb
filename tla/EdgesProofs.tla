----------------------------- MODULE EdgesProofs -----------------------------
(***************************************************************************)
(* Theorems about NotificationService for every set of events, keys and    *)
(* workers and every number of attempts; and, at the other edge of the     *)
(* platform (MCEdges), about ApiGateway for every limit of its throttlers  *)
(* and any number of attempts of its client.                               *)
(***************************************************************************)
EXTENDS MCEdges, TLAPS

\* The inductive invariant.
Inv == TypeOK /\ SenderInv /\ LogTellsMail /\ MailedOnce

\* The invariant holds before the first event.
LEMMA InitInv == ASSUME Init PROVE Inv
<1>1. PICK e \in Events : job = [w \in Workers |-> [event |-> e, failures |-> 0]]
  <2>1. (CHOOSE e \in Events : TRUE) \in Events
    BY NotificationAssumption
  <2> QED
    BY <2>1 DEF Init
<1>2. TypeOK
  <2>1. 0 \in 0 .. MaxAttempts
    BY NotificationAssumption
  <2>2. job \in [Workers -> [event : Events, failures : 0 .. MaxAttempts]]
    BY <1>1, <2>1
  <2>3. mails \in [Keys -> 0 .. MaxAttempts]
    BY <2>1 DEF Init
  <2> QED
    BY <2>2, <2>3 DEF Init, TypeOK, Points, Statuses
<1> QED
  BY <1>2, NotificationAssumption
  DEF Init, Inv, SenderInv, OneSender, StartsFresh, SenderKnows, LogTellsMail,
      MailedOnce, Handling, Sending

\* What every step of a worker may use about it.
LEMMA WorkerTypes ==
  ASSUME TypeOK, NEW w \in Workers
  PROVE  /\ job[w].event \in Events /\ Key(w) \in Keys
         /\ Failures(w) \in 0 .. MaxAttempts
         /\ mails[Key(w)] \in 0 .. MaxAttempts
  BY NotificationAssumption DEF TypeOK, Key, Failures

-----------------------------------------------------------------------------
(* Steps that do not touch the log, the mails or a worker that handles.    *)

\* A delivery or a commit touches no worker, log or mail.
LEMMA QueueStep ==
  ASSUME Inv, UNCHANGED <<log, at, job, mails>>,
         queue' \in [Events -> {"unpublished", "published", "done"}],
         marks' \subseteq marks, troubled' = troubled, dropped' = dropped
  PROVE  Inv'
  BY DEF Inv, TypeOK, SenderInv, OneSender, StartsFresh, SenderKnows, Knows,
         LogTellsMail, MailedOnce, Key, Failures

\* A worker leaves: its slot is idle, whatever it was doing.
LEMMA LeaveStep ==
  ASSUME Inv, NEW w \in Workers, at' = [at EXCEPT ![w] = "idle"],
         UNCHANGED <<log, job, mails, marks, troubled>>,
         queue' \in [Events -> {"unpublished", "published", "done"}],
         dropped' \subseteq Keys
  PROVE  Inv'
  BY DEF Inv, TypeOK, SenderInv, OneSender, StartsFresh, SenderKnows, Knows,
         LogTellsMail, MailedOnce, Key, Failures, Handling, Sending, Points

\* Committing an offset keeps the types.
LEMMA CommitTyped ==
  ASSUME TypeOK, NEW w \in Workers, Commit(w)
  PROVE  /\ at' = [at EXCEPT ![w] = "idle"] /\ job' = job
         /\ queue' \in [Events -> {"unpublished", "published", "done"}]
  BY DEF TypeOK, Commit, Goto

\* A worker that does not hold a key yet moves on, or takes up an event.
LEMMA StartStep ==
  ASSUME Inv, NEW w \in Workers, at[w] \notin Handling,
         NEW p \in {"check", "create"}, at' = [at EXCEPT ![w] = p],
         NEW e \in Events, job' = [job EXCEPT ![w] = [event |-> e, failures |-> 0]],
         UNCHANGED <<queue, log, mails, marks, troubled, dropped>>
  PROVE  Inv'
<1>1. \A v \in Workers : v # w => Key(v)' = Key(v) /\ Failures(v)' = Failures(v) /\ at'[v] = at[v]
  BY DEF Key, Failures, Inv, TypeOK
<1>2. at'[w] = p /\ Failures(w)' = 0 /\ p \notin Handling
  BY DEF Failures, Inv, TypeOK, Handling, Sending
<1>3. TypeOK'
  BY NotificationAssumption DEF Inv, TypeOK, Points
<1>4. SenderInv'
  BY <1>1, <1>2 DEF Inv, SenderInv, OneSender, StartsFresh, SenderKnows, Knows
<1> QED
  BY <1>3, <1>4 DEF Inv, LogTellsMail, MailedOnce

-----------------------------------------------------------------------------
(* The steps of the sender of a key k: nobody else handles k, so only k's  *)
(* document, mails and the sender's own place change.                      *)

\* w goes on to p, having counted f failures; status s is written to the log
\* and n mails are out.
Stay(w, p, f, s, n) ==
  /\ at' = [at EXCEPT ![w] = p]
  /\ job' = [job EXCEPT ![w] = [event |-> job[w].event, failures |-> f]]
  /\ log' = [log EXCEPT ![Key(w)] = s]
  /\ mails' = [mails EXCEPT ![Key(w)] = n]
  /\ marks' \subseteq marks \cup {Key(w)}
  /\ troubled \subseteq troubled' /\ troubled' \subseteq troubled \cup {Key(w)}
  /\ dropped' \subseteq Keys
  /\ queue' \in [Events -> {"unpublished", "published", "done"}]

\* The log stays true, and a sender that stays knows what it may rely on.
Honest(w, p, f, s, n) ==
  /\ n >= mails[Key(w)]
  /\ s = "SENT" \/ Key(w) \in marks' => n > 0
  /\ s \in {"none", "FAILED"} => n = 0
  /\ s = "DEAD" => n = 0 \/ Key(w) \in troubled'
  /\ Key(w) \in troubled' \/ n <= 1
  /\ p \in Handling =>
       /\ s \in {"PENDING", "RETRYING", "SENT"}
       /\ s = "SENT" => p = "markProcessed" \/ Key(w) \in troubled'
       /\ p \in {"render", "markFailed"} => n = 0
       /\ p \in {"send", "markRetrying", "markDead"}
            => n <= f /\ (n = 0 \/ Key(w) \in troubled')
       /\ p \in {"markSent", "markProcessed"}
            => n \in 1 .. f + 1 /\ (n = 1 \/ Key(w) \in troubled')
       /\ p = "markProcessed" => s = "SENT"
       /\ p = "markDead" \/ f < MaxAttempts

\* The sender of a key moves on: what it knows follows what it did.
LEMMA SenderStep ==
  ASSUME Inv, NEW w \in Workers, at[w] \in Handling,
         NEW p \in Handling \cup {"idle"}, NEW f \in 0 .. MaxAttempts,
         NEW s \in Statuses, NEW n \in 0 .. MaxAttempts,
         Stay(w, p, f, s, n), Honest(w, p, f, s, n)
  PROVE  Inv'
<1> USE DEF Stay, Honest
<1> DEFINE k == Key(w)
<1>0. job[w].event \in Events /\ k \in Keys
  BY WorkerTypes DEF Inv
<1>1. TypeOK'
  BY <1>0 DEF Inv, TypeOK, Points
<1>2. \A v \in Workers : v # w => Key(v)' = Key(v) /\ Failures(v)' = Failures(v) /\ at'[v] = at[v]
  BY DEF Inv, TypeOK, Key, Failures
<1>3. Key(w)' = k /\ Failures(w)' = f /\ at'[w] = p
  BY DEF Inv, TypeOK, Key, Failures
<1>4. \A v \in Workers : v # w /\ at[v] \in Handling => Key(v) # k /\ Key(v) \in Keys
  BY WorkerTypes DEF Inv, SenderInv, OneSender
<1>5. log'[k] = s /\ mails'[k] = n
  BY <1>0 DEF Inv, TypeOK
<1>6. \A j \in Keys : j # k => log'[j] = log[j] /\ mails'[j] = mails[j]
  BY DEF Inv, TypeOK
<1>7. OneSender'
  BY <1>2, <1>3, <1>4 DEF Inv, SenderInv, OneSender
<1>8. StartsFresh'
  BY <1>2, <1>3 DEF Inv, SenderInv, StartsFresh, Handling, Sending
<1>9. SenderKnows'
  <2>1. ASSUME NEW v \in Workers, v # w, at[v] \in Handling
        PROVE  Knows(v, Key(v), Failures(v))'
    <3>1. Knows(v, Key(v), Failures(v))
      BY <2>1 DEF Inv, SenderInv, SenderKnows
    <3>2. /\ Key(v)' = Key(v) /\ Failures(v)' = Failures(v) /\ at'[v] = at[v]
          /\ log'[Key(v)] = log[Key(v)] /\ mails'[Key(v)] = mails[Key(v)]
      BY <1>2, <1>4, <1>6, <2>1
    <3> QED
      BY <3>1, <3>2 DEF Knows
  <2>2. p \in Handling => Knows(w, k, f)'
    BY <1>3, <1>5 DEF Knows
  <2> QED
    BY <1>2, <1>3, <2>1, <2>2 DEF SenderKnows
<1>10. LogTellsMail'
  BY <1>0, <1>5, <1>6 DEF Inv, LogTellsMail
<1>11. MailedOnce'
  BY <1>0, <1>5, <1>6 DEF Inv, MailedOnce
<1> QED
  BY <1>1, <1>7, <1>8, <1>9, <1>10, <1>11 DEF Inv, SenderInv

\* The insert of the log document: the unique index makes its worker the one
\* sender of the key.
LEMMA ElectStep ==
  ASSUME Inv, NEW w \in Workers, CreatePending(w)
  PROVE  Inv'
<1> DEFINE k == Key(w)
<1>0. k \in Keys
  BY WorkerTypes DEF Inv
<1>1. /\ at' = [at EXCEPT ![w] = "render"] /\ job' = job
      /\ log' = [log EXCEPT ![k] = "PENDING"] /\ log[k] = "none"
      /\ UNCHANGED <<queue, marks, mails, troubled, dropped>>
  BY DEF CreatePending, Goto, ghosts
<1>2. \A v \in Workers : at[v] \in Handling => Key(v) # k
  BY <1>1 DEF Inv, SenderInv, SenderKnows, Knows
<1>3. mails[k] = 0 /\ Failures(w) = 0
  BY <1>0, <1>1 DEF CreatePending, Inv, SenderInv, StartsFresh, LogTellsMail
<1>4. \A v \in Workers : v # w => at'[v] = at[v]
  BY <1>1 DEF Inv, TypeOK
<1>5. at'[w] = "render"
  BY <1>1 DEF Inv, TypeOK
<1>6. \A v \in Workers : Key(v)' = Key(v) /\ Failures(v)' = Failures(v)
  BY <1>1 DEF Key, Failures
<1>7. log'[k] = "PENDING" /\ \A j \in Keys : j # k => log'[j] = log[j]
  BY <1>0, <1>1 DEF Inv, TypeOK
<1>8. TypeOK'
  BY <1>0, <1>1 DEF Inv, TypeOK, Statuses, Points, Handling, Sending
<1>9. OneSender' /\ StartsFresh'
  BY <1>2, <1>4, <1>5, <1>6 DEF Inv, SenderInv, OneSender, StartsFresh
<1>10. SenderKnows'
  <2>1. ASSUME NEW v \in Workers, v # w, at[v] \in Handling
        PROVE  Knows(v, Key(v), Failures(v))'
    <3>1. Knows(v, Key(v), Failures(v)) /\ Key(v) \in Keys
      BY <2>1, WorkerTypes DEF Inv, SenderInv, SenderKnows
    <3>2. log'[Key(v)] = log[Key(v)]
      BY <1>2, <1>7, <2>1, <3>1
    <3> QED
      BY <1>1, <1>4, <1>6, <2>1, <3>1, <3>2 DEF Knows
  <2>2. Knows(w, k, Failures(w))'
    BY <1>1, <1>3, <1>5, <1>6, <1>7, NotificationAssumption DEF Knows
  <2> QED
    BY <1>4, <1>6, <2>1, <2>2 DEF SenderKnows
<1>11. LogTellsMail' /\ MailedOnce'
  BY <1>0, <1>1, <1>3, <1>7 DEF Inv, LogTellsMail, MailedOnce
<1> QED
  BY <1>8, <1>9, <1>10, <1>11 DEF Inv, SenderInv

-----------------------------------------------------------------------------
\* Every step of the handler preserves the invariant.
LEMMA ProceedInv ==
  ASSUME Inv, NEW w \in Workers, Proceed(w)
  PROVE  Inv'
<1> DEFINE k == Key(w)
<1> USE DEF ghosts
<1>0. /\ job[w].event \in Events /\ k \in Keys
      /\ Failures(w) \in 0 .. MaxAttempts /\ mails[k] \in 0 .. MaxAttempts
      /\ log[k] \in Statuses
      /\ log = [log EXCEPT ![k] = log[k]]
      /\ mails = [mails EXCEPT ![k] = mails[k]]
      /\ job = [job EXCEPT ![w] = [event |-> job[w].event, failures |-> Failures(w)]]
      /\ dropped \subseteq Keys
  BY WorkerTypes DEF Inv, TypeOK, Failures
<1>1. CASE CheckDuplicate(w)
  <2>1. CASE Commit(w)
    BY <1>1, <2>1, CommitTyped, LeaveStep DEF CheckDuplicate, Inv, TypeOK
  <2>2. CASE Goto(w, "create") /\ UNCHANGED queue
    <3>1. Failures(w) = 0 /\ at[w] \notin Handling
      BY <1>1 DEF CheckDuplicate, Inv, SenderInv, StartsFresh, Handling, Sending
    <3> QED
      BY <1>0, <1>1, <2>2, <3>1, StartStep DEF CheckDuplicate, Goto
  <2> QED
    BY <1>1, <2>1, <2>2 DEF CheckDuplicate
<1>2. CASE CreatePending(w)
  BY <1>2, ElectStep
<1>3. CASE SkipEvent(w)
  BY <1>0, <1>3, CommitTyped, LeaveStep DEF SkipEvent, Inv, TypeOK
<1>4. ASSUME at[w] \in Handling PROVE Knows(w, k, Failures(w))
  BY <1>4 DEF Inv, SenderInv, SenderKnows
<1>5. /\ log[k] = "SENT" => mails[k] > 0
      /\ k \notin troubled => mails[k] <= 1
      /\ k \in marks => mails[k] > 0
      /\ queue \in [Events -> {"unpublished", "published", "done"}]
      /\ troubled \subseteq Keys
  BY <1>0 DEF Inv, TypeOK, LogTellsMail, MailedOnce
<1>6. CASE Render(w)
  <2> DEFINE p == IF job[w].event \in Unrenderable THEN "markFailed" ELSE "send"
  <2>1. Knows(w, k, Failures(w)) /\ at[w] = "render" /\ at[w] \in Handling
    BY <1>4, <1>6 DEF Render, Handling, Sending
  <2>2. Stay(w, p, Failures(w), log[k], mails[k]) /\ UNCHANGED <<marks, troubled>>
    BY <1>0, <1>5, <1>6 DEF Render, Goto, Stay
  <2>3. p \in {"markFailed", "send"} /\ p \in Handling
    BY DEF Handling, Sending
  <2> HIDE DEF p
  <2>4. Honest(w, p, Failures(w), log[k], mails[k])
    BY <1>0, <1>5, <2>1, <2>2, <2>3 DEF Honest, Knows, Handling, Sending
  <2> QED
    BY <1>0, <2>1, <2>2, <2>3, <2>4, SenderStep DEF Handling, Sending, Statuses, Final
<1>7. CASE MarkFailed(w)
  <2>1. Knows(w, k, Failures(w)) /\ at[w] = "markFailed" /\ at[w] \in Handling
    BY <1>4, <1>7 DEF MarkFailed, Handling, Sending
  <2>2. Stay(w, "idle", Failures(w), "FAILED", mails[k]) /\ UNCHANGED <<marks, troubled>>
    BY <1>0, <1>5, <1>7, CommitTyped DEF MarkFailed, Inv, Stay
  <2>4. Honest(w, "idle", Failures(w), "FAILED", mails[k])
    BY <1>0, <1>5, <2>1, <2>2 DEF Honest, Knows, Handling, Sending
  <2> QED
    BY <1>0, <2>1, <2>2, <2>4, SenderStep DEF Handling, Sending, Statuses, Final
<1>8. CASE SendEmail(w)
  <2>1. Knows(w, k, Failures(w)) /\ at[w] = "send" /\ at[w] \in Handling
    BY <1>4, <1>8 DEF SendEmail, Handling, Sending
  <2>2. Stay(w, "markSent", Failures(w), log[k], mails[k] + 1) /\ UNCHANGED <<marks, troubled>>
    BY <1>0, <1>5, <1>8 DEF SendEmail, Goto, Stay
  <2>3. mails[k] + 1 \in 0 .. MaxAttempts
    BY <1>0, <2>1, NotificationAssumption DEF Knows
  <2>4. Honest(w, "markSent", Failures(w), log[k], mails[k] + 1)
    BY <1>0, <1>5, <2>1, <2>2, <2>3 DEF Honest, Knows, Handling, Sending
  <2> QED
    BY <1>0, <2>1, <2>2, <2>3, <2>4, SenderStep DEF Handling, Sending, Statuses, Final
<1>9. CASE SendRefused(w)
  <2>1. Knows(w, k, Failures(w)) /\ at[w] = "send" /\ at[w] \in Handling
    BY <1>4, <1>9 DEF SendRefused, Handling, Sending
  <2>2. Stay(w, AfterFailure(w), Failures(w) + 1, log[k], mails[k]) /\ UNCHANGED <<marks, troubled>>
    BY <1>0, <1>5, <1>9 DEF SendRefused, Retry, Stay
  <2>3. /\ Failures(w) + 1 \in 0 .. MaxAttempts
        /\ AfterFailure(w) \in {"markDead", "markRetrying"}
        /\ AfterFailure(w) = "markDead" \/ Failures(w) + 1 < MaxAttempts
    BY <1>0, <2>1, NotificationAssumption DEF Knows, AfterFailure
  <2>4. Honest(w, AfterFailure(w), Failures(w) + 1, log[k], mails[k])
    BY <1>0, <1>5, <2>1, <2>2, <2>3 DEF Honest, Knows, Handling, Sending
  <2> QED
    BY <1>0, <2>1, <2>2, <2>3, <2>4, SenderStep DEF Handling, Sending, Statuses, Final
<1>10. CASE MarkSent(w)
  <2>1. Knows(w, k, Failures(w)) /\ at[w] = "markSent" /\ at[w] \in Handling
    BY <1>4, <1>10 DEF MarkSent, Handling, Sending
  <2>2. Stay(w, "markProcessed", Failures(w), "SENT", mails[k]) /\ UNCHANGED <<marks, troubled>>
    BY <1>0, <1>5, <1>10 DEF MarkSent, Goto, Stay
  <2>4. Honest(w, "markProcessed", Failures(w), "SENT", mails[k])
    BY <1>0, <1>5, <2>1, <2>2 DEF Honest, Knows, Handling, Sending
  <2> QED
    BY <1>0, <2>1, <2>2, <2>4, SenderStep DEF Handling, Sending, Statuses, Final
<1>11. CASE MarkProcessed(w)
  <2>1. Knows(w, k, Failures(w)) /\ at[w] = "markProcessed" /\ at[w] \in Handling
    BY <1>4, <1>11 DEF MarkProcessed, Handling, Sending
  <2>2. Stay(w, "idle", Failures(w), log[k], mails[k]) /\ troubled' = troubled /\ marks' = marks \cup {k}
    BY <1>0, <1>5, <1>11, CommitTyped DEF MarkProcessed, Inv, Stay
  <2>4. Honest(w, "idle", Failures(w), log[k], mails[k])
    BY <1>0, <1>5, <2>1, <2>2 DEF Honest, Knows, Handling, Sending
  <2> QED
    BY <1>0, <2>1, <2>2, <2>4, SenderStep DEF Handling, Sending, Statuses, Final
<1>12. CASE MarkRetrying(w)
  <2>1. Knows(w, k, Failures(w)) /\ at[w] = "markRetrying" /\ at[w] \in Handling
    BY <1>4, <1>12 DEF MarkRetrying, Handling, Sending
  <2>2. Stay(w, "send", Failures(w), "RETRYING", mails[k]) /\ UNCHANGED <<marks, troubled>>
    BY <1>0, <1>5, <1>12 DEF MarkRetrying, Goto, Stay
  <2>4. Honest(w, "send", Failures(w), "RETRYING", mails[k])
    BY <1>0, <1>5, <2>1, <2>2 DEF Honest, Knows, Handling, Sending
  <2> QED
    BY <1>0, <2>1, <2>2, <2>4, SenderStep DEF Handling, Sending, Statuses, Final
<1>13. CASE MarkDead(w)
  <2>1. Knows(w, k, Failures(w)) /\ at[w] = "markDead" /\ at[w] \in Handling
    BY <1>4, <1>13 DEF MarkDead, Handling, Sending
  <2>2. Stay(w, "idle", Failures(w), "DEAD", mails[k]) /\ UNCHANGED <<marks, troubled>>
    BY <1>0, <1>5, <1>13, CommitTyped DEF MarkDead, Inv, Stay
  <2>4. Honest(w, "idle", Failures(w), "DEAD", mails[k])
    BY <1>0, <1>5, <2>1, <2>2 DEF Honest, Knows, Handling, Sending
  <2> QED
    BY <1>0, <2>1, <2>2, <2>4, SenderStep DEF Handling, Sending, Statuses, Final
<1> QED
  BY <1>1, <1>2, <1>3, <1>6, <1>7, <1>8, <1>9, <1>10, <1>11, <1>12, <1>13 DEF Proceed

\* A call throws once the mail is out: counted as one more failed attempt.
LEMMA ThrowAfterMailInv ==
  ASSUME Inv, NEW w \in Workers, ThrowAfterMail(w)
  PROVE  Inv'
<1> DEFINE k == Key(w)
           n == IF at[w] = "send" THEN mails[k] + 1 ELSE mails[k]
<1>1. /\ Failures(w) \in 0 .. MaxAttempts /\ mails[k] \in 0 .. MaxAttempts
      /\ k \in Keys /\ log[k] \in Statuses /\ log = [log EXCEPT ![k] = log[k]]
  BY WorkerTypes DEF Inv, TypeOK
<1>2. at[w] \in Sending /\ at[w] \in Handling /\ Knows(w, k, Failures(w))
  BY DEF ThrowAfterMail, Handling, Inv, SenderInv, SenderKnows
<1>3. /\ Failures(w) + 1 \in 0 .. MaxAttempts
      /\ AfterFailure(w) \in {"markDead", "markRetrying"}
      /\ AfterFailure(w) = "markDead" \/ Failures(w) + 1 < MaxAttempts
  BY <1>1, <1>2, NotificationAssumption DEF Knows, AfterFailure, Sending
<1>4. n \in 0 .. Failures(w) + 1 /\ n > 0 /\ n >= mails[k] /\ n \in 0 .. MaxAttempts
  BY <1>1, <1>2, <1>3, NotificationAssumption DEF Knows, Sending
<1>5. mails' = [mails EXCEPT ![k] = n]
  BY <1>1 DEF ThrowAfterMail, Inv, TypeOK
<1> HIDE DEF n
<1>6. /\ Stay(w, AfterFailure(w), Failures(w) + 1, log[k], n)
      /\ troubled' = troubled \cup {k} /\ marks' = marks
  BY <1>1, <1>5 DEF ThrowAfterMail, Retry, Stay, Inv, TypeOK
<1>7. Honest(w, AfterFailure(w), Failures(w) + 1, log[k], n)
  BY <1>1, <1>2, <1>3, <1>4, <1>6 DEF Honest, Knows, Handling, Sending
<1> QED
  BY <1>1, <1>2, <1>3, <1>4, <1>6, <1>7, SenderStep DEF Handling

\* Every step of the service preserves the invariant.
LEMMA StepInv == ASSUME Inv, [Next]_vars PROVE Inv'
<1> USE DEF ghosts
<1>1. ASSUME NEW e \in Events, Publish(e) PROVE Inv'
  BY <1>1, QueueStep DEF Publish, Inv, TypeOK
<1>2. ASSUME NEW w \in Workers, NEW e \in Events, Deliver(w, e) PROVE Inv'
  <2>1. at[w] \notin Handling
    BY <1>2 DEF Deliver, Busy, Handling, Sending
  <2> QED
    BY <1>2, <2>1, StartStep DEF Deliver
<1>3. ASSUME NEW w \in Workers, Proceed(w) PROVE Inv'
  BY <1>3, ProceedInv
<1>4. ASSUME NEW w \in Workers, ThrowAfterMail(w) PROVE Inv'
  BY <1>4, ThrowAfterMailInv
<1>5. ASSUME NEW w \in Workers, Throw(w) \/ Crash(w) PROVE Inv'
  <2>1. Key(w) \in Keys /\ dropped \subseteq Keys
    BY WorkerTypes DEF Inv, TypeOK
  <2>2. dropped' \subseteq Keys /\ UNCHANGED <<log, marks, mails, troubled>>
    BY <1>5, <2>1 DEF Throw, Crash
  <2>3. /\ at' = [at EXCEPT ![w] = "idle"] /\ job' = job
        /\ queue' \in [Events -> {"unpublished", "published", "done"}]
    BY <1>5, CommitTyped DEF Throw, Crash, Goto, Inv, TypeOK
  <2> QED
    BY <2>2, <2>3, LeaveStep
<1>6. ASSUME NEW k \in Keys, MarkExpires(k) PROVE Inv'
  BY <1>6, QueueStep DEF MarkExpires, Inv, TypeOK
<1>7. CASE UNCHANGED vars
  BY <1>7, QueueStep DEF vars, Inv, TypeOK
<1> QED
  BY <1>1, <1>2, <1>3, <1>4, <1>5, <1>6, <1>7 DEF Next

\* The inductive invariant: whoever inserted the log document is the key's only
\* sender, and it knows how many mails its key has had.
THEOREM Inductive == Spec => []Inv
  BY InitInv, StepInv, PTL DEF Spec

-----------------------------------------------------------------------------
(* Theorems.                                                               *)

\* Whatever fails, a key is never mailed more often than RETRY_MAX_ATTEMPTS.
THEOREM MailsBounded == Spec => []TypeOK
  BY Inductive, PTL DEF Inv

\* However often Kafka redelivers and handlers crash, only the handler whose
\* insert was accepted works on a key, and it knows where it is.
THEOREM SenderElected == Spec => []SenderInv
  BY Inductive, PTL DEF Inv

\* No e-mail is sent twice unless a call failed after the mail was out.
THEOREM NeverMailedTwice == Spec => []MailedOnce
  BY Inductive, PTL DEF Inv

\* The notification log never contradicts the mails that were sent.
THEOREM LogHonest == Spec => []LogTellsMail
  BY Inductive, PTL DEF Inv

-----------------------------------------------------------------------------
(* The gateway: the inductive invariant.                                   *)

Tries == Gateway!Tries

\* What leaves a client in doubt.
Doubtful(code) == code = 408 \/ code \in 500 .. 503

\* What the service can have sent: a refusal only if the operation did not take
\* place, and success, 0 or an error of the server in either case.
ReplyHonest(r, d) ==
  /\ r \in {0, 200} \cup (400 .. 407) \cup (409 .. 499) \cup (500 .. 503)
  /\ Gateway!Refused(r) => ~d

\* What a client was told, and what is still under way when it was.
StatusHonest(c, k, d) ==
  /\ c = 200 \/ Gateway!Refused(c) \/ Doubtful(c)
  /\ c = 200 => k = "over"
  /\ Gateway!Refused(c) => k \in {"none", "over"} /\ ~d

\* Attempt t, with h requests in the window: it is worked on once it was
\* forwarded, takes place once at most, and waits only behind those before it.
Fits(t, h, p, c, k, r, d) ==
  /\ p \in {"new", "arrived"} => k = "none" /\ h < t
  /\ k \in {"none", "queued", "running"} => ~d
  /\ k = "over" => ReplyHonest(r, d)
  /\ IF p = "answered" THEN StatusHonest(c, k, d) ELSE c = 0

TryInv == \A t \in Tries : Fits(t, hits, phase[t], status[t], work[t], reply[t], done[t])

\* The client tries again after an answer that was no success.
InTurn ==
  \A t, u \in Tries :
    t < u /\ phase[u] # "new" => phase[t] = "answered" /\ status[t] # 200

GatewayInv == Gateway!TypeOK /\ InTurn /\ TryInv

\* What every step may use about an attempt.
LEMMA TryTypes ==
  ASSUME GatewayInv, NEW t \in Tries
  PROVE  /\ t \in Nat /\ t >= 1 /\ t <= MaxTries /\ MaxTries \in Nat
         /\ hits \in 0 .. MaxTries /\ status[t] \in 0 .. 503 /\ reply[t] \in 0 .. 503
         /\ done[t] \in BOOLEAN /\ work[t] \in {"none", "queued", "running", "over"}
         /\ phase[t] \in {"new", "arrived", "forwarded", "answered"}
         /\ route \in Gateway!Routes /\ role \in Gateway!Roles
         /\ Fits(t, hits, phase[t], status[t], work[t], reply[t], done[t])
<1>1. t \in 1 .. MaxTries /\ MaxTries \in Nat
  BY EdgesAssumption DEF Gateway!GatewayAssumption, Tries, Gateway!Tries
<1>2. Gateway!TypeOK /\ Fits(t, hits, phase[t], status[t], work[t], reply[t], done[t])
  BY DEF GatewayInv, TryInv
<1>3. done[t] \in BOOLEAN
  BY <1>2 DEF Gateway!TypeOK, Tries
<1>4. /\ hits \in 0 .. MaxTries /\ status[t] \in 0 .. 503 /\ reply[t] \in 0 .. 503
      /\ route \in Gateway!Routes /\ role \in Gateway!Roles
      /\ work[t] \in {"none", "queued", "running", "over"}
      /\ phase[t] \in {"new", "arrived", "forwarded", "answered"}
  BY <1>2 DEF Gateway!TypeOK, Tries
<1> QED
  BY <1>1, <1>2, <1>3, <1>4

\* A step of attempt t alone, which is not sent out of its turn or given a
\* second answer, and still fits.
Alone(t, p, c, k, r, d) ==
  /\ phase' = [phase EXCEPT ![t] = p] /\ status' = [status EXCEPT ![t] = c]
  /\ work' = [work EXCEPT ![t] = k] /\ reply' = [reply EXCEPT ![t] = r]
  /\ done' = [done EXCEPT ![t] = d] /\ UNCHANGED <<route, role>>
  /\ p \in {"new", "arrived", "forwarded", "answered"} /\ c \in 0 .. 503
  /\ k \in {"none", "queued", "running", "over"} /\ r \in 0 .. 503 /\ d \in BOOLEAN

Proper(t, p, c) ==
  /\ hits' \in 0 .. MaxTries
  /\ hits' <= hits \/ (hits' <= t /\ phase[t] # "new")
  /\ phase[t] = "answered" => p = "answered" /\ c = status[t]
  /\ phase[t] = "new" /\ p # "new"
       => \A u \in Tries : u < t => phase[u] = "answered" /\ status[u] # 200

\* By such a step the invariant is kept.
LEMMA TryStep ==
  ASSUME GatewayInv, NEW t \in Tries, NEW p, NEW c, NEW k, NEW r, NEW d,
         Alone(t, p, c, k, r, d), Proper(t, p, c), Fits(t, hits', p, c, k, r, d)
  PROVE  GatewayInv'
<1> USE DEF Alone, Proper
<1>1. Gateway!TypeOK'
  BY DEF GatewayInv, Gateway!TypeOK, Tries
<1>2. /\ phase'[t] = p /\ status'[t] = c /\ work'[t] = k /\ reply'[t] = r /\ done'[t] = d
      /\ \A u \in Tries \ {t} :
           /\ phase'[u] = phase[u] /\ status'[u] = status[u] /\ work'[u] = work[u]
           /\ reply'[u] = reply[u] /\ done'[u] = done[u]
  BY DEF GatewayInv, Gateway!TypeOK, Tries
<1>3. InTurn'
  BY <1>2, TryTypes DEF GatewayInv, InTurn
<1>4. ASSUME NEW u \in Tries, u # t
      PROVE  Fits(u, hits', phase[u], status[u], work[u], reply[u], done[u])
  <2>1. phase[u] \in {"new", "arrived"} => hits' < u
    BY <1>4, TryTypes DEF GatewayInv, InTurn, Fits
  <2> QED
    BY <1>4, <2>1, TryTypes DEF Fits
<1>5. TryInv'
  BY <1>2, <1>4 DEF TryInv
<1> QED
  BY <1>1, <1>3, <1>5 DEF GatewayInv

\* By an answer, if it is what the service sent or leaves the client in doubt
\* or came before the service was asked.
LEMMA AnswerSafe ==
  ASSUME GatewayInv, NEW t \in Tries, phase[t] \in {"arrived", "forwarded"}, NEW c \in 0 .. 503,
         Gateway!Answer(t, c), hits' \in 0 .. MaxTries,
         hits' = hits \/ (phase[t] = "arrived" /\ hits' = hits + 1),
         \/ Doubtful(c)
         \/ phase[t] = "arrived" /\ Gateway!Refused(c)
         \/ work[t] = "over" /\ (c = 200 \/ Gateway!Refused(c)) /\ c = reply[t]
  PROVE  GatewayInv'
<1> PICK d \in BOOLEAN : done[t] = d
  BY TryTypes
<1>1. Alone(t, "answered", c, work[t], reply[t], d)
  BY TryTypes DEF Gateway!Answer, GatewayInv, Gateway!TypeOK, Tries, Alone
<1>2. Fits(t, hits', "answered", c, work[t], reply[t], d)
  BY TryTypes DEF Fits, StatusHonest, ReplyHonest, Gateway!Refused, Doubtful
<1>3. Proper(t, "answered", c)
  BY TryTypes DEF Fits, Proper
<1> QED
  BY <1>1, <1>2, <1>3, TryStep, Zenon

\* By the end of the work on an attempt, if the service sent an honest answer.
LEMMA ReplySafe ==
  ASSUME GatewayInv, NEW t \in Tries, work[t] \in {"queued", "running"},
         NEW c, NEW d \in BOOLEAN, Gateway!Reply(t, c, d), ReplyHonest(c, d)
  PROVE  GatewayInv'
<1>1. c \in 0 .. 503
  BY DEF ReplyHonest
<1>2. Alone(t, phase[t], status[t], "over", c, d) /\ hits' = hits
  BY <1>1, TryTypes DEF Gateway!Reply, GatewayInv, Gateway!TypeOK, Tries, Alone
<1>3. phase[t] # "new" /\ Fits(t, hits', phase[t], status[t], "over", c, d)
  BY <1>2, TryTypes DEF Fits, StatusHonest, Gateway!Refused, Doubtful
<1>4. Proper(t, phase[t], status[t])
  BY <1>2, <1>3, TryTypes DEF Proper
<1> QED
  BY <1>2, <1>3, <1>4, TryStep, Zenon

\* Exceptions are reported as refusals only if they come before the operation
\* took place.
LEMMA ThrowHonest ==
  ASSUME NEW exception \in Gateway!Exceptions, NEW d \in BOOLEAN,
         d => Gateway!Late(exception)
  PROVE  ReplyHonest(Gateway!StatusOf(route.service, exception), d)
BY DEF Gateway!Exceptions, Gateway!Late, Gateway!StatusOf, Gateway!AuthStatus,
       Gateway!OtherStatus, Gateway!Refused, ReplyHonest

\* By the client and the throttlers' window.
LEMMA SendSafe ==
  ASSUME GatewayInv, NEW t \in Tries, Gateway!Send(t)
  PROVE  GatewayInv'
<1> PICK d \in BOOLEAN : done[t] = d
  BY TryTypes
<1>1. Alone(t, "arrived", status[t], work[t], reply[t], d) /\ hits' = hits
  BY TryTypes DEF Gateway!Send, GatewayInv, Gateway!TypeOK, Tries, Alone
<1>2. Fits(t, hits', "arrived", status[t], work[t], reply[t], d)
  BY <1>1, TryTypes DEF Gateway!Send, Fits
<1>3. Proper(t, "arrived", status[t])
  <2> SUFFICES ASSUME NEW u \in Tries, u < t
               PROVE  phase[u] = "answered" /\ status[u] # 200
    BY <1>1, TryTypes DEF Proper, Gateway!Send
  <2>1. t - 1 \in Tries /\ t > 1 /\ u <= t - 1
    BY TryTypes DEF Tries, Gateway!Tries
  <2>2. phase[t - 1] = "answered" /\ status[t - 1] # 200
    BY <2>1 DEF Gateway!Send
  <2> QED
    BY <2>1, <2>2, TryTypes DEF GatewayInv, InTurn
<1> QED
  BY <1>1, <1>2, <1>3, TryStep, Zenon

\* A throttler window that ends keeps the gateway's invariant.
LEMMA WindowSafe ==
  ASSUME GatewayInv, Gateway!WindowEnds
  PROVE  GatewayInv'
<1> USE DEF Gateway!WindowEnds
<1>1. ASSUME NEW t \in Tries
      PROVE  Fits(t, hits', phase[t], status[t], work[t], reply[t], done[t])
  BY TryTypes DEF Fits
<1>2. 0 \in 0 .. MaxTries
  BY EdgesAssumption DEF Gateway!GatewayAssumption
<1>3. Gateway!TypeOK'
  BY <1>2 DEF GatewayInv, Gateway!TypeOK
<1> QED
  BY <1>1, <1>3 DEF GatewayInv, InTurn, TryInv

\* By the gateway: an attempt that is worked on was forwarded before.
LEMMA ForwardSafe ==
  ASSUME GatewayInv, NEW t \in Tries, Gateway!Forward(t)
  PROVE  GatewayInv'
<1> PICK d \in BOOLEAN : done[t] = d
  BY TryTypes
<1>1. Alone(t, "forwarded", status[t], "queued", reply[t], d) /\ hits' = hits + 1
  BY TryTypes DEF Gateway!Forward, GatewayInv, Gateway!TypeOK, Tries, Alone
<1>2. Fits(t, hits', "forwarded", status[t], "queued", reply[t], d)
  BY TryTypes DEF Gateway!Forward, Fits
<1>3. Proper(t, "forwarded", status[t])
  BY <1>1, TryTypes DEF Gateway!Forward, Fits, Proper
<1> QED
  BY <1>1, <1>2, <1>3, TryStep, Zenon

\* An answer of the gateway, of either kind, keeps its invariant.
LEMMA AnswersSafe ==
  ASSUME GatewayInv, NEW t \in Tries,
         \/ Gateway!Throttle(t) \/ Gateway!Unauthenticated(t) \/ Gateway!Respond(t)
         \/ Gateway!ProxyTimeout(t) \/ Gateway!GatewayTimeout(t)
  PROVE  GatewayInv'
<1>1. CASE Gateway!Throttle(t)
  BY <1>1, AnswerSafe, TryTypes DEF Gateway!Throttle, Gateway!Refused
<1>2. CASE Gateway!Unauthenticated(t)
  <2>1. hits + 1 \in 0 .. MaxTries
    BY <1>2, TryTypes DEF Gateway!Unauthenticated, Fits
  <2> QED
    BY <1>2, <2>1, AnswerSafe DEF Gateway!Unauthenticated, Gateway!Refused
<1>3. CASE Gateway!Respond(t)
  <2> DEFINE c == IF reply[t] = 0 THEN 500 ELSE reply[t]
  <2>1. phase[t] = "forwarded" /\ work[t] = "over" /\ hits' = hits /\ Gateway!Answer(t, c)
    BY <1>3 DEF Gateway!Respond
  <2>2. ReplyHonest(reply[t], done[t])
    BY <2>1, TryTypes DEF Fits
  <2>3. /\ c \in 0 .. 503
        /\ Doubtful(c) \/ ((c = 200 \/ Gateway!Refused(c)) /\ c = reply[t])
    BY <2>2 DEF ReplyHonest, Doubtful, Gateway!Refused
  <2> HIDE DEF c
  <2> QED
    BY <2>1, <2>3, AnswerSafe, TryTypes
<1>4. CASE Gateway!ProxyTimeout(t)
  BY <1>4, AnswerSafe, TryTypes DEF Gateway!ProxyTimeout, Doubtful
<1>5. CASE Gateway!GatewayTimeout(t)
  BY <1>5, AnswerSafe, TryTypes DEF Gateway!GatewayTimeout, Doubtful
<1> QED
  BY <1>1, <1>2, <1>3, <1>4, <1>5

\* By a service that lets a request in.
LEMMA EnterSafe ==
  ASSUME GatewayInv, NEW t \in Tries, Gateway!Enter(t)
  PROVE  GatewayInv'
<1> PICK d \in BOOLEAN : done[t] = d
  BY TryTypes
<1>1. Alone(t, phase[t], status[t], "running", reply[t], d) /\ hits' = hits
  BY TryTypes DEF Gateway!Enter, GatewayInv, Gateway!TypeOK, Tries, Alone
<1>2. phase[t] # "new" /\ Fits(t, hits', phase[t], status[t], "running", reply[t], d)
  BY <1>1, TryTypes DEF Gateway!Enter, Fits, StatusHonest
<1>3. Proper(t, phase[t], status[t])
  BY <1>1, <1>2, TryTypes DEF Proper
<1> QED
  BY <1>1, <1>2, <1>3, TryStep, Zenon

\* By the service, whatever becomes of the gateway's call.
LEMMA ServiceSafe ==
  ASSUME GatewayInv, NEW t \in Tries,
         \/ Gateway!Refuse(t) \/ Gateway!Enter(t) \/ Gateway!Succeed(t) \/ Gateway!Die(t)
         \/ \E exception \in Gateway!Exceptions : Gateway!Throw(t, exception)
  PROVE  GatewayInv'
<1>1. CASE Gateway!Refuse(t)
  <2>1. work[t] \in {"queued", "running"} /\ Gateway!Reply(t, Gateway!Refusal, FALSE)
    BY <1>1 DEF Gateway!Refuse
  <2>2. ReplyHonest(Gateway!Refusal, FALSE)
    BY <1>1 DEF Gateway!Refuse, Gateway!Refusal, ReplyHonest
  <2> QED
    BY <2>1, <2>2, ReplySafe
<1>2. CASE Gateway!Enter(t)
  BY <1>2, EnterSafe
<1>3. CASE Gateway!Succeed(t)
  <2>1. PICK d \in BOOLEAN : work[t] \in {"queued", "running"} /\ Gateway!Reply(t, 200, d)
    BY <1>3 DEF Gateway!Succeed
  <2>2. ReplyHonest(200, d)
    BY DEF ReplyHonest, Gateway!Refused
  <2> QED
    BY <2>1, <2>2, ReplySafe
<1>4. CASE Gateway!Die(t)
  <2>1. PICK d \in BOOLEAN : work[t] \in {"queued", "running"} /\ Gateway!Reply(t, 0, d)
    BY <1>4 DEF Gateway!Die
  <2>2. ReplyHonest(0, d)
    BY DEF ReplyHonest, Gateway!Refused
  <2> QED
    BY <2>1, <2>2, ReplySafe
<1>5. ASSUME NEW exception \in Gateway!Exceptions, Gateway!Throw(t, exception)
      PROVE  GatewayInv'
  <2>1. PICK d \in BOOLEAN :
          /\ d => Gateway!Late(exception)
          /\ Gateway!Reply(t, Gateway!StatusOf(route.service, exception), d)
    BY <1>5 DEF Gateway!Throw
  <2>2. work[t] \in {"queued", "running"}
    BY <1>5 DEF Gateway!Throw
  <2> QED
    BY <2>1, <2>2, ThrowHonest, ReplySafe
<1> QED
  BY <1>1, <1>2, <1>3, <1>4, <1>5

\* The invariant of the gateway holds before the first request, and every step
\* keeps it.
LEMMA GatewayInit == Gateway!Init => GatewayInv
<1> SUFFICES ASSUME Gateway!Init PROVE GatewayInv
  OBVIOUS
<1>1. MaxTries \in Nat /\ Tries = 1 .. MaxTries /\ Gateway!Tries = Tries
  BY EdgesAssumption DEF Gateway!GatewayAssumption, Tries, Gateway!Tries
<1>2. Gateway!TypeOK
  BY <1>1 DEF Gateway!Init, Gateway!TypeOK
<1>3. \A t \in Tries : /\ phase[t] = "new" /\ work[t] = "none" /\ status[t] = 0
                       /\ ~done[t] /\ hits < t
  BY <1>1 DEF Gateway!Init
<1>4. TryInv
  BY <1>3 DEF TryInv, Fits
<1> QED
  BY <1>2, <1>3, <1>4 DEF GatewayInv, InTurn

\* Every step of the gateway keeps its invariant.
LEMMA GatewayStep == ASSUME GatewayInv, Gateway!Next PROVE GatewayInv'
BY SendSafe, WindowSafe, ForwardSafe, AnswersSafe, ServiceSafe DEF Gateway!Next, Tries

\* A client that is told of a refusal is told the truth.
LEMMA HonestRefusals == GatewayInv => RefusalsFinal
<1> SUFFICES ASSUME GatewayInv PROVE RefusalsFinal
  OBVIOUS
<1>1. ASSUME NEW t \in Tries
      PROVE  Gateway!Refused(status[t]) => ~done[t] /\ work[t] \in {"none", "over"}
  BY TryTypes DEF Fits, StatusHonest, Gateway!Refused
<1>2. ASSUME NEW t \in Tries, NEW u \in Tries, t < u, done[t], done[u]
      PROVE  status[t] = 408 \/ status[t] >= 500
  <2>1. phase[u] # "new"
    BY <1>2, TryTypes DEF Fits
  <2>2. phase[t] = "answered" /\ status[t] # 200
    BY <1>2, <2>1 DEF GatewayInv, InTurn
  <2>3. Doubtful(status[t])
    BY <1>2, <2>2, TryTypes DEF Fits, StatusHonest
  <2> QED
    BY <2>3, TryTypes DEF Doubtful
<1> QED
  BY <1>1, <1>2 DEF RefusalsFinal, Gateway!RefusalsFinal, Tries

-----------------------------------------------------------------------------
(* Both edges together.                                                    *)

EdgesInv == Inv /\ GatewayInv

\* Gateway and pipeline keep their invariants.
LEMMA EdgesInductive == MCSpec => []EdgesInv
<1>1. MCInit => EdgesInv
  BY InitInv, GatewayInit DEF MCInit, EdgesInv
<1>2. EdgesInv /\ [MCNext]_<<edge, vars, requests>> => EdgesInv'
  <2> SUFFICES ASSUME EdgesInv, [MCNext]_<<edge, vars, requests>> PROVE EdgesInv'
    OBVIOUS
  <2>1. ASSUME UNCHANGED vars PROVE Inv'
    BY <2>1, StepInv DEF EdgesInv
  <2>2. ASSUME UNCHANGED requests PROVE GatewayInv'
    BY <2>2 DEF requests, EdgesInv, GatewayInv, Gateway!TypeOK, InTurn, TryInv
  <2>3. Next => Inv'
    BY StepInv DEF EdgesInv
  <2>4. Gateway!Next => GatewayInv'
    BY GatewayStep DEF EdgesInv
  <2> QED
    BY <2>1, <2>2, <2>3, <2>4 DEF MCNext, EdgesInv
<1> QED
  BY <1>1, <1>2, PTL DEF MCSpec

\* However mails and requests fail, no key is mailed more often than the retries
\* allow and no more requests are counted than were sent.
THEOREM EdgesTyping == MCSpec => []Typed
<1>1. EdgesInv => Typed
  BY DEF EdgesInv, Inv, GatewayInv, Typed
<1> QED
  BY EdgesInductive, <1>1, PTL

\* Whatever times out, throws or dies on the way, a client that is refused can
\* believe that the attempt did nothing and never will, and a client that stops
\* at a clear answer has its operation done twice only if an attempt left it in
\* doubt.
THEOREM RefusalsBelievable == MCSpec => []RefusalsFinal
<1>1. EdgesInv => RefusalsFinal
  BY HonestRefusals DEF EdgesInv
<1> QED
  BY EdgesInductive, <1>1, PTL

=============================================================================
