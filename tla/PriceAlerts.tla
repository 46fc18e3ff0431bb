---------------------------- MODULE PriceAlerts ----------------------------
(***************************************************************************)
(* Price alerts on one stock: members create and remove them through the   *)
(* trading-service, price events arrive from its topic, and the alert-     *)
(* worker scans the untriggered alerts page by page, marks those that are  *)
(* due and publishes a notification for each.                              *)
(*                                                                         *)
(* There is one alert-worker, which handles one event at a time; an event  *)
(* is committed when its handler returns, and is handled again after a     *)
(* crash or an error.  Events of the topic's partitions mix in any order.  *)
(*                                                                         *)
(* The source lists the handler's class among the providers, not the       *)
(* controllers, and lets its schema name another collection than the       *)
(* trading-service's: no event reaches the handler, and it would find no   *)
(* alert.  Wired says whether both are mended; what is checked of the scan *)
(* is checked of the handler as it is written, with Wired = TRUE.          *)
(***************************************************************************)
EXTENDS Naturals, Sequences, SequencesExt, FiniteSets

CONSTANTS
  Alerts,        \* alerts that members may create, once each
  TargetOf, AboveOf,   \* target price; is the direction "above"?
  Prices,
  Events,        \* price events; bounds their number
  BatchSize,     \* BATCH_SIZE
  Wired,
  WorkerMayFail  \* may the worker die, or a call of it throw?

ASSUME AlertAssumption ==
  /\ TargetOf \in [Alerts -> Nat] /\ AboveOf \in [Alerts -> BOOLEAN]
  /\ Events # {} /\ Prices \subseteq Nat /\ BatchSize \in Nat \ {0}
  /\ Wired \in BOOLEAN /\ WorkerMayFail \in BOOLEAN

VARIABLES
  inserted,   \* ids that were ever given to an alert, oldest first
  alerts,     \* ids of the documents
  triggered,  \* ids of those marked triggered
  topic,      \* events published and not committed
  price,      \* price[e]: the price in event e; 0 if it was not published
  stage,      \* the call the worker is about to make: "wait", "find", "mark", "emit"
  event,      \* the event it works on
  page,       \* the page it is at
  loaded,     \* how many alerts that page held
  due,        \* those of them that are to be triggered, or still to be notified
  notified,   \* notified[a]: notifications published for alert a, 2 at most
  expected,   \* history: untriggered alerts due when the scan began
  shifted     \* history: has the result it pages through lost an alert since,
              \* to a full page or to a member who removed it?

worker == <<stage, event, page, loaded, due, expected, shifted>>
vars == <<inserted, alerts, triggered, topic, price, worker, notified>>

Init ==
  /\ inserted = <<>> /\ alerts = {} /\ triggered = {}
  /\ topic = {} /\ price = [e \in Events |-> 0]
  /\ stage = "wait" /\ event = CHOOSE e \in Events : TRUE
  /\ page = 0 /\ loaded = 0 /\ due = {}
  /\ notified = [a \in Alerts |-> 0]
  /\ expected = {} /\ shifted = FALSE

-----------------------------------------------------------------------------
(* The trading-service.                                                    *)

\* Stock and trader exist, which nothing removes.
CreateAlert(a) ==
  /\ a \notin ToSet(inserted)
  /\ inserted' = Append(inserted, a)
  /\ alerts' = alerts \cup {a}
  /\ UNCHANGED <<triggered, topic, price, worker, notified>>

RemoveAlert(a) ==
  /\ a \in alerts
  /\ alerts' = alerts \ {a}
  /\ shifted' = (shifted \/ a \notin triggered)
  /\ UNCHANGED <<inserted, triggered, topic, price, stage, event, page, loaded, due,
                 notified, expected>>

PublishPrice(e, p) ==
  /\ price[e] = 0 /\ p # 0
  /\ price' = [price EXCEPT ![e] = p]
  /\ topic' = topic \cup {e}
  /\ UNCHANGED <<inserted, alerts, triggered, worker, notified>>

-----------------------------------------------------------------------------
(* The alert-worker.                                                       *)

Untriggered == alerts \ triggered

Due(a, p) == IF AboveOf[a] THEN p >= TargetOf[a] ELSE p <= TargetOf[a]

OnPriceUpdated(e) ==
  /\ Wired /\ stage = "wait" /\ e \in topic
  /\ stage' = "find" /\ event' = e /\ page' = 0
  /\ expected' = {a \in Untriggered : Due(a, price[e])}
  /\ shifted' = FALSE
  /\ UNCHANGED <<inserted, alerts, triggered, topic, price, loaded, due, notified>>

\* The handler returns, and its event is committed; or it goes on to page n.
Return ==
  /\ stage' = "wait" /\ topic' = topic \ {event}
  /\ page' = 0 /\ loaded' = 0 /\ due' = {}

NextPage(n) ==
  IF n < BatchSize
  THEN Return
  ELSE stage' = "find" /\ page' = page + 1 /\ loaded' = 0 /\ due' = {} /\ UNCHANGED topic

\* The query answers in natural order, the order of insertion.
Before(a, b) == \E i, j \in DOMAIN inserted : i < j /\ inserted[i] = a /\ inserted[j] = b
Place(a) == Cardinality({b \in Untriggered : Before(b, a)})

Batch == {a \in Untriggered : Place(a) \in page * BatchSize .. (page + 1) * BatchSize - 1}

\* Mutant: the scan ends at a page on which nothing is due.
FindUntilQuiet ==
  LET dueNow == {a \in Batch : Due(a, price[event])}
  IN  /\ stage = "find"
      /\ IF dueNow = {}
         THEN Return
         ELSE stage' = "mark" /\ loaded' = Cardinality(Batch) /\ due' = dueNow /\ UNCHANGED <<topic, page>>
      /\ UNCHANGED <<inserted, alerts, triggered, price, event, notified, expected, shifted>>

\* find, skip and limit; an empty page ends the scan.
FindPage ==
  LET dueNow == {a \in Batch : Due(a, price[event])}
  IN  /\ stage = "find"
      /\ IF dueNow = {}
         THEN NextPage(Cardinality(Batch))
         ELSE stage' = "mark" /\ loaded' = Cardinality(Batch) /\ due' = dueNow /\ UNCHANGED <<topic, page>>
      /\ UNCHANGED <<inserted, alerts, triggered, price, event, notified, expected, shifted>>

MarkTriggered ==
  /\ stage = "mark"
  /\ triggered' = triggered \cup due
  /\ stage' = "emit"
  /\ shifted' = (shifted \/ loaded = BatchSize)
  /\ UNCHANGED <<inserted, alerts, topic, price, event, page, loaded, due, notified, expected>>

Notify(a) == notified' = [notified EXCEPT ![a] = IF @ < 2 THEN @ + 1 ELSE @]

\* Mutant: notifications go out before the alerts are marked.
EmitUnmarked(a) ==
  /\ stage \in {"mark", "emit"} /\ a \in due
  /\ Notify(a)
  /\ UNCHANGED <<inserted, alerts, triggered, topic, price, worker>>

\* One of the emits of a chunk; chunks only order them.
EmitAlert(a) ==
  /\ stage = "emit" /\ a \in due
  /\ Notify(a)
  /\ IF due = {a}
     THEN NextPage(loaded)
     ELSE due' = due \ {a} /\ UNCHANGED <<topic, stage, page, loaded>>
  /\ UNCHANGED <<inserted, alerts, triggered, price, event, expected, shifted>>

\* The worker dies or a call throws: the event stays and is handled again.
Fail ==
  /\ WorkerMayFail /\ stage # "wait"
  /\ stage' = "wait" /\ page' = 0 /\ loaded' = 0 /\ due' = {}
  /\ UNCHANGED <<inserted, alerts, triggered, topic, price, event, notified, expected, shifted>>

Scan == FindPage \/ MarkTriggered \/ \E a \in Alerts : EmitAlert(a)

Next ==
  \/ \E a \in Alerts : CreateAlert(a) \/ RemoveAlert(a)
  \/ \E e \in Events : OnPriceUpdated(e) \/ \E p \in Prices : PublishPrice(e, p)
  \/ Scan \/ Fail

Spec == Init /\ [][Next]_vars

-----------------------------------------------------------------------------
(* Properties.                                                             *)

\* Types; marks, pages and notifications belong to alerts that were created,
\* and what is to be notified is marked.
TypeOK ==
  /\ inserted \in Seq(Alerts) /\ IsInjective(inserted)
  /\ alerts \subseteq ToSet(inserted) /\ triggered \subseteq ToSet(inserted)
  /\ topic \subseteq Events /\ price \in [Events -> Nat]
  /\ stage \in {"wait", "find", "mark", "emit"} /\ event \in Events
  /\ page \in Nat /\ loaded \in 0 .. BatchSize
  /\ due \subseteq ToSet(inserted)
  /\ notified \in [Alerts -> 0 .. 2]
  /\ expected \subseteq ToSet(inserted) /\ shifted \in BOOLEAN

\* No alert is notified twice, however often its event is delivered and
\* wherever the worker died before (alert.consumer.ts marks, then emits).
NotifiedOnce == \A a \in Alerts : notified[a] <= 1

\* A scan that ends has triggered every alert that was due when it began and
\* was not removed, unless the pages shifted under it: the handler pages with
\* skip through a result from which it removes what it triggers.
ScanMissesNothing ==
  [][stage # "wait" /\ topic' # topic /\ event \notin topic' /\ ~shifted'
       => expected \cap alerts' \subseteq triggered']_vars
=============================================================================
