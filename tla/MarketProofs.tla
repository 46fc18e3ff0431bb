---------------------------- MODULE MarketProofs -----------------------------
(***************************************************************************)
(* The market (MCMarket), for any number of alerts, stocks, members,       *)
(* requests and documents and any page size.  No alert is notified twice   *)
(* and no unshifted scan misses an alert; the copies of stocks and of      *)
(* portfolios in Redis agree with the collections or are in one of the     *)
(* named cases; reports contradict each other by no more than what goes on *)
(* while they are computed; and a walk through a listing is complete.      *)
(***************************************************************************)
EXTENDS MCMarket, SumTheorems

\* An alert is notified only after it was marked, and once for its marking.
NoticeInv ==
  /\ \A a \in Alerts : notified[a] <= 1 /\ (notified[a] > 0 => a \in triggered)
  /\ stage = "mark" => due \cap triggered = {}
  /\ stage = "emit" => due \subseteq triggered /\ \A a \in due : notified[a] = 0

\* Alerts that were due when the scan began and still wait to be triggered.
Missing == expected \cap Untriggered

\* While its pages have not shifted, a scan has what is missing on this page or
\* ahead of it.  A full page that is marked shifts them.
Ahead ==
  /\ stage = "find" => \A a \in Missing : Place(a) >= page * BatchSize
  /\ stage = "mark" => Missing \subseteq due \/ loaded = BatchSize
  /\ stage = "emit" => Missing = {} /\ loaded < BatchSize

ScanInv ==
  /\ stage # "wait" => event \in topic
  /\ \A e \in topic : price[e] # 0
  /\ stage # "wait" => \A a \in expected : Due(a, price[event])
  /\ stage # "wait" /\ ~shifted => Ahead

-----------------------------------------------------------------------------
(* Places in the result of the query.                                      *)

\* The order of insertion is a strict linear order.
LEMMA OrderFacts ==
  ASSUME TypeOK
  PROVE  /\ IsFiniteSet(Untriggered)
         /\ \A a : ~Before(a, a)
         /\ \A a, b, c : Before(a, b) /\ Before(b, c) => Before(a, c)
         /\ \A a, b \in Untriggered : a = b \/ Before(a, b) \/ Before(b, a)
<1> DEFINE n == Len(inserted)
<1>1. inserted \in [1 .. n -> Alerts] /\ n \in Nat /\ DOMAIN inserted = 1 .. n
  BY DEF TypeOK
<1>2. \A i, j \in 1 .. n : inserted[i] = inserted[j] => i = j
  BY <1>1 DEF TypeOK, IsInjective
<1>3. ToSet(inserted) = {inserted[i] : i \in 1 .. n}
  BY <1>1 DEF ToSet
<1>4. IsFiniteSet(ToSet(inserted))
  <2>1. IsFiniteSet(1 .. n)
    BY <1>1, FS_Interval
  <2>2. inserted \in Surjection(1 .. n, ToSet(inserted))
    BY <1>1, <1>3 DEF Surjection
  <2> QED
    BY <2>1, <2>2, FS_Surjection
<1>5. Untriggered \in SUBSET ToSet(inserted)
  BY DEF TypeOK, Untriggered
<1>6. IsFiniteSet(Untriggered)
  BY <1>4, <1>5, FS_Subset
<1>7. \A a : ~Before(a, a)
  BY <1>1, <1>2 DEF Before
<1>8. \A a, b, c : Before(a, b) /\ Before(b, c) => Before(a, c)
  BY <1>1, <1>2 DEF Before
<1>9. \A a, b \in Untriggered : a = b \/ Before(a, b) \/ Before(b, a)
  <2> SUFFICES ASSUME NEW a \in Untriggered, NEW b \in Untriggered
               PROVE  a = b \/ Before(a, b) \/ Before(b, a)
    OBVIOUS
  <2>1. PICK i \in 1 .. n, j \in 1 .. n : inserted[i] = a /\ inserted[j] = b
    BY <1>3, <1>5
  <2>2. i < j \/ i = j \/ j < i
    BY <1>1
  <2> QED
    BY <1>1, <2>1, <2>2 DEF Before
<1> QED
  BY <1>6, <1>7, <1>8, <1>9

\* No two untriggered alerts share a place in the result.
LEMMA PlacesDiffer ==
  ASSUME TypeOK, NEW a \in Untriggered, NEW b \in Untriggered, Place(a) = Place(b)
  PROVE  a = b
<1> DEFINE Below(c) == {d \in Untriggered : Before(d, c)}
<1>1. ASSUME NEW c \in Untriggered, NEW d \in Untriggered, Before(c, d)
      PROVE  Place(c) # Place(d)
  <2>1. Below(c) \in SUBSET Below(d) /\ c \in Below(d) \ Below(c)
    BY <1>1, OrderFacts
  <2>2. IsFiniteSet(Below(d))
    BY OrderFacts, FS_Subset
  <2>3. Cardinality(Below(c)) # Cardinality(Below(d))
    BY <2>1, <2>2, FS_Subset
  <2> QED
    BY <2>3 DEF Place
<1> QED
  BY <1>1, OrderFacts

\* Places number the untriggered alerts from 0, in the order of insertion.
LEMMA PlaceFacts ==
  ASSUME TypeOK
  PROVE  /\ \A a \in Untriggered : Place(a) \in 0 .. Cardinality(Untriggered) - 1
         /\ \A k \in 0 .. Cardinality(Untriggered) - 1 : \E a \in Untriggered : Place(a) = k
<1> DEFINE U == Untriggered
           Below(a) == {b \in U : Before(b, a)}
           n == Cardinality(U)
<1>1. IsFiniteSet(U) /\ n \in Nat
  BY OrderFacts, FS_CardinalityType
<1>2. ASSUME NEW a \in U
      PROVE  IsFiniteSet(Below(a)) /\ Place(a) = Cardinality(Below(a)) /\ Place(a) \in 0 .. n - 1
  <2>1. Below(a) \in SUBSET U /\ a \in U \ Below(a)
    BY OrderFacts
  <2>2. IsFiniteSet(Below(a)) /\ Cardinality(Below(a)) <= n /\ Cardinality(Below(a)) # n
    BY <1>1, <2>1, FS_Subset
  <2>3. Cardinality(Below(a)) \in Nat
    BY <2>2, FS_CardinalityType
  <2> QED
    BY <1>1, <2>2, <2>3 DEF Place
<1>4. \A a, b \in U : Place(a) = Place(b) => a = b
  BY PlacesDiffer
<1> DEFINE f == [a \in U |-> Place(a)]
<1>5. f \in Injection(U, 0 .. n - 1)
  BY <1>2, <1>4 DEF Injection, IsInjective
<1>6. IsFiniteSet(0 .. n - 1) /\ Cardinality(0 .. n - 1) = n
  BY <1>1, FS_Interval
<1>7. f \in Surjection(U, 0 .. n - 1)
  BY <1>5, <1>6, FS_Injection
<1> QED
  BY <1>2, <1>7 DEF Surjection

\* A page holds at most a batch, and a page with an alert beyond it a full one.
LEMMA PageFacts ==
  ASSUME TypeOK
  PROVE  /\ Batch \subseteq Untriggered /\ Cardinality(Batch) \in 0 .. BatchSize
         /\ \A a \in Untriggered :
              Place(a) >= (page + 1) * BatchSize => Cardinality(Batch) = BatchSize
<1> DEFINE lo == page * BatchSize
           Slots == lo .. lo + BatchSize - 1
           f == [b \in Batch |-> Place(b)]
<1>1. lo \in Nat /\ BatchSize \in Nat \ {0}
  BY AlertAssumption DEF TypeOK
<1>2. (page + 1) * BatchSize = lo + BatchSize
  BY AlertAssumption DEF TypeOK
<1>3. Batch = {b \in Untriggered : Place(b) \in Slots}
  BY <1>1, <1>2 DEF Batch
<1> HIDE DEF lo
<1>4. IsFiniteSet(Batch) /\ Batch \subseteq Untriggered
  BY <1>3, OrderFacts, FS_Subset
<1>5. IsFiniteSet(Slots) /\ Cardinality(Slots) = BatchSize
  <2>1. lo \in Int /\ lo + BatchSize - 1 \in Int /\ ~(lo > lo + BatchSize - 1)
    BY <1>1
  <2>2. IsFiniteSet(Slots) /\ Cardinality(Slots) = (lo + BatchSize - 1) - lo + 1
    BY <2>1, FS_Interval
  <2> QED
    BY <1>1, <2>2
<1>6. f \in Injection(Batch, Slots)
  <2>1. \A b, c \in Batch : Place(b) = Place(c) => b = c
    BY <1>4, PlacesDiffer
  <2> QED
    BY <1>3, <2>1 DEF Injection, IsInjective
<1>7. Cardinality(Batch) \in 0 .. BatchSize
  BY <1>1, <1>4, <1>5, <1>6, FS_Injection, FS_CardinalityType
<1>8. ASSUME NEW a \in Untriggered, Place(a) >= lo + BatchSize
      PROVE  Cardinality(Batch) = BatchSize
  <2>1. Place(a) \in 0 .. Cardinality(Untriggered) - 1 /\ Cardinality(Untriggered) \in Nat
    BY OrderFacts, PlaceFacts, FS_CardinalityType
  <2>2. Slots \subseteq 0 .. Cardinality(Untriggered) - 1
    BY <1>1, <1>8, <2>1
  <2>3. \A k \in Slots : \E b \in Batch : Place(b) = k
    BY <1>3, <2>2, PlaceFacts
  <2>4. f \in Surjection(Batch, Slots)
    BY <1>3, <2>3 DEF Surjection
  <2>5. Cardinality(Slots) <= Cardinality(Batch)
    BY <1>4, <2>4, FS_Surjection
  <2> QED
    BY <1>1, <1>5, <1>7, <2>5
<1> QED
  BY <1>2, <1>4, <1>7, <1>8

-----------------------------------------------------------------------------
(* Types.                                                                  *)

\* Every step of the alerts keeps the types.
LEMMA TypeStep ==
  ASSUME TypeOK, [Next]_vars
  PROVE  TypeOK'
<1> USE DEF TypeOK
<1>1. ASSUME NEW a \in Alerts, CreateAlert(a)
      PROVE  TypeOK'
  <2>1. a \notin ToSet(inserted) /\ inserted' = Append(inserted, a) /\ alerts' = alerts \cup {a}
    BY <1>1 DEF CreateAlert
  <2>2. /\ inserted' \in Seq(Alerts) /\ Len(inserted) \in Nat
        /\ DOMAIN inserted = 1 .. Len(inserted) /\ DOMAIN inserted' = 1 .. Len(inserted) + 1
        /\ \A i \in DOMAIN inserted : inserted'[i] = inserted[i]
        /\ inserted'[Len(inserted) + 1] = a
    BY <2>1
  <2>3. IsInjective(inserted')
    BY <2>1, <2>2 DEF IsInjective, ToSet
  <2>4. ToSet(inserted') = ToSet(inserted) \cup {a}
    BY <2>2 DEF ToSet
  <2> QED
    BY <1>1, <2>1, <2>2, <2>3, <2>4 DEF CreateAlert, worker
<1>2. ASSUME NEW a \in Alerts, RemoveAlert(a)
      PROVE  TypeOK'
  BY <1>2 DEF RemoveAlert
<1>3. ASSUME NEW e \in Events, OnPriceUpdated(e)
      PROVE  TypeOK'
  BY <1>3 DEF OnPriceUpdated, Untriggered
<1>4. ASSUME NEW e \in Events, NEW p \in Prices, PublishPrice(e, p)
      PROVE  TypeOK'
  BY <1>4, AlertAssumption DEF PublishPrice, worker
<1>5. CASE FindPage
  <2>1. Batch \subseteq Untriggered /\ Cardinality(Batch) \in 0 .. BatchSize
    BY PageFacts
  <2>3. /\ page' \in Nat /\ loaded' \in 0 .. BatchSize /\ due' \subseteq Batch
        /\ topic' \subseteq topic /\ stage' \in {"wait", "find", "mark"}
    BY <1>5, <2>1, AlertAssumption DEF FindPage, NextPage, Return
  <2> QED
    BY <1>5, <2>1, <2>3 DEF FindPage, Untriggered
<1>6. CASE MarkTriggered
  BY <1>6 DEF MarkTriggered
<1>7. ASSUME NEW a \in Alerts, EmitAlert(a)
      PROVE  TypeOK'
  <2>1. notified' \in [Alerts -> 0 .. 2]
    BY <1>7 DEF EmitAlert, Notify
  <2>2. /\ page' \in Nat /\ loaded' \in 0 .. BatchSize /\ due' \subseteq due
        /\ topic' \subseteq topic /\ stage' \in {"wait", "find", "emit"}
    BY <1>7, AlertAssumption DEF EmitAlert, NextPage, Return
  <2> QED
    BY <1>7, <2>1, <2>2 DEF EmitAlert
<1>8. CASE Fail
  BY <1>8, AlertAssumption DEF Fail
<1>9. CASE UNCHANGED vars
  BY <1>9 DEF vars, worker
<1> QED
  BY <1>1, <1>2, <1>3, <1>4, <1>5, <1>6, <1>7, <1>8, <1>9 DEF Next, Scan

\* The first states of the alerts have the types.
LEMMA TypeInit == Init => TypeOK
<1> SUFFICES ASSUME Init PROVE TypeOK
  OBVIOUS
<1>1. (CHOOSE e \in Events : TRUE) \in Events
  BY AlertAssumption
<1>2. ToSet(<<>>) = {} /\ IsInjective(<<>>) /\ <<>> \in Seq(Alerts)
  BY DEF ToSet, IsInjective
<1>3. event \in Events /\ page \in Nat /\ loaded \in 0 .. BatchSize
  BY <1>1, AlertAssumption DEF Init
<1>4. price \in [Events -> Nat] /\ notified \in [Alerts -> 0 .. 2]
  BY DEF Init
<1> QED
  BY <1>2, <1>3, <1>4 DEF Init, TypeOK

-----------------------------------------------------------------------------
(* Notices.                                                                *)

\* Every step of the alerts keeps what is known of notices.
LEMMA NoticeStep ==
  ASSUME TypeOK, NoticeInv, [Next]_vars
  PROVE  NoticeInv'
<1> USE DEF NoticeInv
<1>1. CASE FindPage
  <2>1. /\ UNCHANGED <<triggered, notified>>
        /\ \/ stage' \in {"wait", "find"}
           \/ stage' = "mark" /\ due' \subseteq Batch
    BY <1>1 DEF FindPage, NextPage, Return
  <2>2. Batch \cap triggered = {}
    BY PageFacts DEF Untriggered
  <2> QED
    BY <2>1, <2>2
<1>2. CASE MarkTriggered
  <2>1. \A a \in due : a \in Alerts
    BY DEF TypeOK, ToSet
  <2>2. /\ stage = "mark" /\ stage' = "emit"
        /\ triggered' = triggered \cup due /\ UNCHANGED <<due, notified>>
    BY <1>2 DEF MarkTriggered
  <2>3. \A a \in due : notified[a] = 0
    <3> SUFFICES ASSUME NEW a \in due PROVE notified[a] = 0
      OBVIOUS
    <3>1. ~(notified[a] > 0) /\ notified[a] \in 0 .. 2
      BY <2>1, <2>2 DEF TypeOK
    <3> QED
      BY <3>1
  <2> QED
    BY <2>2, <2>3
<1>3. ASSUME NEW a \in Alerts, EmitAlert(a)
      PROVE  NoticeInv'
  <2>1. stage = "emit" /\ a \in due /\ notified[a] = 0 /\ a \in triggered
    BY <1>3 DEF EmitAlert
  <2>2. notified' = [notified EXCEPT ![a] = 1]
    BY <1>3, <2>1 DEF EmitAlert, Notify
  <2>3. /\ triggered' = triggered
        /\ stage' \in {"wait", "find"} \/ (stage' = "emit" /\ due' = due \ {a})
    BY <1>3, <2>1 DEF EmitAlert, NextPage, Return
  <2>4. \A b \in Alerts : notified'[b] <= 1 /\ (notified'[b] > 0 => b \in triggered')
    BY <2>1, <2>2, <2>3 DEF TypeOK
  <2>5. \A b \in due \ {a} : notified'[b] = notified[b]
    BY <2>2 DEF TypeOK, ToSet
  <2> QED
    BY <2>1, <2>3, <2>4, <2>5
<1>4. CASE /\ UNCHANGED <<triggered, notified>>
           /\ stage' \in {"wait", "find"} \/ UNCHANGED <<stage, due>>
  BY <1>4
<1>5. ASSUME NEW a \in Alerts, CreateAlert(a) \/ RemoveAlert(a)
      PROVE  UNCHANGED <<triggered, notified, stage, due>>
  BY <1>5 DEF CreateAlert, RemoveAlert, worker
<1>6. ASSUME NEW e \in Events, OnPriceUpdated(e)
      PROVE  UNCHANGED <<triggered, notified>> /\ stage' = "find"
  BY <1>6 DEF OnPriceUpdated
<1>7. ASSUME NEW e \in Events, NEW q \in Prices, PublishPrice(e, q)
      PROVE  UNCHANGED <<triggered, notified, stage, due>>
  BY <1>7 DEF PublishPrice, worker
<1>8. CASE Fail
  BY <1>8 DEF Fail
<1>9. CASE UNCHANGED vars
  BY <1>9 DEF vars, worker
<1> QED
  BY <1>1, <1>2, <1>3, <1>4, <1>5, <1>6, <1>7, <1>8, <1>9 DEF Next, Scan

\* However often an event is delivered and wherever the worker died before, no
\* alert is notified twice (alert.consumer.ts marks, then emits).
THEOREM NoticesOnce == Spec => []NotifiedOnce
<1>1. Init => NoticeInv
  BY DEF Init, NoticeInv
<1>2. NoticeInv => NotifiedOnce
  BY DEF NoticeInv, NotifiedOnce
<1> QED
  BY TypeInit, TypeStep, NoticeStep, <1>1, <1>2, PTL DEF Spec

\* Alerts, marks and pages stay what they are in every reachable state.
THEOREM AlertTyping == Spec => []TypeOK
BY TypeInit, TypeStep, PTL DEF Spec

-----------------------------------------------------------------------------
(* The scan.                                                               *)

\* New alerts come last, so the others keep their places.
LEMMA CreateKeepsPlaces ==
  ASSUME TypeOK, NEW a \in Alerts, CreateAlert(a)
  PROVE  /\ Untriggered' = Untriggered \cup {a} /\ a \notin ToSet(inserted)
         /\ \A b \in Untriggered : Place(b)' = Place(b)
<1>1. /\ a \notin ToSet(inserted) /\ inserted' = Append(inserted, a)
      /\ alerts' = alerts \cup {a} /\ triggered' = triggered
  BY DEF CreateAlert
<1>2. Untriggered' = Untriggered \cup {a}
  BY <1>1 DEF TypeOK, Untriggered
<1>3. /\ Len(inserted) \in Nat /\ DOMAIN inserted = 1 .. Len(inserted)
      /\ DOMAIN inserted' = 1 .. Len(inserted) + 1
      /\ \A i \in DOMAIN inserted : inserted'[i] = inserted[i]
      /\ inserted'[Len(inserted) + 1] = a
  BY <1>1 DEF TypeOK
<1>4. \A b \in ToSet(inserted) : b # a
  BY <1>1
<1>5. ASSUME NEW b \in ToSet(inserted)
      PROVE  ~Before(a, b)' /\ \A c : c # a => (Before(c, b)' <=> Before(c, b))
  <2>1. inserted'[Len(inserted) + 1] # b
    BY <1>3, <1>4
  <2>2. \A i \in DOMAIN inserted : inserted[i] # a
    BY <1>1 DEF ToSet
  <2> QED
    BY <1>3, <2>1, <2>2 DEF Before
<1>6. ASSUME NEW b \in Untriggered
      PROVE  Place(b)' = Place(b)
  <2>1. b \in ToSet(inserted) /\ a \notin Untriggered
    BY <1>1 DEF TypeOK, Untriggered
  <2>2. {c \in Untriggered' : Before(c, b)'} = {c \in Untriggered : Before(c, b)}
    BY <1>2, <1>5, <2>1
  <2> QED
    BY <2>2 DEF Place
<1> QED
  BY <1>1, <1>2, <1>6

\* So does a step that leaves the result of the query alone.
LEMMA CalmPlaces ==
  ASSUME UNCHANGED inserted, Untriggered' = Untriggered
  PROVE  \A b : Place(b)' = Place(b)
BY DEF Place, Before

\* A step of the trading-service leaves what the scan has ahead of it alone.
LEMMA OutsideScan ==
  ASSUME TypeOK, ScanInv, UNCHANGED <<stage, event, page, loaded, due, expected>>,
         event \in topic => event \in topic' /\ price'[event] = price[event],
         \A e \in topic' : price'[e] # 0,
         shifted' \/ (shifted' = shifted /\ Missing' = Missing
                      /\ \A a \in Missing : Place(a)' = Place(a))
  PROVE  ScanInv'
<1>1. stage' # "wait" => event' \in topic'
  BY DEF ScanInv
<1>2. stage' # "wait" => \A a \in expected' : Due(a, price'[event'])
  BY DEF ScanInv, Due
<1>3. stage' # "wait" /\ ~shifted' => Ahead'
  <2>1. CASE shifted'
    BY <2>1
  <2>2. CASE ~shifted'
    BY <2>2 DEF ScanInv, Ahead
  <2> QED
    BY <2>1, <2>2
<1> QED
  BY <1>1, <1>2, <1>3 DEF ScanInv, Due

\* A page that is read holds what is missing at its places; if nothing on it is
\* due, what is missing is on a later page, which exists only if it is full.
LEMMA FindStep ==
  ASSUME TypeOK, ScanInv, FindPage
  PROVE  ScanInv' /\ (stage' = "wait" /\ ~shifted' => Missing' = {})
<1>1. /\ stage = "find" /\ UNCHANGED <<price, event, expected, shifted>>
      /\ UNCHANGED inserted /\ Untriggered' = Untriggered /\ Missing' = Missing
      /\ topic' \subseteq topic /\ (stage' # "wait" => topic' = topic)
  BY DEF FindPage, NextPage, Return, Untriggered, Missing
<1>2. \A a : Place(a)' = Place(a)
  BY <1>1, CalmPlaces
<1>3. /\ stage' # "wait" => event' \in topic'
      /\ \A e \in topic' : price'[e] # 0
      /\ stage' # "wait" => \A a \in expected' : Due(a, price'[event'])
  BY <1>1 DEF ScanInv, Due
<1>4. /\ page \in Nat /\ BatchSize \in Nat \ {0} /\ page * BatchSize \in Nat
      /\ (page + 1) * BatchSize = page * BatchSize + BatchSize
  BY AlertAssumption DEF TypeOK
<1>5. ASSUME ~shifted, NEW a \in Missing, a \notin Batch
      PROVE  Place(a) >= (page + 1) * BatchSize /\ Cardinality(Batch) = BatchSize
  <2>1. a \in Untriggered
    BY DEF Missing
  <2>2. Place(a) >= page * BatchSize /\ Place(a) \in Nat
    <3>1. Place(a) \in 0 .. Cardinality(Untriggered) - 1
      BY <2>1, PlaceFacts
    <3> QED
      BY <1>1, <1>5, <3>1 DEF ScanInv, Ahead
  <2>3. ~(Place(a) \in page * BatchSize .. (page + 1) * BatchSize - 1)
    BY <1>5, <2>1 DEF Batch
  <2>4. Place(a) >= (page + 1) * BatchSize
    <3> DEFINE lo == page * BatchSize
               hi == (page + 1) * BatchSize
    <3>1. lo \in Nat /\ hi = lo + BatchSize /\ BatchSize \in Nat
      BY <1>4
    <3>2. Place(a) >= lo /\ Place(a) \in Nat /\ ~(Place(a) \in lo .. hi - 1)
      BY <2>2, <2>3
    <3> HIDE DEF lo, hi
    <3>3. Place(a) >= hi
      BY <3>1, <3>2
    <3> QED
      BY <3>3 DEF hi
  <2> QED
    BY <2>1, <2>4, PageFacts
<1> DEFINE dueNow == {a \in Batch : Due(a, price[event])}
<1>6. \A a \in Missing \cap Batch : a \in dueNow
  BY <1>1 DEF ScanInv, Missing
<1>7. CASE dueNow = {}
  <2>1. NextPage(Cardinality(Batch)) /\ Cardinality(Batch) \in 0 .. BatchSize
    BY <1>7, PageFacts DEF FindPage
  <2>2. CASE Cardinality(Batch) < BatchSize
    <3>1. stage' = "wait"
      BY <2>1, <2>2 DEF NextPage, Return
    <3>2. ~shifted => Missing = {}
      BY <1>4, <1>5, <1>6, <1>7, <2>2
    <3> QED
      BY <1>1, <1>3, <3>1, <3>2 DEF ScanInv
  <2>3. CASE ~(Cardinality(Batch) < BatchSize)
    <3>1. stage' = "find" /\ page' = page + 1
      BY <2>1, <2>3 DEF NextPage
    <3>2. ~shifted => \A a \in Missing : Place(a) >= page' * BatchSize
      BY <1>5, <1>6, <1>7, <3>1
    <3>3. ~shifted' => Ahead'
      BY <1>1, <1>2, <3>1, <3>2 DEF Ahead
    <3> QED
      BY <1>3, <3>1, <3>3 DEF ScanInv
  <2> QED
    BY <2>2, <2>3
<1>8. CASE dueNow # {}
  <2>1. stage' = "mark" /\ loaded' = Cardinality(Batch) /\ due' = dueNow
    BY <1>8 DEF FindPage
  <2>2. ~shifted => Missing \subseteq dueNow \/ Cardinality(Batch) = BatchSize
    BY <1>5, <1>6
  <2>3. ~shifted' => Ahead'
    BY <1>1, <2>1, <2>2 DEF Ahead
  <2> QED
    BY <1>3, <2>1, <2>3 DEF ScanInv
<1> QED
  BY <1>7, <1>8

\* Every step of the alerts keeps what is known of the scan.
LEMMA ScanStep ==
  ASSUME TypeOK, ScanInv, [Next]_vars
  PROVE  ScanInv'
<1>1. ASSUME NEW a \in Alerts, CreateAlert(a)
      PROVE  ScanInv'
  <2>1. /\ UNCHANGED <<topic, price, stage, event, page, loaded, due, expected, shifted>>
    BY <1>1 DEF CreateAlert, worker
  <2>2. Missing' = Missing
    BY <1>1, <2>1, CreateKeepsPlaces DEF Missing, TypeOK
  <2>3. \A b \in Missing : Place(b)' = Place(b)
    BY <1>1, CreateKeepsPlaces DEF Missing
  <2> QED
    BY <2>1, <2>2, <2>3, OutsideScan DEF ScanInv
<1>2. ASSUME NEW a \in Alerts, RemoveAlert(a)
      PROVE  ScanInv'
  <2>1. /\ UNCHANGED <<inserted, triggered, topic, price, stage, event, page, loaded, due, expected>>
        /\ alerts' = alerts \ {a} /\ shifted' = (shifted \/ a \notin triggered)
    BY <1>2 DEF RemoveAlert
  <2>2. CASE a \in triggered
    <3>1. Untriggered' = Untriggered /\ shifted' = shifted
      BY <2>1, <2>2 DEF Untriggered, TypeOK
    <3>2. Missing' = Missing /\ \A b \in Missing : Place(b)' = Place(b)
      BY <2>1, <3>1, CalmPlaces DEF Missing
    <3> QED
      BY <2>1, <3>1, <3>2, OutsideScan DEF ScanInv
  <2>3. CASE a \notin triggered
    BY <2>1, <2>3, OutsideScan DEF ScanInv
  <2> QED
    BY <2>2, <2>3
<1>3. ASSUME NEW e \in Events, OnPriceUpdated(e)
      PROVE  ScanInv'
  <2>1. /\ e \in topic /\ stage' = "find" /\ event' = e /\ page' = 0
        /\ expected' = {a \in Untriggered : Due(a, price[e])}
        /\ UNCHANGED <<inserted, alerts, triggered, topic, price>>
    BY <1>3 DEF OnPriceUpdated
  <2>2. Untriggered' = Untriggered /\ \A a : Place(a)' = Place(a)
    BY <2>1, CalmPlaces DEF Untriggered
  <2>3. \A a \in Missing' : Place(a)' >= 0
    BY <2>2, PlaceFacts DEF Missing
  <2>4. page' * BatchSize = 0
    BY <2>1, AlertAssumption
  <2>5. Ahead'
    BY <2>1, <2>3, <2>4 DEF Ahead
  <2>6. \A a \in expected' : Due(a, price'[event'])
    BY <2>1
  <2> QED
    BY <2>1, <2>5, <2>6 DEF ScanInv
<1>4. ASSUME NEW e \in Events, NEW q \in Prices, PublishPrice(e, q)
      PROVE  ScanInv'
  <2>1. /\ price[e] = 0 /\ q # 0 /\ price' = [price EXCEPT ![e] = q] /\ topic' = topic \cup {e}
        /\ UNCHANGED <<inserted, alerts, triggered, stage, event, page, loaded, due, expected, shifted>>
    BY <1>4 DEF PublishPrice, worker
  <2>2. Missing' = Missing /\ \A a \in Missing : Place(a)' = Place(a)
    BY <2>1, CalmPlaces DEF Missing, Untriggered
  <2>3. /\ event \in topic => event \in topic' /\ price'[event] = price[event]
        /\ \A d \in topic' : price'[d] # 0
    BY <2>1 DEF ScanInv, TypeOK
  <2> QED
    BY <2>1, <2>2, <2>3, OutsideScan
<1>5. CASE FindPage
  BY <1>5, FindStep
<1>6. CASE MarkTriggered
  <2>1. /\ stage = "mark" /\ stage' = "emit" /\ triggered' = triggered \cup due
        /\ shifted' = (shifted \/ loaded = BatchSize)
        /\ UNCHANGED <<inserted, alerts, topic, price, event, page, loaded, due, expected>>
    BY <1>6 DEF MarkTriggered
  <2>2. ~shifted' => Missing' = {} /\ loaded' < BatchSize
    <3> SUFFICES ASSUME ~shifted' PROVE Missing' = {} /\ loaded' < BatchSize
      OBVIOUS
    <3>1. Missing \subseteq due /\ loaded # BatchSize
      BY <2>1 DEF ScanInv, Ahead
    <3>2. loaded < BatchSize
      BY <3>1, AlertAssumption DEF TypeOK
    <3> QED
      BY <2>1, <3>1, <3>2 DEF Missing, Untriggered
  <2> QED
    BY <2>1, <2>2 DEF ScanInv, Ahead, Due
<1>7. ASSUME NEW a \in Alerts, EmitAlert(a)
      PROVE  ScanInv'
  <2>1. /\ stage = "emit" /\ topic' \subseteq topic
        /\ UNCHANGED <<inserted, alerts, triggered, price, event, expected, shifted>>
    BY <1>7 DEF EmitAlert, NextPage, Return
  <2>2. Missing' = Missing
    BY <2>1 DEF Missing, Untriggered
  <2>3. stage' # "wait" => topic' = topic
    BY <1>7 DEF EmitAlert, NextPage, Return
  <2>4. ASSUME ~shifted, stage' # "wait"
        PROVE  stage' = "emit" /\ loaded' = loaded
    BY <1>7, <2>1, <2>4 DEF EmitAlert, NextPage, Return, ScanInv, Ahead
  <2>5. stage' # "wait" /\ ~shifted' => Ahead'
    BY <2>1, <2>2, <2>4 DEF ScanInv, Ahead
  <2> QED
    BY <2>1, <2>3, <2>5 DEF ScanInv, Due
<1>8. CASE Fail
  BY <1>8 DEF Fail, ScanInv
<1>9. CASE UNCHANGED vars
  <2>1. Missing' = Missing /\ \A a \in Missing : Place(a)' = Place(a)
    BY <1>9, CalmPlaces DEF vars, worker, Missing, Untriggered
  <2> QED
    BY <1>9, <2>1, OutsideScan DEF vars, worker, ScanInv
<1> QED
  BY <1>1, <1>2, <1>3, <1>4, <1>5, <1>6, <1>7, <1>8, <1>9 DEF Next, Scan

\* A scan that ends on pages that did not shift has triggered every alert that
\* was due when it began and still exists, for every page size (onPriceUpdated
\* pages with skip until a page is not full).
THEOREM ScansMissNothing == Spec => ScanMissesNothing
<1> DEFINE Ends == stage # "wait" /\ topic' # topic /\ event \notin topic' /\ ~shifted'
           Found == expected \cap alerts' \subseteq triggered'
<1>1. Init => ScanInv
  BY DEF Init, ScanInv
<1>2. TypeOK /\ ScanInv /\ [Next]_vars => [Ends => Found]_vars
  <2> SUFFICES ASSUME TypeOK, ScanInv, [Next]_vars, Ends
               PROVE  Found
    OBVIOUS
  <2>1. CASE FindPage
    <3>1. stage' = "wait" /\ UNCHANGED <<alerts, triggered, expected>>
      BY <2>1 DEF FindPage, NextPage, Return
    <3>2. Missing' = {}
      BY <2>1, <3>1, FindStep
    <3> QED
      BY <3>1, <3>2 DEF Missing, Untriggered
  <2>2. ASSUME NEW a \in Alerts, EmitAlert(a)
        PROVE  Found
    <3>1. stage = "emit" /\ UNCHANGED <<alerts, triggered, expected, shifted>>
      BY <2>2 DEF EmitAlert
    <3>2. Missing = {}
      BY <3>1 DEF ScanInv, Ahead
    <3> QED
      BY <3>1, <3>2 DEF Missing, Untriggered
  <2>3. ASSUME NEW a \in Alerts, CreateAlert(a) \/ RemoveAlert(a)
        PROVE  topic' = topic
    BY <2>3 DEF CreateAlert, RemoveAlert
  <2>4. ASSUME NEW e \in Events, OnPriceUpdated(e)
        PROVE  topic' = topic
    BY <2>4 DEF OnPriceUpdated
  <2>5. ASSUME NEW e \in Events, NEW q \in Prices, PublishPrice(e, q)
        PROVE  event \in topic'
    BY <2>5 DEF PublishPrice, ScanInv
  <2>6. MarkTriggered \/ Fail \/ UNCHANGED vars => topic' = topic
    BY DEF MarkTriggered, Fail, vars
  <2> QED
    BY <2>1, <2>2, <2>3, <2>4, <2>5, <2>6 DEF Next, Scan
<1> QED
  BY TypeInit, TypeStep, ScanStep, <1>1, <1>2, PTL DEF Spec, ScanMissesNothing
-----------------------------------------------------------------------------
(* The stock catalogue: the inductive invariant.                           *)

\* What a request at p with job j may rely on: a stock it wrote exists, a read
\* that was not overtaken shows what the collection holds, and a price that was
\* not overtaken is the stock's.
Fits(p, j) ==
  /\ p = "insert" => j.price # None
  /\ p \in {"evict", "emit"} => Catalog!Exists(j.stock)
  /\ p = "fill" => /\ j.late \/ j.seen = Catalog!Read(j.key)
                   /\ j.key \in Quoted => Catalog!Exists(j.key)
  /\ p \in {"evict", "emit"} /\ j.price # None => j.late \/ j.price = stock[j.stock].price

RequestsOK ==
  /\ at \in [Workers -> Catalog!Points] /\ job \in [Workers -> Catalog!Job]
  /\ \A w \in Workers : Fits(at[w], job[w])

\* Documents, and copies in Redis and in events, of stocks that exist.
DocumentsOK ==
  /\ stock \in [Quoted -> Catalog!Stock \cup {None}]
  /\ history \in [Quoted -> Seq(Prices)]
  /\ \A s \in Quoted :
       /\ Len(history[s]) <= HistoryMax
       /\ Catalog!Exists(s) => history[s] # <<>> /\ Last(history[s]) = stock[s].price

CopiesOK ==
  /\ entry \in [Catalog!Keys -> Catalog!Entries]
  /\ told \in [Quoted -> Prices \cup {None}]
  /\ spoiled \subseteq Catalog!Keys /\ misled \subseteq Quoted
  /\ \A s \in Quoted : entry[s] # None \/ told[s] # None => Catalog!Exists(s)

CatalogInv == DocumentsOK /\ CopiesOK /\ RequestsOK /\ Catalog!CopiesAgree

-----------------------------------------------------------------------------
(* The stock catalogue: every step keeps the invariant.                    *)

\* What the constants of the catalogue are, as the proofs use it.
LEMMA CatalogConstants ==
  /\ Quoted # {} /\ Catalogue \notin Quoted /\ None \notin Prices
  /\ None \notin Catalog!Stock /\ HistoryMax \in Nat \ {0}
  /\ Catalog!NoJob \in Catalog!Job /\ Catalog!NoJob.price = None
BY MarketAssumption DEF Catalog!StockAssumption, Catalog!Stock, Catalog!NoJob, Catalog!Job,
     Catalog!Keys, Catalog!Entries

\* What a read finds is a catalogue entry ...
LEMMA ReadType ==
  ASSUME DocumentsOK
  PROVE  \A k : Catalog!Read(k) \in Catalog!Entries
BY DEF DocumentsOK, Catalog!Read, Catalog!Entries, Catalog!Shown, Catalog!Exists

\* ... and a write to one stock changes only its own and the catalogue's.
LEMMA ReadElsewhere ==
  ASSUME DocumentsOK, NEW s \in Quoted, NEW d, stock' = [stock EXCEPT ![s] = d],
         NEW k, k \notin {s, Catalogue}
  PROVE  Catalog!Read(k)' = Catalog!Read(k)
<1>1. \A t \in Quoted : t # s => stock'[t] = stock[t]
  BY DEF DocumentsOK
<1>2. Catalog!Shown(k)' = Catalog!Shown(k)
  BY <1>1 DEF Catalog!Shown, Catalog!Exists
<1>3. \A t \in Catalog!Shown(k) : stock'[t] = stock[t]
  BY <1>1 DEF Catalog!Shown
<1> QED
  BY <1>2, <1>3 DEF Catalog!Read

\* The history after $push with $slice is not too long and ends in the price.
LEMMA PushedFacts ==
  ASSUME NEW h \in Seq(Prices), NEW p \in Prices, Len(h) <= HistoryMax
  PROVE  /\ Catalog!Pushed(h, p) \in Seq(Prices) /\ Catalog!Pushed(h, p) # <<>>
         /\ Len(Catalog!Pushed(h, p)) <= HistoryMax /\ Last(Catalog!Pushed(h, p)) = p
<1> DEFINE all == Append(h, p)
<1>1. all \in Seq(Prices) /\ Len(all) = Len(h) + 1 /\ all[Len(all)] = p /\ Len(h) \in Nat
  OBVIOUS
<1>2. CASE Len(all) > HistoryMax
  <2>1. Len(h) = HistoryMax /\ HistoryMax \in Nat \ {0}
    BY <1>1, <1>2, CatalogConstants
  <2>2. /\ Tail(all) \in Seq(Prices) /\ Len(Tail(all)) = HistoryMax
        /\ Tail(all)[HistoryMax] = p
    BY <1>1, <2>1
  <2>3. Catalog!Pushed(h, p) = Tail(all)
    BY <1>2 DEF Catalog!Pushed
  <2> HIDE DEF all
  <2> QED
    BY <2>1, <2>2, <2>3 DEF Last
<1>3. CASE ~(Len(all) > HistoryMax)
  <2>1. Catalog!Pushed(h, p) = all
    BY <1>3 DEF Catalog!Pushed
  <2>2. Len(all) <= HistoryMax /\ all # <<>>
    BY <1>1, <1>3, CatalogConstants
  <2> HIDE DEF all
  <2> QED
    BY <1>1, <2>1, <2>2 DEF Last
<1> QED
  BY <1>2, <1>3

\* A step of request w that writes no document leaves the others as they were.
LEMMA RequestSafe ==
  ASSUME RequestsOK, UNCHANGED stock, NEW w \in Workers, NEW p \in Catalog!Points,
         NEW j \in Catalog!Job, Fits(p, j),
         at' = [at EXCEPT ![w] = p], job' = [job EXCEPT ![w] = j]
  PROVE  RequestsOK'
<1>1. \A k : Catalog!Read(k)' = Catalog!Read(k)
  BY DEF Catalog!Read, Catalog!Shown, Catalog!Exists
<1>2. \A v \in Workers : IF v = w THEN at'[v] = p /\ job'[v] = j
                         ELSE at'[v] = at[v] /\ job'[v] = job[v]
  BY DEF RequestsOK
<1>3. \A v \in Workers : Fits(at[v], job[v])' <=> Fits(at'[v], job'[v])
  BY <1>1 DEF Fits, Catalog!Exists
<1>4. \A v \in Workers : Fits(at'[v], job'[v])
  BY <1>2 DEF RequestsOK
<1> QED
  BY <1>3, <1>4 DEF RequestsOK

\* A write makes the requests that it overtakes late, and its own request
\* replaces the copies that it makes wrong.
LEMMA WriteSafe ==
  ASSUME CatalogInv, NEW w \in Workers, at[w] \in {"idle", "insert"},
         NEW op \in {"create", "update"}, NEW s \in Quoted,
         NEW p \in Prices \cup {None}, NEW k \in {s, Catalogue}, NEW d \in Catalog!Stock,
         stock' = [stock EXCEPT ![s] = d],
         p # None => d.price = p,
         p = None /\ Catalog!Exists(s) => d.price = stock[s].price,
         k = Catalogue => ~Catalog!Exists(s),
         Catalog!Wrote(w, op, s, p, k), UNCHANGED <<entry, told, spoiled, misled>>
  PROVE  RequestsOK' /\ CopiesOK' /\ Catalog!CopiesAgree'
<1> USE DEF CatalogInv
<1>1. /\ stock'[s] = d /\ d # None
      /\ \A t \in Quoted : t # s => stock'[t] = stock[t]
      /\ \A t \in Quoted : Catalog!Exists(t) => Catalog!Exists(t)'
  BY CatalogConstants DEF DocumentsOK, Catalog!Exists
<1>2. \A l \in Catalog!Keys : l \notin {s, Catalogue} => Catalog!Read(l)' = Catalog!Read(l)
  BY ReadElsewhere
<1>3. /\ at' = [at EXCEPT ![w] = "evict"]
      /\ job'[w] = [op |-> op, stock |-> s, key |-> k, price |-> p, seen |-> None, late |-> FALSE]
      /\ \A v \in Workers : v # w =>
           job'[v] = [job[v] EXCEPT !.late = @ \/ Catalog!Overtakes(v, s, p)]
      /\ job' = [v \in Workers |-> job'[v]]
  BY DEF Catalog!Wrote, Catalog!Goto
<1>4. \A v \in Workers : v # w => /\ at'[v] = at[v] /\ job'[v] \in Catalog!Job
                               /\ job'[v].stock = job[v].stock /\ job'[v].key = job[v].key
                               /\ job'[v].price = job[v].price /\ job'[v].seen = job[v].seen
                               /\ job'[v].late = (job[v].late \/ Catalog!Overtakes(v, s, p))
  <2> SUFFICES ASSUME NEW v \in Workers, v # w
               PROVE  /\ at'[v] = at[v] /\ job'[v] \in Catalog!Job
                      /\ job'[v].stock = job[v].stock /\ job'[v].key = job[v].key
                      /\ job'[v].price = job[v].price /\ job'[v].seen = job[v].seen
                      /\ job'[v].late = (job[v].late \/ Catalog!Overtakes(v, s, p))
    OBVIOUS
  <2>1. job[v] \in Catalog!Job /\ Catalog!Overtakes(v, s, p) \in BOOLEAN
    BY DEF RequestsOK, Catalog!Overtakes
  <2>2. PICK o \in BOOLEAN : Catalog!Overtakes(v, s, p) = o
    BY <2>1
  <2>3. job'[v] = [job[v] EXCEPT !.late = @ \/ o]
    BY <1>3, <2>2
  <2> QED
    BY <1>3, <2>1, <2>2, <2>3 DEF RequestsOK, Catalog!Job
<1>5. at'[w] = "evict" /\ at' \in [Workers -> Catalog!Points]
  BY <1>3 DEF RequestsOK, Catalog!Points
<1>6. job' \in [Workers -> Catalog!Job]
  <2>1. job'[w] \in Catalog!Job
    BY <1>3 DEF Catalog!Job, Catalog!Keys, Catalog!Entries
  <2> QED
    BY <1>3, <1>4, <2>1
<1>7. \A v \in Workers : Fits(at[v], job[v])'
  <2>1. Fits(at[w], job[w])'
    BY <1>1, <1>3, <1>5 DEF Fits, Catalog!Exists
  <2>2. ASSUME NEW v \in Workers, v # w
        PROVE  Fits(at[v], job[v])'
    <3>1. Fits(at[v], job[v]) /\ job[v].stock \in Quoted /\ job[v].key \in Catalog!Keys
      BY DEF RequestsOK, Catalog!Job
    <3>2. CASE at[v] = "fill"
      <4>1. ~job'[v].late => job[v].key \notin {s, Catalogue} /\ ~job[v].late
        BY <1>4, <2>2, <3>2 DEF Catalog!Overtakes
      <4>2. job'[v].late \/ job'[v].seen = Catalog!Read(job[v].key)'
        BY <1>2, <1>4, <2>2, <3>1, <3>2, <4>1 DEF Fits
      <4> QED
        BY <1>1, <1>4, <2>2, <3>1, <3>2, <4>2 DEF Fits
    <3>3. CASE at[v] \in {"evict", "emit"}
      <4>1. ~job'[v].late => ~job[v].late /\ (job[v].stock # s \/ p = None)
        BY <1>4, <2>2, <3>3 DEF Catalog!Overtakes
      <4>2. p = None => stock'[job[v].stock].price = stock[job[v].stock].price
        BY <1>1, <3>1, <3>3 DEF Fits
      <4>3. job[v].price # None => job'[v].late \/ job[v].price = stock'[job[v].stock].price
        BY <1>1, <3>1, <3>3, <4>1, <4>2 DEF Fits
      <4> QED
        BY <1>1, <1>4, <2>2, <3>1, <3>3, <4>3 DEF Fits
    <3>4. CASE at[v] \notin {"fill", "evict", "emit"}
      BY <1>4, <2>2, <3>1, <3>4 DEF Fits
    <3> QED
      BY <3>2, <3>3, <3>4
  <2> QED
    BY <2>1, <2>2
<1>8. CopiesOK'
  BY <1>1 DEF CopiesOK
<1>9. ASSUME NEW l \in Catalog!Keys
      PROVE  (entry[l] \in {None, Catalog!Read(l)} \/ l \in spoiled
                \/ \E v \in Workers : Catalog!Evicts(v, l))'
  <2>1. CASE l \notin {s, Catalogue}
    <3>1. \A v \in Workers : Catalog!Evicts(v, l) => Catalog!Evicts(v, l)'
      BY <1>4 DEF Catalog!Evicts
    <3> QED
      BY <1>2, <2>1, <3>1 DEF Catalog!CopiesAgree
  <2>2. CASE l = Catalogue \/ l = k
    BY <1>3, <1>5, <2>2 DEF Catalog!Evicts
  <2>3. CASE l = s /\ k = Catalogue
    BY <2>3 DEF CopiesOK
  <2> QED
    BY <2>1, <2>2, <2>3
<1>10. ASSUME NEW t \in Quoted
       PROVE  (told[t] = None \/ told[t] = stock[t].price \/ t \in misled
                 \/ \E v \in Workers : Catalog!Publishes(v, t))'
  <2>1. \A v \in Workers : Catalog!Publishes(v, t) => Catalog!Publishes(v, t)'
    BY <1>4 DEF Catalog!Publishes
  <2>2. CASE t # s \/ p = None
    BY <1>1, <2>1, <2>2 DEF Catalog!CopiesAgree, CopiesOK
  <2>3. CASE t = s /\ p # None
    BY <1>3, <1>5, <2>3 DEF Catalog!Publishes
  <2> QED
    BY <2>2, <2>3
<1> QED
  BY <1>5, <1>6, <1>7, <1>8, <1>9, <1>10 DEF RequestsOK, Catalog!CopiesAgree

\* After a delete a request has the catalogue's entry or its event before it, if
\* there is one.
LEMMA NextKeyFacts ==
  ASSUME RequestsOK, NEW w \in Workers, at[w] = "evict", Catalog!NextKey(w)
  PROVE  \E p \in Catalog!Points, j \in Catalog!Job :
           /\ at' = [at EXCEPT ![w] = p] /\ job' = [job EXCEPT ![w] = j] /\ Fits(p, j)
           /\ job[w].key # Catalogue => p = "evict" /\ j.key = Catalogue
           /\ job[w].price # None => /\ p \in {"evict", "emit"}
                                     /\ j.stock = job[w].stock /\ j.price = job[w].price
<1>1. job[w] \in Catalog!Job /\ Fits("evict", job[w])
  BY DEF RequestsOK
<1>2. at = [at EXCEPT ![w] = at[w]] /\ job = [job EXCEPT ![w] = job[w]]
  BY DEF RequestsOK
<1>3. CASE job[w].key # Catalogue
  <2> DEFINE j == [job[w] EXCEPT !.key = Catalogue]
  <2>1. j \in Catalog!Job /\ j.key = Catalogue /\ j.stock = job[w].stock
        /\ j.price = job[w].price /\ j.late = job[w].late
    BY <1>1 DEF Catalog!Job, Catalog!Keys
  <2>2. at' = at /\ job' = [job EXCEPT ![w] = j]
    BY <1>3 DEF Catalog!NextKey
  <2>3. Fits("evict", j)
    BY <1>1, <2>1 DEF Fits
  <2> HIDE DEF j
  <2>4. at' = [at EXCEPT ![w] = "evict"] /\ "evict" \in Catalog!Points
    BY <1>2, <2>2 DEF Catalog!Points
  <2> QED
    BY <1>3, <2>1, <2>2, <2>3, <2>4
<1>4. CASE job[w].key = Catalogue /\ job[w].price = None
  <2>1. at' = [at EXCEPT ![w] = "idle"] /\ job' = [job EXCEPT ![w] = Catalog!NoJob]
    BY <1>4 DEF Catalog!NextKey, Catalog!Finish, Catalog!Goto
  <2>2. "idle" \in Catalog!Points /\ Catalog!NoJob \in Catalog!Job /\ Fits("idle", Catalog!NoJob)
    BY CatalogConstants DEF Catalog!Points, Fits
  <2> QED
    BY <1>4, <2>1, <2>2
<1>5. CASE job[w].key = Catalogue /\ job[w].price # None
  <2>1. at' = [at EXCEPT ![w] = "emit"] /\ job' = job
    BY <1>5 DEF Catalog!NextKey, Catalog!Goto
  <2>2. "emit" \in Catalog!Points /\ Fits("emit", job[w])
    BY <1>1 DEF Catalog!Points, Fits
  <2> QED
    BY <1>1, <1>2, <1>5, <2>1, <2>2
<1> QED
  BY <1>3, <1>4, <1>5

\* A step of request w leaves the deletes and events of the others before them.
LEMMA OthersProceed ==
  ASSUME RequestsOK, NEW w \in Workers, NEW p, NEW j,
         at' = [at EXCEPT ![w] = p], job' = [job EXCEPT ![w] = j],
         NEW v \in Workers, v # w
  PROVE  /\ \A k : Catalog!Evicts(v, k) => Catalog!Evicts(v, k)'
         /\ \A s : Catalog!Publishes(v, s) => Catalog!Publishes(v, s)'
BY DEF RequestsOK, Catalog!Evicts, Catalog!Publishes

\* A step that writes no document leaves the documents' part of the invariant.
LEMMA SameDocuments ==
  ASSUME UNCHANGED <<stock, history>>
  PROVE  /\ DocumentsOK => DocumentsOK'
         /\ \A k : Catalog!Read(k)' = Catalog!Read(k)
BY DEF DocumentsOK, Catalog!Exists, Catalog!Read, Catalog!Shown

\* Requests that begin.
LEMMA ArriveStep ==
  ASSUME CatalogInv, NEW w \in Workers, Catalog!Arrive(w)
  PROVE  CatalogInv'
<1> USE DEF CatalogInv
<1>1. ASSUME NEW s \in Quoted, NEW p \in Prices, Catalog!Create(w, s, p)
      PROVE  CatalogInv'
  <2> DEFINE j == [Catalog!NoJob EXCEPT !.op = "create", !.stock = s, !.price = p]
  <2>1. /\ at[w] = "idle" /\ at' = [at EXCEPT ![w] = "insert"] /\ job' = [job EXCEPT ![w] = j]
        /\ UNCHANGED <<stock, history, entry, told, spoiled, misled>>
    BY <1>1 DEF Catalog!Create, Catalog!Goto
  <2>2. j \in Catalog!Job /\ j.price = p
    BY CatalogConstants DEF Catalog!Job
  <2> HIDE DEF j
  <2>3. Fits("insert", j) /\ "insert" \in Catalog!Points
    BY <2>2, CatalogConstants DEF Fits, Catalog!Points
  <2>4. RequestsOK'
    BY <2>1, <2>2, <2>3, RequestSafe
  <2>5. \A v \in Workers :
          /\ \A k : Catalog!Evicts(v, k) => Catalog!Evicts(v, k)'
          /\ \A t : Catalog!Publishes(v, t) => Catalog!Publishes(v, t)'
    BY <2>1, OthersProceed DEF Catalog!Evicts, Catalog!Publishes
  <2>6. DocumentsOK' /\ \A k : Catalog!Read(k)' = Catalog!Read(k)
    BY <2>1, SameDocuments
  <2> QED
    BY <2>1, <2>4, <2>5, <2>6 DEF CopiesOK, Catalog!CopiesAgree, Catalog!Exists
<1>2. ASSUME NEW k \in Catalog!Keys, Catalog!Quote(w, k)
      PROVE  CatalogInv'
  <2> DEFINE j == [Catalog!NoJob EXCEPT !.op = "quote", !.key = k, !.seen = Catalog!Read(k)]
  <2>1. /\ at[w] = "idle" /\ at' = [at EXCEPT ![w] = "fill"] /\ job' = [job EXCEPT ![w] = j]
        /\ UNCHANGED <<stock, history, entry, told, spoiled, misled>>
        /\ k # Catalogue => Catalog!Exists(k)
    BY <1>2 DEF Catalog!Quote, Catalog!Goto
  <2>2. j \in Catalog!Job /\ j.key = k /\ j.seen = Catalog!Read(k)
    BY CatalogConstants, ReadType DEF Catalog!Job
  <2> HIDE DEF j
  <2>3. Fits("fill", j) /\ "fill" \in Catalog!Points
    BY <2>1, <2>2, CatalogConstants DEF Fits, Catalog!Points
  <2>4. RequestsOK'
    BY <2>1, <2>2, <2>3, RequestSafe
  <2>5. \A v \in Workers :
          /\ \A l : Catalog!Evicts(v, l) => Catalog!Evicts(v, l)'
          /\ \A t : Catalog!Publishes(v, t) => Catalog!Publishes(v, t)'
    BY <2>1, OthersProceed DEF Catalog!Evicts, Catalog!Publishes
  <2>6. DocumentsOK' /\ \A l : Catalog!Read(l)' = Catalog!Read(l)
    BY <2>1, SameDocuments
  <2> QED
    BY <2>1, <2>4, <2>5, <2>6 DEF CopiesOK, Catalog!CopiesAgree, Catalog!Exists
<1>3. ASSUME NEW s \in Quoted, NEW p \in Prices \cup {None}, Catalog!Update(w, s, p)
      PROVE  CatalogInv'
  <2> DEFINE d == IF p = None THEN stock[s] ELSE [stock[s] EXCEPT !.price = p]
  <2>1. /\ at[w] = "idle" /\ stock[s] \in Catalog!Stock /\ Catalog!Exists(s)
        /\ Catalog!Wrote(w, "update", s, p, s) /\ UNCHANGED <<entry, told, spoiled, misled>>
        /\ history' = IF p = None THEN history
                      ELSE [history EXCEPT ![s] = Catalog!Pushed(history[s], p)]
    BY <1>3 DEF Catalog!Update, Catalog!Exists, DocumentsOK
  <2>2. d \in Catalog!Stock /\ (p # None => d.price = p) /\ (p = None => d = stock[s])
    BY <2>1 DEF Catalog!Stock
  <2>3. stock' = [stock EXCEPT ![s] = d]
    BY <1>3 DEF Catalog!Update, DocumentsOK
  <2> HIDE DEF d
  <2>4. RequestsOK' /\ CopiesOK' /\ Catalog!CopiesAgree'
    BY <2>1, <2>2, <2>3, WriteSafe, CatalogConstants
  <2>5. DocumentsOK'
    <3>1. CASE p = None
      <4>1. stock' = stock /\ history' = history
        BY <2>1, <2>2, <2>3, <3>1 DEF DocumentsOK
      <4> QED
        BY <4>1, SameDocuments
    <3>2. CASE p # None
      <4>1. /\ history'[s] \in Seq(Prices) /\ history'[s] # <<>>
            /\ Len(history'[s]) <= HistoryMax /\ Last(history'[s]) = p
        BY <2>1, <3>2, PushedFacts DEF DocumentsOK
      <4>2. \A t \in Quoted : t # s => history'[t] = history[t] /\ stock'[t] = stock[t]
        BY <2>1, <2>3, <3>2 DEF DocumentsOK
      <4>3. stock'[s] = d /\ history' \in [Quoted -> Seq(Prices)]
            /\ stock' \in [Quoted -> Catalog!Stock \cup {None}]
        BY <2>1, <2>2, <2>3, <3>2, PushedFacts DEF DocumentsOK
      <4> QED
        BY <2>2, <3>2, <4>1, <4>2, <4>3 DEF DocumentsOK, Catalog!Exists
    <3> QED
      BY <3>1, <3>2
  <2> QED
    BY <2>4, <2>5
<1>4. ASSUME NEW s \in Quoted, Catalog!Delist(w, s)
      PROVE  CatalogInv'
  <2> DEFINE d == [stock[s] EXCEPT !.listed = FALSE]
  <2>1. /\ at[w] = "idle" /\ stock[s] \in Catalog!Stock /\ Catalog!Exists(s)
        /\ Catalog!Wrote(w, "update", s, None, s)
        /\ UNCHANGED <<history, entry, told, spoiled, misled>>
    BY <1>4 DEF Catalog!Delist, Catalog!Exists, DocumentsOK
  <2>2. d \in Catalog!Stock /\ d.price = stock[s].price
    BY <2>1 DEF Catalog!Stock
  <2>3. stock' = [stock EXCEPT ![s] = d]
    BY <1>4 DEF Catalog!Delist, DocumentsOK
  <2> HIDE DEF d
  <2>4. RequestsOK' /\ CopiesOK' /\ Catalog!CopiesAgree'
    BY <2>1, <2>2, <2>3, WriteSafe, CatalogConstants
  <2>5. DocumentsOK'
    BY <2>1, <2>2, <2>3 DEF DocumentsOK, Catalog!Exists
  <2> QED
    BY <2>4, <2>5
<1> QED
  BY <1>1, <1>2, <1>3, <1>4 DEF Catalog!Arrive

\* The insert, unless the ticker is taken.
LEMMA InsertStep ==
  ASSUME CatalogInv, NEW w \in Workers, Catalog!Insert(w)
  PROVE  CatalogInv'
<1> USE DEF CatalogInv
<1> DEFINE s == job[w].stock
           p == job[w].price
<1>1. at[w] = "insert" /\ UNCHANGED <<entry, told, spoiled, misled>>
  BY DEF Catalog!Insert
<1>2. s \in Quoted /\ p \in Prices
  BY <1>1 DEF RequestsOK, Fits, Catalog!Job
<1>3. CASE Catalog!Exists(s)
  <2>1. /\ at' = [at EXCEPT ![w] = "idle"] /\ job' = [job EXCEPT ![w] = Catalog!NoJob]
        /\ UNCHANGED <<stock, history>>
    BY <1>3 DEF Catalog!Insert, Catalog!Finish, Catalog!Goto
  <2>2. "idle" \in Catalog!Points /\ Catalog!NoJob \in Catalog!Job /\ Fits("idle", Catalog!NoJob)
    BY CatalogConstants DEF Catalog!Points, Fits
  <2>3. RequestsOK'
    BY <2>1, <2>2, RequestSafe
  <2>4. \A v \in Workers :
          /\ \A k : Catalog!Evicts(v, k) => Catalog!Evicts(v, k)'
          /\ \A t : Catalog!Publishes(v, t) => Catalog!Publishes(v, t)'
    BY <1>1, <2>1, OthersProceed DEF Catalog!Evicts, Catalog!Publishes
  <2>5. DocumentsOK' /\ \A k : Catalog!Read(k)' = Catalog!Read(k)
    BY <2>1, SameDocuments
  <2> QED
    BY <1>1, <2>1, <2>3, <2>4, <2>5 DEF CopiesOK, Catalog!CopiesAgree, Catalog!Exists
<1>4. CASE ~Catalog!Exists(s)
  <2> DEFINE d == [price |-> p, listed |-> TRUE]
  <2>1. /\ stock' = [stock EXCEPT ![s] = d] /\ history' = [history EXCEPT ![s] = <<p>>]
        /\ Catalog!Wrote(w, "create", s, None, Catalogue)
    BY <1>4 DEF Catalog!Insert
  <2>2. d \in Catalog!Stock /\ d.price = p
    BY <1>2 DEF Catalog!Stock
  <2> HIDE DEF d, s, p
  <2>3. RequestsOK' /\ CopiesOK' /\ Catalog!CopiesAgree'
    BY <1>1, <1>2, <1>4, <2>1, <2>2, WriteSafe, CatalogConstants
  <2>4. /\ <<p>> \in Seq(Prices) /\ <<p>> # <<>> /\ Last(<<p>>) = p
        /\ Len(<<p>>) <= HistoryMax
    BY <1>2, CatalogConstants DEF Last
  <2>5. DocumentsOK'
    BY <1>2, <2>1, <2>2, <2>4 DEF DocumentsOK, Catalog!Exists
  <2> QED
    BY <2>3, <2>5
<1> QED
  BY <1>3, <1>4

\* Deletes of entries, whether they succeed or fail.
LEMMA EvictStep ==
  ASSUME CatalogInv, NEW w \in Workers, Catalog!Evict(w) \/ Catalog!EvictFails(w)
  PROVE  CatalogInv'
<1> USE DEF CatalogInv
<1>1. /\ at[w] = "evict" /\ Catalog!NextKey(w)
      /\ UNCHANGED <<stock, history, told, misled>>
      /\ \/ /\ entry' = [entry EXCEPT ![job[w].key] = None]
            /\ spoiled' = spoiled \ {job[w].key}
         \/ entry' = entry /\ spoiled' = spoiled \cup {job[w].key}
  BY DEF Catalog!Evict, Catalog!EvictFails
<1>2. PICK p \in Catalog!Points, j \in Catalog!Job :
        /\ at' = [at EXCEPT ![w] = p] /\ job' = [job EXCEPT ![w] = j] /\ Fits(p, j)
        /\ job[w].key # Catalogue => p = "evict" /\ j.key = Catalogue
        /\ job[w].price # None => /\ p \in {"evict", "emit"}
                                  /\ j.stock = job[w].stock /\ j.price = job[w].price
  BY <1>1, NextKeyFacts
<1>3. RequestsOK'
  BY <1>1, <1>2, RequestSafe
<1>4. job[w].key \in Catalog!Keys /\ at'[w] = p /\ job'[w] = j
  BY <1>2 DEF RequestsOK, Catalog!Job
<1>5. \A v \in Workers : \A k : Catalog!Evicts(v, k) => Catalog!Evicts(v, k)' \/ k = job[w].key
  BY <1>2, <1>4, OthersProceed DEF Catalog!Evicts
<1>6. \A v \in Workers : \A t : Catalog!Publishes(v, t) => Catalog!Publishes(v, t)'
  BY <1>2, <1>4, OthersProceed DEF Catalog!Publishes
<1>7. DocumentsOK' /\ \A k : Catalog!Read(k)' = Catalog!Read(k)
  BY <1>1, SameDocuments
<1>8. CopiesOK' /\ entry'[job[w].key] \in {None, entry[job[w].key]}
      /\ (entry'[job[w].key] = None \/ job[w].key \in spoiled')
      /\ \A k \in Catalog!Keys : k # job[w].key =>
           entry'[k] = entry[k] /\ (k \in spoiled' <=> k \in spoiled)
  <2>1. CASE entry' = [entry EXCEPT ![job[w].key] = None] /\ spoiled' = spoiled \ {job[w].key}
    BY <1>1, <1>4, <2>1 DEF CopiesOK, Catalog!Exists, Catalog!Entries
  <2>2. CASE entry' = entry /\ spoiled' = spoiled \cup {job[w].key}
    BY <1>1, <1>4, <2>2 DEF CopiesOK, Catalog!Exists
  <2> QED
    BY <1>1, <2>1, <2>2
<1>9. Catalog!CopiesAgree'
  <2>1. ASSUME NEW k \in Catalog!Keys
        PROVE  (entry[k] \in {None, Catalog!Read(k)} \/ k \in spoiled
                  \/ \E v \in Workers : Catalog!Evicts(v, k))'
    BY <1>5, <1>7, <1>8 DEF Catalog!CopiesAgree
  <2>2. ASSUME NEW t \in Quoted
        PROVE  (told[t] = None \/ told[t] = stock[t].price \/ t \in misled
                  \/ \E v \in Workers : Catalog!Publishes(v, t))'
    BY <1>1, <1>6 DEF Catalog!CopiesAgree
  <2> QED
    BY <2>1, <2>2 DEF Catalog!CopiesAgree
<1> QED
  BY <1>3, <1>7, <1>8, <1>9

\* Requests that end: with the event, the fill, or before their time.
LEMMA EndStep ==
  ASSUME CatalogInv, NEW w \in Workers,
         Catalog!EmitPriceUpdated(w) \/ Catalog!Fill(w) \/ Catalog!Abort(w)
  PROVE  CatalogInv'
<1> USE DEF CatalogInv
<1>1. /\ at' = [at EXCEPT ![w] = "idle"] /\ job' = [job EXCEPT ![w] = Catalog!NoJob]
      /\ UNCHANGED <<stock, history>>
  BY DEF Catalog!EmitPriceUpdated, Catalog!Fill, Catalog!Abort, Catalog!Finish, Catalog!Goto
<1>2. "idle" \in Catalog!Points /\ Catalog!NoJob \in Catalog!Job /\ Fits("idle", Catalog!NoJob)
  BY CatalogConstants DEF Catalog!Points, Fits
<1>3. RequestsOK'
  BY <1>1, <1>2, RequestSafe
<1>4. /\ job[w].key \in Catalog!Keys /\ job[w].stock \in Quoted /\ Fits(at[w], job[w])
      /\ job[w].price \in Prices \cup {None} /\ job[w].seen \in Catalog!Entries
      /\ job[w].late \in BOOLEAN
  BY DEF RequestsOK, Catalog!Job
<1>5. \A v \in Workers :
        /\ \A k : Catalog!Evicts(v, k) => Catalog!Evicts(v, k)' \/ v = w
        /\ \A t : Catalog!Publishes(v, t) => Catalog!Publishes(v, t)' \/ v = w
  BY <1>1, OthersProceed
<1>6. DocumentsOK' /\ \A k : Catalog!Read(k)' = Catalog!Read(k)
  BY <1>1, SameDocuments
<1>7. CASE Catalog!EmitPriceUpdated(w)
  <2> DEFINE s == job[w].stock
  <2>1. /\ at[w] = "emit" /\ told' = [told EXCEPT ![s] = job[w].price]
        /\ misled' = IF job[w].late THEN misled \cup {s} ELSE misled \ {s}
        /\ UNCHANGED <<entry, spoiled>>
    BY <1>7 DEF Catalog!EmitPriceUpdated
  <2>2. CopiesOK'
    BY <1>1, <1>4, <2>1 DEF CopiesOK, Fits, Catalog!Exists
  <2>3. ASSUME NEW k \in Catalog!Keys
        PROVE  (entry[k] \in {None, Catalog!Read(k)} \/ k \in spoiled
                  \/ \E v \in Workers : Catalog!Evicts(v, k))'
    BY <1>5, <1>6, <2>1 DEF Catalog!CopiesAgree, Catalog!Evicts
  <2>4. ASSUME NEW t \in Quoted
        PROVE  (told[t] = None \/ told[t] = stock[t].price \/ t \in misled
                  \/ \E v \in Workers : Catalog!Publishes(v, t))'
    <3>1. CASE t = s
      BY <1>1, <1>4, <2>1, <3>1 DEF CopiesOK, Fits
    <3>2. CASE t # s
      <4>1. told'[t] = told[t] /\ (t \in misled => t \in misled')
        BY <2>1, <3>2 DEF CopiesOK
      <4>2. ~Catalog!Publishes(w, t)
        BY <3>2 DEF Catalog!Publishes
      <4> QED
        BY <1>1, <1>5, <4>1, <4>2 DEF Catalog!CopiesAgree
    <3> QED
      BY <3>1, <3>2
  <2>5. Catalog!CopiesAgree'
    BY <2>3, <2>4 DEF Catalog!CopiesAgree
  <2> QED
    BY <1>3, <1>6, <2>2, <2>5
<1>8. CASE Catalog!Fill(w)
  <2> DEFINE c == job[w].key
  <2>1. /\ at[w] = "fill" /\ entry' = [entry EXCEPT ![c] = job[w].seen]
        /\ spoiled' = IF job[w].late THEN spoiled \cup {c} ELSE spoiled \ {c}
        /\ UNCHANGED <<told, misled>>
    BY <1>8 DEF Catalog!Fill
  <2>2. CopiesOK'
    BY <1>1, <1>4, <2>1 DEF CopiesOK, Fits, Catalog!Exists
  <2>3. ASSUME NEW k \in Catalog!Keys
        PROVE  (entry[k] \in {None, Catalog!Read(k)} \/ k \in spoiled
                  \/ \E v \in Workers : Catalog!Evicts(v, k))'
    <3>1. CASE k = c
      BY <1>4, <1>6, <2>1, <3>1 DEF CopiesOK, Fits
    <3>2. CASE k # c
      <4>1. entry'[k] = entry[k] /\ (k \in spoiled => k \in spoiled')
        BY <2>1, <3>2 DEF CopiesOK
      <4>2. ~Catalog!Evicts(w, k)
        BY <2>1 DEF Catalog!Evicts
      <4> QED
        BY <1>5, <1>6, <4>1, <4>2 DEF Catalog!CopiesAgree
    <3> QED
      BY <3>1, <3>2
  <2>4. ASSUME NEW t \in Quoted
        PROVE  (told[t] = None \/ told[t] = stock[t].price \/ t \in misled
                  \/ \E v \in Workers : Catalog!Publishes(v, t))'
    BY <1>1, <1>5, <2>1 DEF Catalog!CopiesAgree, Catalog!Publishes
  <2>5. Catalog!CopiesAgree'
    BY <2>3, <2>4 DEF Catalog!CopiesAgree
  <2> QED
    BY <1>3, <1>6, <2>2, <2>5
<1>9. CASE Catalog!Abort(w)
  <2>1. /\ spoiled' = IF at[w] = "evict" THEN spoiled \cup {job[w].key, Catalogue} ELSE spoiled
        /\ misled' = IF at[w] \in {"evict", "emit"} /\ job[w].price # None
                     THEN misled \cup {job[w].stock} ELSE misled
        /\ UNCHANGED <<entry, told>>
    BY <1>9 DEF Catalog!Abort
  <2>2. CopiesOK'
    BY <1>1, <1>4, <2>1 DEF CopiesOK, Catalog!Exists, Catalog!Keys
  <2>3. ASSUME NEW k \in Catalog!Keys
        PROVE  (entry[k] \in {None, Catalog!Read(k)} \/ k \in spoiled
                  \/ \E v \in Workers : Catalog!Evicts(v, k))'
    <3>1. k \in spoiled \/ Catalog!Evicts(w, k) => k \in spoiled'
      BY <2>1 DEF Catalog!Evicts
    <3> QED
      BY <1>5, <1>6, <2>1, <3>1 DEF Catalog!CopiesAgree
  <2>4. ASSUME NEW t \in Quoted
        PROVE  (told[t] = None \/ told[t] = stock[t].price \/ t \in misled
                  \/ \E v \in Workers : Catalog!Publishes(v, t))'
    <3>1. t \in misled \/ Catalog!Publishes(w, t) => t \in misled'
      BY <2>1 DEF Catalog!Publishes
    <3> QED
      BY <1>1, <1>5, <2>1, <3>1 DEF Catalog!CopiesAgree
  <2>5. Catalog!CopiesAgree'
    BY <2>3, <2>4 DEF Catalog!CopiesAgree
  <2> QED
    BY <1>3, <1>6, <2>2, <2>5
<1> QED
  BY <1>7, <1>8, <1>9

\* The invariant of the catalogue is inductive.
LEMMA CatalogStep ==
  ASSUME CatalogInv, [Catalog!Next]_Catalog!vars
  PROVE  CatalogInv'
<1>1. ASSUME NEW w \in Workers, Catalog!Proceed(w)
      PROVE  CatalogInv'
  BY <1>1, InsertStep, EvictStep, EndStep DEF Catalog!Proceed
<1>2. ASSUME NEW k \in Catalog!Keys, Catalog!Expire(k)
      PROVE  CatalogInv'
  <2>1. /\ entry' = [entry EXCEPT ![k] = None] /\ spoiled' = spoiled \ {k}
        /\ UNCHANGED <<stock, history, told, at, job, misled>>
    BY <1>2 DEF Catalog!Expire
  <2>2. DocumentsOK' /\ (\A l : Catalog!Read(l)' = Catalog!Read(l)) /\ RequestsOK'
    BY <2>1, SameDocuments DEF CatalogInv, RequestsOK, Fits, Catalog!Exists
  <2>3. CopiesOK'
    BY <2>1 DEF CatalogInv, CopiesOK, Catalog!Exists, Catalog!Entries
  <2>4. Catalog!CopiesAgree'
    BY <2>1, <2>2 DEF CatalogInv, CopiesOK, Catalog!CopiesAgree, Catalog!Evicts, Catalog!Publishes
  <2> QED
    BY <2>2, <2>3, <2>4 DEF CatalogInv
<1>3. CASE UNCHANGED Catalog!vars
  <2>1. UNCHANGED <<stock, history, entry, told, at, job, spoiled, misled>>
    BY <1>3 DEF Catalog!vars
  <2>2. DocumentsOK' /\ (\A l : Catalog!Read(l)' = Catalog!Read(l)) /\ RequestsOK'
    BY <2>1, SameDocuments DEF CatalogInv, RequestsOK, Fits, Catalog!Exists
  <2> QED
    BY <2>1, <2>2 DEF CatalogInv, CopiesOK, Catalog!Exists,
         Catalog!CopiesAgree, Catalog!Evicts, Catalog!Publishes
<1> QED
  BY <1>1, <1>2, <1>3, ArriveStep, EndStep DEF Catalog!Next

\* It holds of the empty collection, and gives the types of StockService.
LEMMA CatalogInit == Catalog!Init => CatalogInv
<1> SUFFICES ASSUME Catalog!Init PROVE CatalogInv
  OBVIOUS
<1>1. DocumentsOK
  BY CatalogConstants DEF Catalog!Init, DocumentsOK, Catalog!Exists
<1>2. CopiesOK
  BY CatalogConstants DEF Catalog!Init, CopiesOK, Catalog!Entries, Catalog!Keys, Catalog!Exists
<1>3. RequestsOK
  BY CatalogConstants DEF Catalog!Init, RequestsOK, Fits, Catalog!Points
<1>4. Catalog!CopiesAgree
  BY DEF Catalog!Init, Catalog!CopiesAgree
<1> QED
  BY <1>1, <1>2, <1>3, <1>4 DEF CatalogInv

\* The catalogue's invariant includes its types.
LEMMA CatalogTyped == CatalogInv => Catalog!TypeOK
<1> SUFFICES ASSUME CatalogInv PROVE Catalog!TypeOK
  OBVIOUS
<1>1. at \in [Workers -> Catalog!Points] /\ job \in [Workers -> Catalog!Job]
  BY DEF CatalogInv, RequestsOK
<1>2. /\ entry \in [Catalog!Keys -> Catalog!Entries] /\ told \in [Quoted -> Prices \cup {None}]
      /\ spoiled \subseteq Catalog!Keys /\ misled \subseteq Quoted
  BY DEF CatalogInv, CopiesOK
<1> QED
  BY <1>1, <1>2 DEF CatalogInv, DocumentsOK, Catalog!TypeOK, Last, Catalog!Last

-----------------------------------------------------------------------------
(* The reports: the inductive invariant.                                   *)

\* The documents and the trades.
Stages == {"idle", "record", "pay", "mark", "evict"}
OrderDocument == [member : Members, side : {"buy", "sell"}, stock : Held, lot : Nat, total : Nat,
                  status : {"pending", "executed", "rejected"}, at : Nat \cup {None}]
TradeRecord == [stage : Stages, side : {"buy", "sell"}, stock : Held \cup {Reports!NoTrade.stock},
                lot : Nat, order : Nat]

\* What a trade t of member m may rely on if os are the orders: that its order
\* is its own, still pending and the only one that goes on.
Relies(os, m, t) ==
  /\ t.stage # "idle" => t.stock \in Held
  /\ t.stage = "record" => t.side = "sell"
  /\ t.stage \in {"pay", "mark"} =>
       /\ t.order \in DOMAIN os
       /\ os[t.order].member = m /\ os[t.order].status = "pending"
       /\ os[t.order].side = t.side /\ os[t.order].stock = t.stock
       /\ os[t.order].lot = t.lot

TradesOK ==
  /\ orders \in Seq(OrderDocument)
  /\ \A i \in DOMAIN orders : orders[i].status = "executed" <=> orders[i].at # None
  /\ trade \in [Members -> TradeRecord]
  /\ \A m \in Members : Relies(orders, m, trade[m])

\* The clock, which dates the orders.
DatesOK == clock \in 0 .. MaxTime

\* A portfolio that was read and not overtaken shows what its member holds.
PortfolioOK ==
  /\ shares \in [Members -> [Held -> Nat]]
  /\ view \in [Members -> [Held -> Nat] \cup {None}]
  /\ reading \in [Members -> [Held -> Nat] \cup {None}]
  /\ late \subseteq Members /\ stale \subseteq Members
  /\ adrift \in [Members -> [Held -> Int]]
  /\ \A m \in Members : reading[m] \in {None, shares[m]} \/ m \in late
  /\ \A m \in Members : view[m] \in {None, shares[m]} \/ m \in stale \/ Reports!Moving(trade[m])

\* The shares of stock s in the executed orders of member m on one side, if os
\* are the orders.
Matched(os, m, s, side) ==
  {i \in DOMAIN os : /\ os[i].status = "executed" /\ os[i].stock = s
                     /\ os[i].member = m /\ os[i].side = side}
Volume(os, m, s, side) ==
  SumFunctionOnSet([i \in DOMAIN os |-> os[i].lot], Matched(os, m, s, side))
Gain(e, m, s, side) ==
  IF e.status = "executed" /\ e.stock = s /\ e.member = m /\ e.side = side THEN e.lot ELSE 0
\* What was bought and what trades have added without an order is what was sold,
\* is held, or was taken by a trade, whatever point the trade has come to.
BooksOK ==
  \A m \in Members, s \in Held :
    Volume(orders, m, s, "buy") + Reports!Added(trade[m], s) + adrift[m][s]
      = Volume(orders, m, s, "sell") + shares[m][s] + Reports!Taken(trade[m], s)

ReportsInv == TradesOK /\ DatesOK /\ PortfolioOK /\ BooksOK

-----------------------------------------------------------------------------
(* The reports: every step keeps the invariant.                            *)

\* What the constants of the reports are, as the proofs use it.
LEMMA ReportConstants ==
  /\ IsFiniteSet(Members) /\ IsFiniteSet(Held)
  /\ PriceOf \in [Held -> Nat \ {0}] /\ Lots \subseteq Nat \ {0} /\ MaxTime \in Nat
  /\ DayLength \in Nat \ {0} /\ MonthLength \in Nat \ {0}
  /\ None \notin [Held -> Nat] /\ None \notin Nat /\ None \notin Held
  /\ Reports!NoTrade \in TradeRecord /\ Reports!NoTrade.stage = "idle"
  /\ Reports!NoTrade.side = "buy"
BY MarketAssumption DEF Reports!ReportAssumption, Reports!IsFiniteSet, IsFiniteSet,
     Reports!NoTrade, TradeRecord, Stages

\* The orders that count are finitely many, and their lots are numbers.
LEMMA VolumeFacts ==
  ASSUME NEW os \in Seq(OrderDocument), NEW m, NEW s, NEW side
  PROVE  /\ IsFiniteSet(Matched(os, m, s, side))
         /\ \A i \in DOMAIN os : os[i].lot \in Nat
         /\ Volume(os, m, s, side) \in Int
<1>1. DOMAIN os = 1 .. Len(os) /\ Len(os) \in Nat /\ \A i \in DOMAIN os : os[i] \in OrderDocument
  OBVIOUS
<1>2. IsFiniteSet(DOMAIN os)
  BY <1>1, FS_Interval
<1>3. IsFiniteSet(Matched(os, m, s, side)) /\ Matched(os, m, s, side) \subseteq DOMAIN os
  BY <1>2, FS_Subset DEF Matched
<1>4. \A i \in DOMAIN os : os[i].lot \in Nat
  BY <1>1 DEF OrderDocument
<1> DEFINE f == [i \in DOMAIN os |-> os[i].lot]
<1>5. \A i \in Matched(os, m, s, side) : f[i] \in Int
  BY <1>3, <1>4
<1>6. SumFunctionOnSet(f, Matched(os, m, s, side)) \in Int
  <2> HIDE DEF f
  <2> QED
    BY <1>3, <1>5, SumType
<1> QED
  BY <1>3, <1>4, <1>6 DEF Volume

\* A new order is not executed, and moves no volume.
LEMMA AppendedVolume ==
  ASSUME NEW os \in Seq(OrderDocument), NEW d \in OrderDocument, d.status = "pending",
         NEW m, NEW s, NEW side
  PROVE  Volume(Append(os, d), m, s, side) = Volume(os, m, s, side)
<1> DEFINE ps == Append(os, d)
           f == [i \in DOMAIN os |-> os[i].lot]
           g == [i \in DOMAIN ps |-> ps[i].lot]
           M == Matched(os, m, s, side)
<1>1. /\ DOMAIN os = 1 .. Len(os) /\ Len(os) \in Nat /\ DOMAIN ps = 1 .. Len(os) + 1
      /\ ps[Len(os) + 1] = d /\ \A i \in DOMAIN os : i \in DOMAIN ps /\ ps[i] = os[i]
  OBVIOUS
<1> HIDE DEF ps
<1>2. Matched(ps, m, s, side) = M
  BY <1>1 DEF Matched
<1>3. \A i \in M : f[i] = g[i]
  BY <1>1 DEF Matched
<1>4. IsFiniteSet(M)
  BY VolumeFacts
<1>5. SumFunctionOnSet(f, M) = SumFunctionOnSet(g, M)
  <2> HIDE DEF f, g, M
  <2> QED
    BY <1>3, <1>4, SumSame
<1> QED
  BY <1>2, <1>5 DEF Volume, ps

\* A decision on a pending order moves its lot if it is executed, and only then.
LEMMA DecidedVolume ==
  ASSUME NEW os \in Seq(OrderDocument), NEW o \in DOMAIN os, os[o].status = "pending",
         NEW e \in OrderDocument, e.lot = os[o].lot,
         NEW m, NEW s, NEW side
  PROVE  Volume([os EXCEPT ![o] = e], m, s, side) = Volume(os, m, s, side) + Gain(e, m, s, side)
<1> DEFINE ps == [os EXCEPT ![o] = e]
           f == [i \in DOMAIN os |-> os[i].lot]
           g == [i \in DOMAIN ps |-> ps[i].lot]
           M == Matched(os, m, s, side)
<1>1. /\ DOMAIN ps = DOMAIN os /\ ps[o] = e
      /\ \A i \in DOMAIN os : i # o => ps[i] = os[i]
  OBVIOUS
<1> HIDE DEF ps
<1>2. f = g
  BY <1>1
<1>3. IsFiniteSet(M) /\ Volume(os, m, s, side) \in Int /\ e.lot \in Nat
      /\ \A i \in DOMAIN os : os[i].lot \in Nat
  BY VolumeFacts DEF OrderDocument
<1>4. o \notin M /\ M \subseteq DOMAIN os
  BY DEF Matched
<1>5. CASE e.status = "executed" /\ e.stock = s /\ e.member = m /\ e.side = side
  <2>1. Matched(ps, m, s, side) = M \cup {o}
    BY <1>1, <1>5 DEF Matched
  <2>2. (\A i \in M : f[i] \in Int) /\ f[o] = e.lot /\ f[o] \in Int
    BY <1>3, <1>4
  <2>3. SumFunctionOnSet(f, M \cup {o}) = SumFunctionOnSet(f, M) + f[o]
    <3> HIDE DEF f, M
    <3> QED
      BY <1>3, <1>4, <2>2, SumAdd
  <2>4. Volume(ps, m, s, side) = SumFunctionOnSet(f, M \cup {o})
    BY <1>2, <2>1 DEF Volume
  <2>5. Volume(os, m, s, side) = SumFunctionOnSet(f, M)
    BY DEF Volume
  <2> HIDE DEF f, M
  <2> QED
    BY <1>5, <2>2, <2>3, <2>4, <2>5 DEF ps, Gain
<1>6. CASE ~(e.status = "executed" /\ e.stock = s /\ e.member = m /\ e.side = side)
  <2>1. Matched(ps, m, s, side) = M
    BY <1>1, <1>4, <1>6 DEF Matched
  <2>2. Volume(ps, m, s, side) = Volume(os, m, s, side)
    BY <1>2, <2>1 DEF Volume
  <2> QED
    BY <1>3, <1>6, <2>2 DEF ps, Gain
<1> QED
  BY <1>5, <1>6

\* A step of one member's trade leaves the trades of the others as they were.
LEMMA TradesKept ==
  ASSUME TradesOK, NEW m \in Members, NEW t \in TradeRecord, NEW os \in Seq(OrderDocument),
         orders' = os, trade' = [trade EXCEPT ![m] = t], Relies(os, m, t),
         \A i \in DOMAIN os : os[i].status = "executed" <=> os[i].at # None,
         \A i \in DOMAIN orders :
           i \in DOMAIN os /\ (orders[i].member # m => os[i] = orders[i])
  PROVE  TradesOK'
<1>1. ASSUME NEW n \in Members
      PROVE  Relies(os, n, trade'[n])
  <2>1. CASE n = m
    BY <2>1 DEF TradesOK
  <2>2. CASE n # m
    BY <2>2 DEF TradesOK, Relies
  <2> QED
    BY <2>1, <2>2
<1> QED
  BY <1>1 DEF TradesOK

\* ... and its portfolio is deleted, moves or is marked if the shares changed.
LEMMA PortfolioKept ==
  ASSUME TradesOK, PortfolioOK, NEW m \in Members, NEW t, trade' = [trade EXCEPT ![m] = t],
         NEW f \in [Held -> Nat], shares' = [shares EXCEPT ![m] = f],
         UNCHANGED <<view, reading>>,
         late \subseteq late' /\ late' \subseteq late \cup {m},
         stale \subseteq stale' /\ stale' \subseteq stale \cup {m},
         adrift' \in [Members -> [Held -> Int]],
         f = shares[m] \/ reading[m] = None \/ m \in late',
         view[m] = None \/ m \in stale' \/ Reports!Moving(t) \/ (f = shares[m] /\ ~Reports!Moving(trade[m]))
  PROVE  PortfolioOK'
<1>1. ASSUME NEW n \in Members
      PROVE  /\ reading'[n] \in {None, shares'[n]} \/ n \in late'
             /\ view'[n] \in {None, shares'[n]} \/ n \in stale' \/ Reports!Moving(trade'[n])
  <2>1. CASE n = m
    BY <2>1 DEF TradesOK, PortfolioOK
  <2>2. CASE n # m
    BY <2>2 DEF TradesOK, PortfolioOK
  <2> QED
    BY <2>1, <2>2
<1> QED
  BY <1>1 DEF PortfolioOK

\* ... and the books are right if they are right for this member.
LEMMA BooksKept ==
  ASSUME TradesOK, PortfolioOK, BooksOK, NEW m \in Members, NEW t,
         trade' = [trade EXCEPT ![m] = t],
         NEW f \in [Held -> Nat], shares' = [shares EXCEPT ![m] = f],
         NEW g \in [Held -> Int], adrift' = [adrift EXCEPT ![m] = g],
         \A n \in Members \ {m}, s \in Held, side \in {"buy", "sell"} :
           Volume(orders', n, s, side) = Volume(orders, n, s, side),
         \A s \in Held :
           Volume(orders', m, s, "buy") + Reports!Added(t, s) + g[s]
             = Volume(orders', m, s, "sell") + f[s] + Reports!Taken(t, s)
  PROVE  BooksOK'
<1>1. ASSUME NEW n \in Members, NEW s \in Held
      PROVE  Volume(orders', n, s, "buy") + Reports!Added(trade'[n], s) + adrift'[n][s]
               = Volume(orders', n, s, "sell") + shares'[n][s] + Reports!Taken(trade'[n], s)
  <2>1. CASE n = m
    BY <2>1 DEF TradesOK, PortfolioOK
  <2>2. CASE n # m
    <3>1. trade'[n] = trade[n] /\ shares'[n] = shares[n] /\ adrift'[n] = adrift[n]
      BY <2>2 DEF TradesOK, PortfolioOK
    <3>2. /\ Volume(orders', n, s, "buy") = Volume(orders, n, s, "buy")
          /\ Volume(orders', n, s, "sell") = Volume(orders, n, s, "sell")
      BY <2>2
    <3> QED
      BY <3>1, <3>2 DEF BooksOK
  <2> QED
    BY <2>1, <2>2
<1> QED
  BY <1>1 DEF BooksOK

\* The order of a buy, or of a sell that has taken its shares.
LEMMA PlacedStep ==
  ASSUME ReportsInv, NEW m \in Members, NEW u \in TradeRecord, u.stock \in Held,
         Reports!PlaceOrder(m, u), UNCHANGED <<clock, shares, view, reading, late, stale, adrift>>,
         \A s \in Held : /\ Reports!Added(trade[m], s) = 0
                         /\ Reports!Taken(trade[m], s)
                              = IF u.side = "sell" /\ u.stock = s THEN u.lot ELSE 0,
         Reports!Moving(trade[m]) => u.side = "sell"
  PROVE  ReportsInv'
<1> USE DEF ReportsInv
<1> DEFINE d == [member |-> m, side |-> u.side, stock |-> u.stock, lot |-> u.lot,
                 total |-> u.lot * PriceOf[u.stock], status |-> "pending", at |-> None]
           t == [u EXCEPT !.stage = "pay", !.order = Len(orders) + 1]
           os == Append(orders, d)
<1>1. orders' = os /\ trade' = [trade EXCEPT ![m] = t]
  BY DEF Reports!PlaceOrder
<1>2. d \in OrderDocument /\ d.status = "pending" /\ d.at = None
  <2>1. u.lot \in Nat /\ u.side \in {"buy", "sell"} /\ PriceOf[u.stock] \in Nat
    BY ReportConstants DEF TradeRecord
  <2>2. u.lot * PriceOf[u.stock] \in Nat
    BY <2>1
  <2> QED
    BY <2>1, <2>2 DEF OrderDocument
<1>3. /\ d.member = m /\ d.side = u.side /\ d.stock = u.stock /\ d.lot = u.lot
  OBVIOUS
<1>4. /\ t \in TradeRecord /\ t.stage = "pay" /\ t.side = u.side /\ t.stock = u.stock
      /\ t.lot = u.lot /\ t.order = Len(orders) + 1
  <2>1. Len(orders) + 1 \in Nat
    BY DEF TradesOK
  <2>2. u \in [stage : Stages, side : {"buy", "sell"}, stock : Held \cup {Reports!NoTrade.stock},
               lot : Nat, order : Nat]
    BY DEF TradeRecord
  <2> QED
    BY <2>1, <2>2 DEF TradeRecord, Stages
<1> HIDE DEF d, t
<1>5. /\ os \in Seq(OrderDocument) /\ DOMAIN os = 1 .. Len(orders) + 1
      /\ DOMAIN orders = 1 .. Len(orders) /\ Len(orders) \in Nat
      /\ os[Len(orders) + 1] = d /\ \A i \in DOMAIN orders : os[i] = orders[i]
  BY <1>2 DEF TradesOK
<1>6. \A n, s, side : Volume(os, n, s, side) = Volume(orders, n, s, side)
  BY <1>2, AppendedVolume DEF TradesOK
<1> HIDE DEF os
<1>7. Relies(os, m, t)
  BY <1>2, <1>3, <1>4, <1>5 DEF Relies
<1>8. \A i \in DOMAIN os : os[i].status = "executed" <=> os[i].at # None
  BY <1>2, <1>5 DEF TradesOK
<1>9. TradesOK'
  <2>1. \A i \in DOMAIN orders :
          i \in DOMAIN os /\ (orders[i].member # m => os[i] = orders[i])
    BY <1>5
  <2>2. os \in Seq(OrderDocument) /\ t \in TradeRecord
    BY <1>4, <1>5
  <2> QED
    BY <1>1, <1>7, <1>8, <2>1, <2>2, TradesKept, Zenon
<1>10. /\ shares[m] \in [Held -> Nat] /\ shares' = [shares EXCEPT ![m] = shares[m]]
       /\ adrift[m] \in [Held -> Int] /\ adrift' = [adrift EXCEPT ![m] = adrift[m]]
  BY DEF PortfolioOK
<1>11. PortfolioOK'
  <2>1. ~Reports!Moving(trade[m]) \/ Reports!Moving(t)
    BY <1>4 DEF Reports!Moving
  <2> QED
    BY <1>1, <1>10, <2>1, PortfolioKept DEF PortfolioOK
<1>12. BooksOK'
  <2>1. \A s \in Held : Reports!Added(t, s) = Reports!Added(trade[m], s) /\ Reports!Taken(t, s) = Reports!Taken(trade[m], s)
    BY <1>4 DEF Reports!Added, Reports!Taken
  <2>2. \A s \in Held :
           Volume(os, m, s, "buy") + Reports!Added(t, s) + adrift[m][s]
             = Volume(os, m, s, "sell") + shares[m][s] + Reports!Taken(t, s)
    BY <1>6, <2>1 DEF BooksOK
  <2>3. \A n \in Members \ {m}, s \in Held, side \in {"buy", "sell"} :
          Volume(orders', n, s, side) = Volume(orders, n, s, side)
    BY <1>1, <1>6
  <2>4. /\ \A s \in Held :
             Volume(orders', m, s, "buy") + Reports!Added(t, s) + adrift[m][s]
               = Volume(orders', m, s, "sell") + shares[m][s] + Reports!Taken(t, s)
        /\ trade' = [trade EXCEPT ![m] = t]
    BY <1>1, <2>2
  <2>5. TradesOK /\ PortfolioOK /\ BooksOK
    OBVIOUS
  <2> HIDE DEF ReportsInv
  <2> QED
    BY ONLY <1>10, <2>3, <2>4, <2>5, BooksKept, Zenon
<1>13. DatesOK'
  BY DEF DatesOK
<1> QED
  BY <1>9, <1>11, <1>12, <1>13

\* What a trade has moved without an executed order it has added or taken, or
\* has left behind when it broke off.
LEMMA SameOrders ==
  ASSUME ReportsInv, NEW m \in Members, NEW t \in TradeRecord, NEW f \in [Held -> Nat],
         NEW g \in [Held -> Int], UNCHANGED orders, trade' = [trade EXCEPT ![m] = t],
         shares' = [shares EXCEPT ![m] = f], adrift' = [adrift EXCEPT ![m] = g],
         Relies(orders, m, t),
         \A s \in Held :
           f[s] + Reports!Taken(t, s) + Reports!Added(trade[m], s) + adrift[m][s]
             = shares[m][s] + Reports!Taken(trade[m], s) + Reports!Added(t, s) + g[s]
  PROVE  TradesOK' /\ BooksOK'
<1> USE DEF ReportsInv
<1>1. TradesOK'
  <2>1. orders \in Seq(OrderDocument) /\ orders' = orders
        /\ (\A i \in DOMAIN orders : orders[i].status = "executed" <=> orders[i].at # None)
        /\ \A i \in DOMAIN orders :
             i \in DOMAIN orders /\ (orders[i].member # m => orders[i] = orders[i])
    BY DEF TradesOK
  <2> QED
    BY <2>1, TradesKept, Zenon
<1>2. ASSUME NEW s \in Held
      PROVE  Volume(orders, m, s, "buy") + Reports!Added(t, s) + g[s]
               = Volume(orders, m, s, "sell") + f[s] + Reports!Taken(t, s)
  <2>1. /\ Volume(orders, m, s, "buy") \in Int /\ Volume(orders, m, s, "sell") \in Int
    BY VolumeFacts DEF TradesOK
  <2>2. /\ f[s] \in Int /\ shares[m][s] \in Int /\ g[s] \in Int /\ adrift[m][s] \in Int
        /\ Reports!Added(t, s) \in Int /\ Reports!Taken(t, s) \in Int
        /\ Reports!Added(trade[m], s) \in Int /\ Reports!Taken(trade[m], s) \in Int
    BY DEF PortfolioOK, TradesOK, TradeRecord, Reports!Added, Reports!Taken
  <2>3. Volume(orders, m, s, "buy") + Reports!Added(trade[m], s) + adrift[m][s]
          = Volume(orders, m, s, "sell") + shares[m][s] + Reports!Taken(trade[m], s)
    BY DEF BooksOK
  <2>4. f[s] + Reports!Taken(t, s) + Reports!Added(trade[m], s) + adrift[m][s]
          = shares[m][s] + Reports!Taken(trade[m], s) + Reports!Added(t, s) + g[s]
    OBVIOUS
  <2> QED
    BY <2>1, <2>2, <2>3, <2>4
<1>3. BooksOK'
  <2>1. /\ \A n \in Members \ {m}, s \in Held, side \in {"buy", "sell"} :
             Volume(orders', n, s, side) = Volume(orders, n, s, side)
        /\ \A s \in Held :
             Volume(orders', m, s, "buy") + Reports!Added(t, s) + g[s]
               = Volume(orders', m, s, "sell") + f[s] + Reports!Taken(t, s)
    BY <1>2
  <2> QED
    BY <2>1, BooksKept, Zenon
<1> QED
  BY <1>1, <1>3

\* A decision on the order of a trade, after which the trade moves no more.
LEMMA DecidedOrder ==
  ASSUME ReportsInv, NEW m \in Members, NEW t \in TradeRecord, NEW f \in [Held -> Nat],
         trade[m].stage \in {"pay", "mark"}, t.stage \in {"idle", "evict"},
         t.stage # "idle" => t.stock \in Held,
         NEW e \in OrderDocument, e.status # "pending",
         e.status = "executed" <=> e.at # None,
         e.lot = trade[m].lot, e.member = m, e.stock = trade[m].stock, e.side = trade[m].side,
         orders' = [orders EXCEPT ![trade[m].order] = e],
         trade' = [trade EXCEPT ![m] = t], shares' = [shares EXCEPT ![m] = f],
         UNCHANGED adrift,
         \A s \in Held :
           f[s] + Reports!Added(trade[m], s) + Gain(e, m, s, "sell")
             = shares[m][s] + Reports!Taken(trade[m], s) + Gain(e, m, s, "buy")
  PROVE  TradesOK' /\ BooksOK'
<1> USE DEF ReportsInv
<1> DEFINE o == trade[m].order
           os == [orders EXCEPT ![o] = e]
<1>1. /\ o \in DOMAIN orders /\ orders[o].status = "pending" /\ orders[o].member = m
      /\ orders[o].lot = e.lot
  BY DEF TradesOK, Relies
<1>2. os \in Seq(OrderDocument) /\ DOMAIN os = DOMAIN orders /\ os[o] = e
      /\ \A i \in DOMAIN orders : i # o => os[i] = orders[i]
  BY <1>1 DEF TradesOK
<1>3. \A n, s, side : Volume(os, n, s, side) = Volume(orders, n, s, side) + Gain(e, n, s, side)
  BY <1>1, DecidedVolume DEF TradesOK
<1>4. orders' = os
  OBVIOUS
<1> HIDE DEF os, o
<1>5. TradesOK'
  <2>1. \A i \in DOMAIN os : os[i].status = "executed" <=> os[i].at # None
    BY <1>2 DEF TradesOK
  <2>2. \A i \in DOMAIN orders :
          i \in DOMAIN os /\ (orders[i].member # m => os[i] = orders[i])
    BY <1>1, <1>2
  <2>3. Relies(os, m, t)
    BY DEF Relies
  <2> QED
    BY <1>2, <1>4, <2>1, <2>2, <2>3, TradesKept, Zenon
<1>6. ASSUME NEW n \in Members \ {m}, NEW s \in Held, NEW side \in {"buy", "sell"}
      PROVE  Volume(orders', n, s, side) = Volume(orders, n, s, side)
  <2>1. Volume(orders, n, s, side) \in Int
    BY VolumeFacts DEF TradesOK
  <2>2. Gain(e, n, s, side) = 0
    BY DEF Gain
  <2>3. Volume(os, n, s, side) = Volume(orders, n, s, side) + Gain(e, n, s, side)
    BY ONLY <1>3
  <2>4. Volume(os, n, s, side) = Volume(orders, n, s, side)
    BY ONLY <2>1, <2>2, <2>3
  <2> QED
    BY ONLY <1>4, <2>4, Zenon
<1>7. ASSUME NEW s \in Held
      PROVE  Volume(os, m, s, "buy") + Reports!Added(t, s) + adrift[m][s]
               = Volume(os, m, s, "sell") + f[s] + Reports!Taken(t, s)
  <2> DEFINE b == Gain(e, m, s, "buy")
             c == Gain(e, m, s, "sell")
  <2>1. /\ Volume(orders, m, s, "buy") \in Int /\ Volume(orders, m, s, "sell") \in Int
    BY VolumeFacts DEF TradesOK
  <2>2. /\ f[s] \in Int /\ shares[m][s] \in Int /\ b \in Int /\ c \in Int
        /\ adrift[m][s] \in Int /\ Reports!Added(t, s) = 0 /\ Reports!Taken(t, s) = 0
        /\ Reports!Added(trade[m], s) \in Int /\ Reports!Taken(trade[m], s) \in Int
    BY DEF PortfolioOK, TradesOK, TradeRecord, OrderDocument, Reports!Added, Reports!Taken, Gain
  <2>3. Volume(orders, m, s, "buy") + Reports!Added(trade[m], s) + adrift[m][s]
          = Volume(orders, m, s, "sell") + shares[m][s] + Reports!Taken(trade[m], s)
    BY DEF BooksOK
  <2>4. /\ Volume(os, m, s, "buy") = Volume(orders, m, s, "buy") + b
        /\ Volume(os, m, s, "sell") = Volume(orders, m, s, "sell") + c
    BY <1>3
  <2>5. f[s] + Reports!Added(trade[m], s) + c = shares[m][s] + Reports!Taken(trade[m], s) + b
    OBVIOUS
  <2> HIDE DEF b, c
  <2> QED
    BY <2>1, <2>2, <2>3, <2>4, <2>5
<1>8. BooksOK'
  <2>1. \A s \in Held :
          Volume(orders', m, s, "buy") + Reports!Added(t, s) + adrift[m][s]
            = Volume(orders', m, s, "sell") + f[s] + Reports!Taken(t, s)
    BY <1>4, <1>7
  <2>2. \A n \in Members \ {m}, s \in Held, side \in {"buy", "sell"} :
          Volume(orders', n, s, side) = Volume(orders, n, s, side)
    BY <1>6
  <2>3. TradesOK /\ PortfolioOK /\ BooksOK
    OBVIOUS
  <2>4. trade' = [trade EXCEPT ![m] = t] /\ shares' = [shares EXCEPT ![m] = f]
        /\ adrift[m] \in [Held -> Int] /\ adrift' = [adrift EXCEPT ![m] = adrift[m]]
    BY DEF PortfolioOK
  <2> HIDE DEF ReportsInv
  <2> QED
    BY ONLY <2>1, <2>2, <2>3, <2>4, BooksKept, Zenon
<1> QED
  BY <1>5, <1>8

\* Trades that begin.
LEMMA BeginStep ==
  ASSUME ReportsInv, NEW m \in Members, NEW s \in Held, NEW n \in Lots,
         Reports!Buy(m, s, n) \/ Reports!Sell(m, s, n)
  PROVE  ReportsInv'
<1> USE DEF ReportsInv
<1>1. trade[m] \in TradeRecord /\ shares[m] \in [Held -> Nat] /\ n \in Nat
  BY ReportConstants DEF TradesOK, PortfolioOK
<1>2. CASE Reports!Buy(m, s, n)
  <2> DEFINE u == [Reports!NoTrade EXCEPT !.stock = s, !.lot = n]
  <2>1. /\ trade[m].stage = "idle" /\ Reports!PlaceOrder(m, u)
        /\ UNCHANGED <<clock, shares, view, reading, late, stale, adrift>>
    BY <1>2 DEF Reports!Buy, Reports!caches
  <2>2. u \in TradeRecord /\ u.stock = s /\ u.side = "buy"
    BY <1>1, ReportConstants DEF TradeRecord
  <2> HIDE DEF u
  <2>3. \A x \in Held : /\ Reports!Added(trade[m], x) = 0
                        /\ Reports!Taken(trade[m], x)
                             = IF u.side = "sell" /\ u.stock = x THEN u.lot ELSE 0
    BY <2>1, <2>2 DEF Reports!Added, Reports!Taken
  <2>4. ~Reports!Moving(trade[m])
    BY <2>1 DEF Reports!Moving
  <2> QED
    BY <2>1, <2>2, <2>3, <2>4, PlacedStep
<1>3. CASE Reports!Sell(m, s, n)
  <2> DEFINE t == [Reports!NoTrade EXCEPT !.stage = "record", !.side = "sell",
                                          !.stock = s, !.lot = n]
             f == [shares[m] EXCEPT ![s] = shares[m][s] - n]
  <2>1. /\ trade[m].stage = "idle" /\ shares[m][s] >= n
        /\ trade' = [trade EXCEPT ![m] = t]
        /\ late' = IF reading[m] = None THEN late ELSE late \cup {m}
        /\ UNCHANGED <<clock, orders, view, reading, stale, adrift>>
    BY <1>3 DEF Reports!Sell, Reports!SetShares, Reports!caches
  <2>2. shares' = [shares EXCEPT ![m] = f]
    BY <1>3 DEF Reports!Sell, Reports!SetShares, PortfolioOK
  <2>3. t \in TradeRecord /\ t.stage = "record" /\ t.side = "sell" /\ t.stock = s /\ t.lot = n
    BY <1>1, ReportConstants DEF TradeRecord, Stages
  <2>4. /\ f \in [Held -> Nat] /\ f[s] = shares[m][s] - n
        /\ \A x \in Held : x # s => f[x] = shares[m][x]
    BY <1>1, <2>1
  <2> HIDE DEF t, f
  <2>5. Relies(orders, m, t) /\ Reports!Moving(t)
    BY <2>3 DEF Relies, Reports!Moving
  <2>6. /\ adrift[m] \in [Held -> Int] /\ adrift' = [adrift EXCEPT ![m] = adrift[m]]
        /\ \A x \in Held :
             f[x] + Reports!Taken(t, x) + Reports!Added(trade[m], x) + adrift[m][x]
               = shares[m][x] + Reports!Taken(trade[m], x) + Reports!Added(t, x) + adrift[m][x]
    <3>1. adrift[m] \in [Held -> Int] /\ adrift' = [adrift EXCEPT ![m] = adrift[m]]
      BY <2>1 DEF PortfolioOK
    <3>2. \A x \in Held :
            f[x] + Reports!Taken(t, x) + Reports!Added(trade[m], x)
              = shares[m][x] + Reports!Taken(trade[m], x) + Reports!Added(t, x)
      BY <1>1, <2>1, <2>3, <2>4 DEF Reports!Taken, Reports!Added
    <3> QED
      BY <3>1, <3>2
  <2>7. TradesOK' /\ BooksOK'
    <3>1. /\ orders' = orders /\ trade' = [trade EXCEPT ![m] = t] /\ Relies(orders, m, t)
          /\ ReportsInv /\ m \in Members /\ t \in TradeRecord /\ f \in [Held -> Nat]
      BY <2>1, <2>3, <2>4, <2>5
    <3> HIDE DEF ReportsInv
    <3> QED
      BY ONLY <2>2, <2>6, <3>1, SameOrders, Zenon
  <2>8. PortfolioOK'
    BY <2>1, <2>2, <2>4, <2>5, PortfolioKept DEF PortfolioOK
  <2> QED
    BY <2>1, <2>7, <2>8 DEF DatesOK
<1> QED
  BY <1>2, <1>3

\* The order of a sell, once its shares are taken.
LEMMA RecordStep ==
  ASSUME ReportsInv, NEW m \in Members, Reports!Record(m)
  PROVE  ReportsInv'
<1> USE DEF ReportsInv
<1>0. trade[m] \in TradeRecord
  BY DEF TradesOK
<1>1. /\ trade[m].stage = "record" /\ Reports!PlaceOrder(m, trade[m])
      /\ UNCHANGED <<clock, shares, view, reading, late, stale, adrift>>
  BY DEF Reports!Record, Reports!caches
<1>2. trade[m].side = "sell" /\ trade[m].stock \in Held
  BY <1>1 DEF TradesOK, Relies
<1>3. \A x \in Held : /\ Reports!Added(trade[m], x) = 0
                      /\ Reports!Taken(trade[m], x)
                           = IF trade[m].side = "sell" /\ trade[m].stock = x
                             THEN trade[m].lot ELSE 0
  BY <1>1, <1>2 DEF Reports!Added, Reports!Taken
<1> QED
  BY <1>0, <1>1, <1>2, <1>3, PlacedStep

\* The answers of the wallet, and the execution of the order.
LEMMA AnswerStep ==
  ASSUME ReportsInv, NEW m \in Members,
         Reports!Paid(m) \/ Reports!Refused(m) \/ Reports!MarkExecuted(m)
  PROVE  ReportsInv'
<1> USE DEF ReportsInv
<1> DEFINE t == trade[m]
           o == t.order
           more == [shares[m] EXCEPT ![t.stock] = shares[m][t.stock] + t.lot]
<1>1. /\ t \in TradeRecord /\ Relies(orders, m, t) /\ shares[m] \in [Held -> Nat]
      /\ t.stage \in {"pay", "mark"} /\ t.stock \in Held /\ t.lot \in Nat
      /\ shares = [shares EXCEPT ![m] = shares[m]]
  <2>1. t.stage \in {"pay", "mark"}
    BY DEF Reports!Paid, Reports!Refused, Reports!MarkExecuted
  <2> QED
    BY <2>1 DEF TradesOK, PortfolioOK, TradeRecord, Relies
<1>2. /\ o \in DOMAIN orders /\ orders[o] \in OrderDocument
      /\ orders[o].member = m /\ orders[o].side = t.side /\ orders[o].stock = t.stock
      /\ orders[o].lot = t.lot /\ t.side \in {"buy", "sell"}
      /\ orders[o].status = "pending" /\ orders[o].at = None
  BY <1>1 DEF TradesOK, Relies, TradeRecord
<1>3. /\ more \in [Held -> Nat] /\ more[t.stock] = shares[m][t.stock] + t.lot
      /\ \A x \in Held : x # t.stock => more[x] = shares[m][x]
  BY <1>1
<1>4. CASE Reports!Paid(m)
  <2> DEFINE u == [trade[m] EXCEPT !.stage = "mark"]
             f == IF t.side = "buy" THEN more ELSE shares[m]
  <2>1. /\ t.stage = "pay" /\ trade' = [trade EXCEPT ![m] = u]
        /\ late' = IF t.side = "buy" /\ reading[m] # None THEN late \cup {m} ELSE late
        /\ UNCHANGED <<clock, orders, view, reading, stale, adrift>>
    BY <1>4 DEF Reports!Paid, Reports!Goto, Reports!SetShares, Reports!caches, TradesOK
  <2>2. shares' = [shares EXCEPT ![m] = f]
    BY <1>1, <1>4 DEF Reports!Paid, Reports!SetShares, PortfolioOK
  <2>3. /\ u \in TradeRecord /\ u.stage = "mark" /\ u.side = t.side /\ u.stock = t.stock
        /\ u.lot = t.lot /\ u.order = o
    BY <1>1 DEF TradeRecord, Stages
  <2>4. f \in [Held -> Nat]
    BY <1>1, <1>3
  <2> HIDE DEF u
  <2>5. Relies(orders, m, u) /\ Reports!Moving(u)
    BY <1>1, <2>1, <2>3 DEF Relies, Reports!Moving
  <2>6. /\ adrift[m] \in [Held -> Int] /\ adrift' = [adrift EXCEPT ![m] = adrift[m]]
        /\ \A x \in Held :
             f[x] + Reports!Taken(u, x) + Reports!Added(trade[m], x) + adrift[m][x]
               = shares[m][x] + Reports!Taken(trade[m], x) + Reports!Added(u, x) + adrift[m][x]
    <3>1. adrift[m] \in [Held -> Int] /\ adrift' = [adrift EXCEPT ![m] = adrift[m]]
      BY <2>1 DEF PortfolioOK
    <3>2. \A x \in Held :
            f[x] + Reports!Taken(u, x) + Reports!Added(trade[m], x)
              = shares[m][x] + Reports!Taken(trade[m], x) + Reports!Added(u, x)
      BY <1>1, <1>2, <1>3, <2>1, <2>3 DEF Reports!Taken, Reports!Added
    <3> QED
      BY <3>1, <3>2
  <2>7. f = shares[m] \/ reading[m] = None \/ m \in late'
    BY <2>1
  <2>8. late' \subseteq late \cup {m} /\ late \subseteq late'
    BY <2>1
  <2> HIDE DEF f
  <2>9. TradesOK' /\ BooksOK'
    <3>1. /\ orders' = orders /\ trade' = [trade EXCEPT ![m] = u] /\ Relies(orders, m, u)
          /\ ReportsInv
      BY <2>1, <2>5
    <3> HIDE DEF ReportsInv
    <3> QED
      BY <2>2, <2>3, <2>4, <2>6, <3>1, SameOrders, Zenon
  <2>10. PortfolioOK'
    BY <2>1, <2>2, <2>4, <2>5, <2>7, <2>8, PortfolioKept DEF PortfolioOK
  <2> QED
    BY <2>1, <2>9, <2>10 DEF DatesOK
<1>5. CASE Reports!Refused(m)
  <2> DEFINE u == Reports!NoTrade
             f == IF t.side = "sell" THEN more ELSE shares[m]
             e == [orders[o] EXCEPT !.status = "rejected"]
  <2>1. /\ t.stage = "pay" /\ trade' = [trade EXCEPT ![m] = u]
        /\ late' = IF t.side = "sell" /\ reading[m] # None THEN late \cup {m} ELSE late
        /\ stale' = IF t.side = "sell" /\ view[m] # None THEN stale \cup {m} ELSE stale
        /\ UNCHANGED <<clock, view, reading, adrift>>
    BY <1>5 DEF Reports!Refused, Reports!Finish, Reports!SetShares, Reports!caches
  <2>2. shares' = [shares EXCEPT ![m] = f]
    BY <1>1, <1>5 DEF Reports!Refused, Reports!SetShares, PortfolioOK
  <2>3. orders' = [orders EXCEPT ![o] = e]
    BY <1>5 DEF Reports!Refused
  <2>4. /\ e \in OrderDocument /\ e.status = "rejected" /\ e.at = None /\ e.lot = t.lot
        /\ e.member = m /\ e.stock = t.stock /\ e.side = t.side
    BY <1>2 DEF OrderDocument
  <2>5. f \in [Held -> Nat] /\ u \in TradeRecord /\ u.stage = "idle"
    BY <1>1, <1>3, ReportConstants
  <2> HIDE DEF u, e
  <2>6. \A x \in Held :
           f[x] + Reports!Added(trade[m], x) + Gain(e, m, x, "sell")
             = shares[m][x] + Reports!Taken(trade[m], x) + Gain(e, m, x, "buy")
    BY <1>1, <1>2, <1>3, <2>1, <2>4 DEF Reports!Taken, Reports!Added, Gain
  <2>7. f = shares[m] \/ reading[m] = None \/ m \in late'
    BY <2>1
  <2>8. /\ late' \subseteq late \cup {m} /\ late \subseteq late'
        /\ stale' \subseteq stale \cup {m} /\ stale \subseteq stale'
    BY <2>1
  <2>9. view[m] = None \/ m \in stale' \/ (f = shares[m] /\ ~Reports!Moving(trade[m]))
    BY <1>2, <2>1 DEF Reports!Moving
  <2> HIDE DEF f
  <2>10. TradesOK' /\ BooksOK'
    <3>1. /\ trade[m].stage \in {"pay", "mark"} /\ u.stage \in {"idle", "evict"}
          /\ u.stage # "idle" => u.stock \in Held
          /\ e.status # "pending" /\ (e.status = "executed" <=> e.at # None)
          /\ adrift' = adrift /\ ReportsInv
      BY <2>1, <2>4, <2>5
    <3> QED
      BY <2>1, <2>2, <2>3, <2>4, <2>5, <2>6, <3>1, DecidedOrder, Zenon
  <2>11. PortfolioOK'
    BY <2>1, <2>2, <2>5, <2>7, <2>8, <2>9, PortfolioKept DEF PortfolioOK
  <2> QED
    BY <2>1, <2>10, <2>11 DEF DatesOK
<1>6. CASE Reports!MarkExecuted(m)
  <2> DEFINE u == [trade[m] EXCEPT !.stage = "evict"]
             e == [orders[o] EXCEPT !.status = "executed", !.at = clock]
  <2>1. /\ t.stage = "mark" /\ trade' = [trade EXCEPT ![m] = u]
        /\ UNCHANGED <<clock, shares, view, reading, late, stale, adrift>>
    BY <1>6 DEF Reports!MarkExecuted, Reports!Goto, Reports!caches, TradesOK
  <2>2. orders' = [orders EXCEPT ![o] = e]
    BY <1>2, <1>6 DEF Reports!MarkExecuted, TradesOK
  <2>3. clock \in Nat /\ clock # None
    BY ReportConstants DEF DatesOK
  <2>4. /\ e \in OrderDocument /\ e.status = "executed" /\ e.at # None /\ e.lot = t.lot
        /\ e.member = m /\ e.stock = t.stock /\ e.side = t.side
    BY <1>2, <2>3 DEF OrderDocument
  <2>5. u \in TradeRecord /\ u.stage = "evict" /\ u.stock = t.stock /\ u.side = t.side
    BY <1>1 DEF TradeRecord, Stages
  <2> HIDE DEF u, e
  <2>6. \A x \in Held :
           shares[m][x] + Reports!Added(trade[m], x) + Gain(e, m, x, "sell")
             = shares[m][x] + Reports!Taken(trade[m], x) + Gain(e, m, x, "buy")
    BY <1>1, <1>2, <2>1, <2>4 DEF Reports!Taken, Reports!Added, Gain
  <2>7. Reports!Moving(u)
    BY <2>5 DEF Reports!Moving
  <2>8. shares' = [shares EXCEPT ![m] = shares[m]]
    BY <1>1, <2>1
  <2>9. TradesOK' /\ BooksOK'
    <3>1. /\ trade[m].stage \in {"pay", "mark"} /\ u.stage \in {"idle", "evict"}
          /\ u.stage # "idle" => u.stock \in Held
          /\ e.status # "pending" /\ (e.status = "executed" <=> e.at # None)
          /\ adrift' = adrift /\ ReportsInv
      BY <1>1, <2>1, <2>4, <2>5
    <3>2. shares[m] \in [Held -> Nat] /\ trade' = [trade EXCEPT ![m] = u]
      BY <1>1, <2>1
    <3> QED
      BY <2>2, <2>4, <2>5, <2>6, <2>8, <3>1, <3>2, DecidedOrder, Zenon
  <2>10. PortfolioOK'
    BY <1>1, <2>1, <2>7, <2>8, PortfolioKept DEF PortfolioOK
  <2> QED
    BY <2>1, <2>9, <2>10 DEF DatesOK
<1> QED
  BY <1>4, <1>5, <1>6

\* Trades that end: with the delete, without it, or before their time.
LEMMA FinishStep ==
  ASSUME ReportsInv, NEW m \in Members,
         Reports!Evict(m) \/ Reports!EvictFails(m) \/ Reports!Die(m)
  PROVE  ReportsInv'
<1> USE DEF ReportsInv
<1> DEFINE u == Reports!NoTrade
<1>1. /\ trade[m].stage # "idle" /\ trade' = [trade EXCEPT ![m] = u]
      /\ UNCHANGED <<clock, orders, shares, reading, late>>
  <2>1. CASE Reports!Die(m)
    BY <2>1 DEF Reports!Die, Reports!Finish, Reports!caches
  <2>2. CASE ~Reports!Die(m)
    BY <2>2 DEF Reports!Evict, Reports!EvictFails, Reports!Finish, Reports!caches
  <2> QED
    BY <2>1, <2>2
<1>2. /\ trade[m] \in TradeRecord /\ shares[m] \in [Held -> Nat]
      /\ shares' = [shares EXCEPT ![m] = shares[m]]
  BY <1>1 DEF TradesOK, PortfolioOK
<1>3. u \in TradeRecord /\ u.stage = "idle" /\ ~Reports!Moving(u) /\ Relies(orders, m, u)
      /\ \A x : Reports!Added(u, x) = 0 /\ Reports!Taken(u, x) = 0
  BY ReportConstants DEF Reports!Moving, Relies, Reports!Added, Reports!Taken
<1> HIDE DEF u
<1> DEFINE behind == [x \in Held |-> adrift[m][x] + Reports!Added(trade[m], x)
                                                   - Reports!Taken(trade[m], x)]
           g == IF Reports!Die(m) THEN behind ELSE adrift[m]
<1>4. /\ g \in [Held -> Int] /\ adrift' = [adrift EXCEPT ![m] = g]
      /\ \A x \in Held : g[x] = adrift[m][x] + Reports!Added(trade[m], x)
                                              - Reports!Taken(trade[m], x)
  <2>1. \A x \in Held : /\ adrift[m][x] \in Int /\ Reports!Added(trade[m], x) \in Int
                        /\ Reports!Taken(trade[m], x) \in Int
    BY <1>2 DEF PortfolioOK, TradeRecord, Reports!Added, Reports!Taken
  <2>2. CASE Reports!Die(m)
    <3>1. adrift' = [adrift EXCEPT ![m] = behind] /\ behind \in [Held -> Int]
      BY <2>1, <2>2 DEF Reports!Die
    <3> QED
      BY <2>2, <3>1
  <2>3. CASE ~Reports!Die(m)
    <3>1. adrift' = adrift /\ trade[m].stage = "evict"
      BY <2>3 DEF Reports!Evict, Reports!EvictFails
    <3>2. \A x \in Held : Reports!Added(trade[m], x) = 0 /\ Reports!Taken(trade[m], x) = 0
      BY <3>1 DEF Reports!Added, Reports!Taken
    <3> QED
      BY <2>1, <2>3, <3>1, <3>2 DEF PortfolioOK
  <2> QED
    BY <2>2, <2>3
<1> HIDE DEF g, behind
<1>5. \A x \in Held :
        shares[m][x] + Reports!Taken(u, x) + Reports!Added(trade[m], x) + adrift[m][x]
          = shares[m][x] + Reports!Taken(trade[m], x) + Reports!Added(u, x) + g[x]
  <2>1. \A x \in Held : /\ adrift[m][x] \in Int /\ Reports!Added(trade[m], x) \in Int
                        /\ Reports!Taken(trade[m], x) \in Int /\ shares[m][x] \in Int
    BY <1>2 DEF PortfolioOK, TradeRecord, Reports!Added, Reports!Taken
  <2> QED
    BY <1>3, <1>4, <2>1
<1>6. TradesOK' /\ BooksOK'
  <2>1. /\ orders' = orders /\ trade' = [trade EXCEPT ![m] = u] /\ Relies(orders, m, u)
        /\ ReportsInv /\ m \in Members /\ u \in TradeRecord /\ shares[m] \in [Held -> Nat]
        /\ shares' = [shares EXCEPT ![m] = shares[m]]
        /\ g \in [Held -> Int] /\ adrift' = [adrift EXCEPT ![m] = g]
    BY <1>1, <1>2, <1>3, <1>4
  <2> HIDE DEF ReportsInv
  <2> QED
    BY ONLY <1>5, <2>1, SameOrders, Zenon
<1>7. PortfolioOK'
  <2>1. CASE Reports!Evict(m)
    <3>1. view' = [view EXCEPT ![m] = None] /\ stale' = stale \ {m}
      BY <2>1 DEF Reports!Evict
    <3>2. ASSUME NEW n \in Members
          PROVE  /\ reading'[n] \in {None, shares'[n]} \/ n \in late'
                 /\ view'[n] \in {None, shares'[n]} \/ n \in stale' \/ Reports!Moving(trade'[n])
      <4>1. CASE n = m
        BY <1>1, <3>1, <4>1 DEF PortfolioOK
      <4>2. CASE n # m
        BY <1>1, <3>1, <4>2 DEF PortfolioOK, TradesOK
      <4> QED
        BY <4>1, <4>2
    <3>3. /\ view' \in [Members -> [Held -> Nat] \cup {None}] /\ stale' \subseteq Members
          /\ adrift' \in [Members -> [Held -> Int]]
      BY <1>4, <3>1 DEF PortfolioOK
    <3> QED
      BY <1>1, <3>2, <3>3 DEF PortfolioOK
  <2>2. CASE Reports!EvictFails(m) \/ Reports!Die(m)
    <3>1. /\ view' = view /\ stale \subseteq stale' /\ stale' \subseteq stale \cup {m}
          /\ Reports!Moving(trade[m]) => m \in stale'
      BY <2>2 DEF Reports!EvictFails, Reports!Die, Reports!caches
    <3>2. view[m] = None \/ m \in stale' \/ (shares[m] = shares[m] /\ ~Reports!Moving(trade[m]))
      BY <3>1
    <3>3. adrift' \in [Members -> [Held -> Int]]
      BY <1>4 DEF PortfolioOK
    <3> QED
      BY <1>1, <1>2, <3>1, <3>2, <3>3, PortfolioKept
  <2> QED
    BY <2>1, <2>2
<1>8. DatesOK'
  BY <1>1 DEF DatesOK
<1> QED
  BY <1>6, <1>7, <1>8

\* Reads of the portfolio through Redis, and the TTL.
LEMMA PortfolioStep ==
  ASSUME ReportsInv, NEW m \in Members,
         Reports!GetPortfolio(m) \/ Reports!Fill(m) \/ Reports!Expire(m)
  PROVE  ReportsInv'
<1> USE DEF ReportsInv
<1>1. UNCHANGED <<clock, orders, shares, trade, adrift>>
  BY DEF Reports!GetPortfolio, Reports!Fill, Reports!Expire
<1>2. TradesOK' /\ DatesOK' /\ BooksOK'
  BY <1>1 DEF TradesOK, DatesOK, BooksOK
<1>3. CASE Reports!GetPortfolio(m)
  <2>1. /\ reading' = [reading EXCEPT ![m] = shares[m]] /\ late' = late \ {m}
        /\ UNCHANGED <<view, stale>>
    BY <1>3 DEF Reports!GetPortfolio
  <2> QED
    BY <1>1, <1>2, <2>1 DEF PortfolioOK
<1>4. CASE Reports!Fill(m)
  <2>1. /\ view' = [view EXCEPT ![m] = reading[m]] /\ reading' = [reading EXCEPT ![m] = None]
        /\ stale' = IF m \in late THEN stale \cup {m} ELSE stale \ {m}
        /\ late' = late \ {m}
    BY <1>4 DEF Reports!Fill
  <2>2. /\ view' \in [Members -> [Held -> Nat] \cup {None}]
        /\ reading' \in [Members -> [Held -> Nat] \cup {None}]
    BY <2>1 DEF PortfolioOK
  <2>3. ASSUME NEW n \in Members
        PROVE  /\ reading'[n] \in {None, shares'[n]} \/ n \in late'
               /\ view'[n] \in {None, shares'[n]} \/ n \in stale' \/ Reports!Moving(trade'[n])
    <3>1. CASE n = m
      BY <1>1, <2>1, <3>1 DEF PortfolioOK
    <3>2. CASE n # m
      BY <1>1, <2>1, <3>2 DEF PortfolioOK
    <3> QED
      BY <3>1, <3>2
  <2> QED
    BY <1>1, <1>2, <2>1, <2>2, <2>3 DEF PortfolioOK
<1>5. CASE Reports!Expire(m)
  <2>1. /\ view' = [view EXCEPT ![m] = None] /\ stale' = stale \ {m}
        /\ UNCHANGED <<reading, late>>
    BY <1>5 DEF Reports!Expire
  <2> QED
    BY <1>1, <1>2, <2>1 DEF PortfolioOK
<1> QED
  BY <1>3, <1>4, <1>5

\* The invariant of the reports is inductive.
LEMMA ReportsStep ==
  ASSUME ReportsInv, [Reports!Next]_Reports!vars
  PROVE  ReportsInv'
<1>1. CASE Reports!Tick
  <2>1. /\ clock < MaxTime /\ clock' = clock + 1
        /\ UNCHANGED <<orders, shares, trade, view, reading, late, stale, adrift>>
    BY <1>1 DEF Reports!Tick, Reports!caches
  <2>2. DatesOK'
    BY <2>1, ReportConstants DEF ReportsInv, DatesOK
  <2> QED
    BY <2>1, <2>2 DEF ReportsInv, TradesOK, PortfolioOK, BooksOK
<1>2. ASSUME NEW m \in Members, Reports!Trade(m)
      PROVE  ReportsInv'
  <2>1. CASE \E s \in Held, n \in Lots : Reports!Buy(m, s, n) \/ Reports!Sell(m, s, n)
    BY <2>1, BeginStep
  <2>2. CASE Reports!Record(m)
    BY <2>2, RecordStep
  <2> QED
    BY <1>2, <2>1, <2>2, AnswerStep, FinishStep DEF Reports!Trade
<1>3. CASE UNCHANGED Reports!vars
  <2>1. UNCHANGED <<clock, orders, shares, trade, view, reading, late, stale, adrift>>
    BY <1>3 DEF Reports!vars, Reports!caches
  <2> QED
    BY <2>1 DEF ReportsInv, TradesOK, DatesOK, PortfolioOK, BooksOK
<1> QED
  BY <1>1, <1>2, <1>3, PortfolioStep DEF Reports!Next

\* It holds of the empty collections.
LEMMA ReportsInit == Reports!Init => ReportsInv
<1> SUFFICES ASSUME Reports!Init PROVE ReportsInv
  OBVIOUS
<1>1. TradesOK
  BY ReportConstants DEF Reports!Init, TradesOK, Relies
<1>2. DatesOK
  BY ReportConstants DEF Reports!Init, DatesOK
<1>3. PortfolioOK
  BY ReportConstants DEF Reports!Init, PortfolioOK
<1>4. BooksOK
  <2>1. \A m, s, side : Volume(orders, m, s, side) = 0
    <3>1. \A m, s, side : Matched(orders, m, s, side) = {}
      BY DEF Reports!Init, Matched
    <3> QED
      BY <3>1, SumEmpty DEF Volume
  <2>2. \A m \in Members : \A s : /\ Reports!Added(trade[m], s) = 0 /\ Reports!Taken(trade[m], s) = 0
    BY ReportConstants DEF Reports!Init, Reports!Added, Reports!Taken
  <2> QED
    BY <2>1, <2>2 DEF Reports!Init, BooksOK
<1> QED
  BY <1>1, <1>2, <1>3, <1>4 DEF ReportsInv

\* It gives the types of TradingReports and what is promised of the portfolios.
LEMMA ReportsTyped == ReportsInv => Reports!TypeOK /\ Reports!PortfolioAgrees
<1> SUFFICES ASSUME ReportsInv PROVE Reports!TypeOK /\ Reports!PortfolioAgrees
  OBVIOUS
<1>1. Reports!TypeOK
  BY DEF ReportsInv, TradesOK, DatesOK, PortfolioOK, TradeRecord, Stages, Reports!TypeOK
<1>2. Reports!PortfolioAgrees
  BY DEF ReportsInv, PortfolioOK, Reports!PortfolioAgrees
<1> QED
  BY <1>1, <1>2

-----------------------------------------------------------------------------
(* The reports agree.                                                      *)

\* The sums and counts of TradingReports are those of the library.
LEMMA ReportsSum == \A f : Reports!SumFunction(f) = SumFunctionOnSet(f, DOMAIN f)
BY DEF Reports!SumFunction, Reports!SumFunctionOnSet, Reports!FoldFunctionOnSet,
     Reports!MapThenFoldSet, SumFunctionOnSet, FoldFunctionOnSet, MapThenFoldSet

\* The cardinality of the instance is that of the standard module.
LEMMA ReportsCardinality == \A S : Reports!Cardinality(S) = Cardinality(S)
BY DEF Reports!Cardinality, Cardinality

\* The keys of finitely many groups are finitely many.
LEMMA KeysFinite ==
  ASSUME NEW S, IsFiniteSet(S), NEW key
  PROVE  IsFiniteSet({key[x] : x \in S})
<1> DEFINE K == {key[x] : x \in S}
           f == [x \in S |-> key[x]]
<1>1. f \in Surjection(S, K)
  BY DEF Surjection
<1> QED
  BY <1>1, FS_Surjection

\* A report over groups adds up to the report over all.
LEMMA GroupsAddUp ==
  ASSUME NEW S, IsFiniteSet(S), NEW K, IsFiniteSet(K), NEW f, \A x \in S : f[x] \in Int,
         NEW key, \A x \in S : key[x] \in K,
         NEW r, DOMAIN r = K,
         \A k \in K : r[k] = SumFunctionOnSet(f, {x \in S : key[x] = k})
  PROVE  Reports!SumFunction(r) = SumFunctionOnSet(f, S)
<1> DEFINE q == [k \in K |-> SumFunctionOnSet(f, {x \in S : key[x] = k})]
<1>1. SumFunctionOnSet(q, K) = SumFunctionOnSet(f, S)
  BY SumGroups
<1>2. \A k \in K : r[k] = q[k]
  OBVIOUS
<1>3. SumFunctionOnSet(r, K) = SumFunctionOnSet(q, K)
  <2> HIDE DEF q
  <2> QED
    BY <1>2, SumSame
<1> QED
  BY <1>1, <1>3, ReportsSum

\* What is held, at its price.
Worth == [h \in Reports!Holdings |-> shares[h[1]][h[2]] * PriceOf[h[2]]]

\* The value of any set of holdings is the sum of what each is worth.
LEMMA WorthFacts ==
  ASSUME ReportsInv
  PROVE  /\ IsFiniteSet(Reports!Holdings) /\ \A h \in Reports!Holdings : Worth[h] \in Int
         /\ Reports!Holdings \subseteq Members \X Held
         /\ \A H \in SUBSET Reports!Holdings :
              IsFiniteSet(H) /\ Reports!MarketValue(H) = SumFunctionOnSet(Worth, H)
<1>1. Reports!Holdings \in SUBSET (Members \X Held)
  BY DEF Reports!Holdings
<1>2. IsFiniteSet(Members \X Held)
  BY ReportConstants, FS_Product
<1>3. IsFiniteSet(Reports!Holdings)
  BY <1>1, <1>2, FS_Subset
<1>4. ASSUME NEW h \in Reports!Holdings
      PROVE  Worth[h] \in Int
  <2>1. h[1] \in Members /\ h[2] \in Held
    BY <1>1
  <2>2. shares[h[1]][h[2]] \in Nat /\ PriceOf[h[2]] \in Nat
    BY <2>1, ReportConstants DEF ReportsInv, PortfolioOK
  <2>3. shares[h[1]][h[2]] * PriceOf[h[2]] \in Int
    BY <2>2
  <2> QED
    BY <2>3 DEF Worth
<1>5. ASSUME NEW H \in SUBSET Reports!Holdings
      PROVE  IsFiniteSet(H) /\ Reports!MarketValue(H) = SumFunctionOnSet(Worth, H)
  <2> DEFINE f == [h \in H |-> shares[h[1]][h[2]] * PriceOf[h[2]]]
  <2>1. IsFiniteSet(H)
    BY <1>3, FS_Subset
  <2>2. \A h \in H : f[h] = Worth[h]
    BY DEF Worth
  <2>3. Reports!MarketValue(H) = Reports!SumFunction(f) /\ DOMAIN f = H
    BY DEF Reports!MarketValue
  <2> HIDE DEF f
  <2>4. SumFunctionOnSet(f, H) = SumFunctionOnSet(Worth, H)
    BY <2>1, <2>2, SumSame
  <2> QED
    BY <2>1, <2>3, <2>4, ReportsSum
<1> QED
  BY <1>1, <1>3, <1>4, <1>5

\* The sectors and the portfolios add up to the assets under management.
LEMMA ValuesAddUp ==
  ASSUME ReportsInv
  PROVE  Reports!ValuesAgree
<1> DEFINE H == Reports!Holdings
           all == SumFunctionOnSet(Worth, H)
<1>1. IsFiniteSet(H) /\ (\A h \in H : Worth[h] \in Int) /\ H \subseteq Members \X Held
  BY WorthFacts
<1>2. Reports!Aum.positionValues = all
  BY WorthFacts DEF Reports!Aum
<1>3. Reports!SumFunction(Reports!SectorAllocation) = all
  <2> DEFINE key == [h \in H |-> SectorOf[h[2]]]
             K == {SectorOf[h[2]] : h \in H}
             r == Reports!SectorAllocation
  <2>1. K = {key[h] : h \in H} /\ \A h \in H : key[h] \in K
    OBVIOUS
  <2>2. IsFiniteSet(K)
    <3> HIDE DEF key, K, H
    <3> QED
      BY <1>1, <2>1, KeysFinite
  <2>3. DOMAIN r = K
    BY DEF Reports!SectorAllocation
  <2>4. ASSUME NEW k \in K
        PROVE  r[k] = SumFunctionOnSet(Worth, {h \in H : key[h] = k})
    <3>1. {h \in H : SectorOf[h[2]] = k} = {h \in H : key[h] = k}
      OBVIOUS
    <3>2. r[k] = Reports!MarketValue({h \in H : SectorOf[h[2]] = k})
      BY DEF Reports!SectorAllocation
    <3> QED
      BY <3>1, <3>2, WorthFacts
  <2> HIDE DEF key, K, H, r
  <2> QED
    BY <1>1, <2>1, <2>2, <2>3, <2>4, GroupsAddUp DEF r
<1>4. ASSUME NEW form \in [Held -> Reports!Forms]
      PROVE  Reports!SumFunction([m \in Members |-> Reports!TotalCurrentValue(m, form)]) = all
  <2> DEFINE key == [h \in H |-> h[1]]
             r == [m \in Members |-> Reports!TotalCurrentValue(m, form)]
  <2>1. ASSUME NEW m \in Members
        PROVE  r[m] = SumFunctionOnSet(Worth, {h \in H : key[h] = m})
    <3> DEFINE Hm == {h \in H : key[h] = m}
               Sm == {s \in Held : shares[m][s] > 0}
               v == [s \in Sm |-> shares[m][s] * Reports!ToFloat(form[s], PriceOf[s])]
               second == [h \in Hm |-> h[2]]
    <3>1. r[m] = Reports!SumFunction(v) /\ DOMAIN v = Sm
      BY DEF Reports!TotalCurrentValue
    <3>2. IsFiniteSet(Hm) /\ IsFiniteSet(Sm) /\ \A h \in Hm : Worth[h] \in Int
      BY <1>1, ReportConstants, FS_Subset
    <3>3. \A h \in Hm : second[h] \in Sm
      BY <1>1 DEF Reports!Holdings
    <3>4. ASSUME NEW s \in Sm
          PROVE  v[s] = SumFunctionOnSet(Worth, {h \in Hm : second[h] = s})
      <4>1. <<m, s>> \in Hm /\ {h \in Hm : second[h] = s} = {<<m, s>>}
        BY <1>1 DEF Reports!Holdings
      <4>2. Reports!ToFloat(form[s], PriceOf[s]) = PriceOf[s]
        BY DEF Reports!ToFloat
      <4>3. v[s] = Worth[<<m, s>>]
        BY <4>1, <4>2 DEF Worth
      <4>4. Worth[<<m, s>>] \in Int
        BY <3>2, <4>1
      <4> HIDE DEF v, Hm, second
      <4> QED
        BY <4>1, <4>3, <4>4, SumSingle
    <3> HIDE DEF v, Hm, second, Sm, r
    <3>5. Reports!SumFunction(v) = SumFunctionOnSet(Worth, Hm)
      BY <3>1, <3>2, <3>3, <3>4, GroupsAddUp
    <3> QED
      BY <3>1, <3>5 DEF Hm
  <2>2. DOMAIN r = Members /\ \A h \in H : key[h] \in Members
    BY <1>1
  <2> HIDE DEF key, r, H
  <2>3. IsFiniteSet(Members)
    BY ReportConstants
  <2>4. Reports!SumFunction(r) = SumFunctionOnSet(Worth, H)
    BY <1>1, <2>1, <2>2, <2>3, GroupsAddUp
  <2> QED
    BY <2>4 DEF r
<1> QED
  BY <1>2, <1>3, <1>4 DEF Reports!ValuesAgree

\* What was bought and not sold is held, but for the lots of trades that go on or
\* broke off.
LEMMA SharesExplained ==
  ASSUME ReportsInv
  PROVE  Reports!OrdersExplainShares
<1>1. ASSUME NEW m \in Members, NEW s \in Held, NEW side
      PROVE  Reports!SharesTraded(Reports!Side(Reports!ExecutedOrders(s, None, None), m, side))
               = Volume(orders, m, s, side)
  <2> DEFINE is == Reports!Side(Reports!ExecutedOrders(s, None, None), m, side)
             f == [i \in is |-> orders[i].lot]
             g == [i \in DOMAIN orders |-> orders[i].lot]
  <2>1. is = Matched(orders, m, s, side)
    BY ReportConstants DEF Reports!Side, Reports!ExecutedOrders, Matched
  <2>2. IsFiniteSet(is)
    BY <2>1, VolumeFacts DEF ReportsInv, TradesOK
  <2>3. \A i \in is : f[i] = g[i]
    BY <2>1 DEF Matched
  <2>4. Reports!SharesTraded(is) = Reports!SumFunction(f) /\ DOMAIN f = is
    BY DEF Reports!SharesTraded
  <2>5. Volume(orders, m, s, side) = SumFunctionOnSet(g, is)
    BY <2>1 DEF Volume
  <2> HIDE DEF f, g, is
  <2>6. SumFunctionOnSet(f, is) = SumFunctionOnSet(g, is)
    BY <2>2, <2>3, SumSame
  <2>7. Reports!SharesTraded(is) = Volume(orders, m, s, side)
    BY <2>4, <2>5, <2>6, ReportsSum
  <2> QED
    BY <2>7 DEF is
<1>2. ASSUME NEW m \in Members, NEW s \in Held
      PROVE  Reports!SharesTraded(Reports!Side(Reports!ExecutedOrders(s, None, None), m, "buy"))
               + Reports!Added(trade[m], s) + adrift[m][s]
                 = Reports!SharesTraded(Reports!Side(Reports!ExecutedOrders(s, None, None), m, "sell"))
                   + shares[m][s] + Reports!Taken(trade[m], s)
  <2>1. Volume(orders, m, s, "buy") + Reports!Added(trade[m], s) + adrift[m][s]
          = Volume(orders, m, s, "sell") + shares[m][s] + Reports!Taken(trade[m], s)
    BY DEF ReportsInv, BooksOK
  <2> QED
    BY <1>1, <2>1
<1> QED
  BY <1>2 DEF Reports!OrdersExplainShares

\* The executed orders, as the reports on volumes read them.
Executed == Reports!ExecutedOrders(None, None, None)
LotOf == [i \in DOMAIN orders |-> orders[i].lot]
TotalOf == [i \in DOMAIN orders |-> orders[i].total]

\* The shares and the value of any executed orders are sums over them.
LEMMA ExecutedFacts ==
  ASSUME ReportsInv
  PROVE  /\ IsFiniteSet(Executed)
         /\ \A i \in Executed : /\ orders[i].at \in Nat /\ orders[i].stock \in Held
                                /\ LotOf[i] \in Int /\ TotalOf[i] \in Int
         /\ \A is \in SUBSET Executed :
              /\ IsFiniteSet(is)
              /\ Reports!SharesTraded(is) = SumFunctionOnSet(LotOf, is)
              /\ Reports!TotalValue(is) = SumFunctionOnSet(TotalOf, is)
<1>1. orders \in Seq(OrderDocument)
  BY DEF ReportsInv, TradesOK
<1>2. /\ DOMAIN orders = 1 .. Len(orders) /\ Len(orders) \in Nat
      /\ \A i \in DOMAIN orders : orders[i] \in OrderDocument
  BY <1>1
<1>3. Executed \in SUBSET (DOMAIN orders)
  BY DEF Executed, Reports!ExecutedOrders
<1>4. IsFiniteSet(Executed)
  <2>1. IsFiniteSet(DOMAIN orders)
    BY <1>2, FS_Interval
  <2> QED
    BY <1>3, <2>1, FS_Subset
<1>5. ASSUME NEW i \in Executed
      PROVE  /\ orders[i].at \in Nat /\ orders[i].stock \in Held
             /\ LotOf[i] \in Int /\ TotalOf[i] \in Int
  <2>1. orders[i].status = "executed" /\ i \in DOMAIN orders
    BY DEF Executed, Reports!ExecutedOrders
  <2>2. orders[i].at # None /\ orders[i] \in OrderDocument
    BY <1>2, <2>1 DEF ReportsInv, TradesOK
  <2> QED
    BY <2>1, <2>2 DEF OrderDocument, LotOf, TotalOf
<1>6. ASSUME NEW is \in SUBSET Executed
      PROVE  /\ IsFiniteSet(is)
             /\ Reports!SharesTraded(is) = SumFunctionOnSet(LotOf, is)
             /\ Reports!TotalValue(is) = SumFunctionOnSet(TotalOf, is)
  <2> DEFINE f == [i \in is |-> orders[i].lot]
             g == [i \in is |-> orders[i].total]
  <2>1. IsFiniteSet(is)
    BY <1>4, FS_Subset
  <2>2. (\A i \in is : f[i] = LotOf[i]) /\ \A i \in is : g[i] = TotalOf[i]
    BY <1>3 DEF LotOf, TotalOf
  <2>3. /\ Reports!SharesTraded(is) = Reports!SumFunction(f) /\ DOMAIN f = is
        /\ Reports!TotalValue(is) = Reports!SumFunction(g) /\ DOMAIN g = is
    BY DEF Reports!SharesTraded, Reports!TotalValue
  <2> HIDE DEF f, g
  <2>4. /\ SumFunctionOnSet(f, is) = SumFunctionOnSet(LotOf, is)
        /\ SumFunctionOnSet(g, is) = SumFunctionOnSet(TotalOf, is)
    BY <2>1, <2>2, SumSame
  <2> QED
    BY <2>1, <2>3, <2>4, ReportsSum
<1> QED
  BY <1>4, <1>5, <1>6

\* The data points of a period are those of its trades.
LEMMA PeriodFacts ==
  ASSUME ReportsInv, NEW granularity
  PROVE  LET vol == Reports!TradingVolume(Executed, granularity)
         IN  /\ DOMAIN vol = {Reports!Period(granularity, orders[i].at) : i \in Executed}
             /\ IsFiniteSet(DOMAIN vol)
             /\ \A g \in DOMAIN vol :
                  LET group == {i \in Executed : Reports!Period(granularity, orders[i].at) = g}
                  IN  /\ vol[g].sharesTraded = SumFunctionOnSet(LotOf, group)
                      /\ vol[g].totalValue = SumFunctionOnSet(TotalOf, group)
<1> DEFINE vol == Reports!TradingVolume(Executed, granularity)
           K == {Reports!Period(granularity, orders[i].at) : i \in Executed}
           key == [i \in Executed |-> Reports!Period(granularity, orders[i].at)]
           group(g) == {i \in Executed : Reports!Period(granularity, orders[i].at) = g}
<1>1. DOMAIN vol = K
  BY DEF Reports!TradingVolume
<1>2. IsFiniteSet(K)
  <2>1. K = {key[i] : i \in Executed}
    OBVIOUS
  <2> HIDE DEF K, key
  <2> QED
    BY <2>1, ExecutedFacts, KeysFinite
<1>3. ASSUME NEW g \in K
      PROVE  /\ vol[g].sharesTraded = SumFunctionOnSet(LotOf, group(g))
             /\ vol[g].totalValue = SumFunctionOnSet(TotalOf, group(g))
  <2>1. /\ vol[g].sharesTraded = Reports!SharesTraded(group(g))
        /\ vol[g].totalValue = Reports!TotalValue(group(g))
    BY DEF Reports!TradingVolume
  <2>2. group(g) \in SUBSET Executed
    OBVIOUS
  <2> HIDE DEF vol, group
  <2> QED
    BY <2>1, <2>2, ExecutedFacts
<1> HIDE DEF vol, K, group
<1>4. /\ DOMAIN vol = K /\ IsFiniteSet(DOMAIN vol)
      /\ \A g \in DOMAIN vol : /\ vol[g].sharesTraded = SumFunctionOnSet(LotOf, group(g))
                               /\ vol[g].totalValue = SumFunctionOnSet(TotalOf, group(g))
  BY <1>1, <1>2, <1>3
<1> QED
  BY <1>4 DEF vol, K, group

\* Days add up to months, stocks to the whole, and two ranges to both.
LEMMA VolumesAddUp ==
  ASSUME ReportsInv
  PROVE  Reports!VolumesAgree
<1> DEFINE daily == Reports!TradingVolume(Executed, "day")
           monthly == Reports!TradingVolume(Executed, "month")
           At(i) == Reports!Day(orders[i].at)
<1>0. /\ IsFiniteSet(Executed)
      /\ \A i \in Executed : LotOf[i] \in Int /\ TotalOf[i] \in Int /\ orders[i].at \in Nat
  BY ExecutedFacts
<1>1. /\ DOMAIN daily = {At(i) : i \in Executed} /\ IsFiniteSet(DOMAIN daily)
      /\ \A d \in DOMAIN daily : daily[d].totalValue
           = SumFunctionOnSet(TotalOf, {i \in Executed : At(i) = d})
  <2>1. \A t : Reports!Period("day", t) = Reports!Day(t)
    BY DEF Reports!Period
  <2> HIDE DEF daily
  <2> QED
    BY <2>1, PeriodFacts DEF daily
<1>2. /\ DOMAIN monthly = {At(i) \div MonthLength : i \in Executed} /\ IsFiniteSet(DOMAIN monthly)
      /\ \A n \in DOMAIN monthly :
           LET group == {i \in Executed : At(i) \div MonthLength = n}
           IN  /\ monthly[n].sharesTraded = SumFunctionOnSet(LotOf, group)
               /\ monthly[n].totalValue = SumFunctionOnSet(TotalOf, group)
  <2> DEFINE P(i) == Reports!Period("month", orders[i].at)
             named(n) == {i \in Executed : P(i) = n}
             group(n) == {i \in Executed : At(i) \div MonthLength = n}
  <2>1. \A i : P(i) = At(i) \div MonthLength
    BY DEF Reports!Period, Reports!Month
  <2>2. /\ DOMAIN monthly = {P(i) : i \in Executed} /\ IsFiniteSet(DOMAIN monthly)
        /\ \A n \in DOMAIN monthly :
             /\ monthly[n].sharesTraded = SumFunctionOnSet(LotOf, named(n))
             /\ monthly[n].totalValue = SumFunctionOnSet(TotalOf, named(n))
    BY PeriodFacts
  <2>3. \A n : named(n) = group(n)
    BY <2>1
  <2>4. {P(i) : i \in Executed} = {At(i) \div MonthLength : i \in Executed}
    BY <2>1
  <2> HIDE DEF monthly, P, named, group
  <2>5. /\ DOMAIN monthly = {At(i) \div MonthLength : i \in Executed}
        /\ IsFiniteSet(DOMAIN monthly)
        /\ \A n \in DOMAIN monthly :
             /\ monthly[n].sharesTraded = SumFunctionOnSet(LotOf, group(n))
             /\ monthly[n].totalValue = SumFunctionOnSet(TotalOf, group(n))
    BY <2>2, <2>3, <2>4
  <2> QED
    BY <2>5 DEF group
<1> HIDE DEF daily, monthly
<1>3. ASSUME NEW n \in DOMAIN monthly
      PROVE  monthly[n].totalValue
               = Reports!SumFunction([d \in {d \in DOMAIN daily : d \div MonthLength = n} |->
                                        daily[d].totalValue])
  <2> DEFINE G == {i \in Executed : At(i) \div MonthLength = n}
             D == {d \in DOMAIN daily : d \div MonthLength = n}
             key == [i \in G |-> At(i)]
             r == [d \in D |-> daily[d].totalValue]
  <2>1. IsFiniteSet(G) /\ IsFiniteSet(D) /\ \A i \in G : TotalOf[i] \in Int
    BY <1>0, <1>1, FS_Subset
  <2>2. \A i \in G : key[i] \in D
    BY <1>1
  <2>3. \A d \in D : r[d] = SumFunctionOnSet(TotalOf, {i \in G : key[i] = d})
    <3> SUFFICES ASSUME NEW d \in D
                 PROVE  r[d] = SumFunctionOnSet(TotalOf, {i \in G : key[i] = d})
      OBVIOUS
    <3>1. {i \in G : key[i] = d} = {i \in Executed : At(i) = d}
      OBVIOUS
    <3>2. r[d] = SumFunctionOnSet(TotalOf, {i \in Executed : At(i) = d})
      BY <1>1
    <3> QED
      BY <3>1, <3>2
  <2>4. DOMAIN r = D
    OBVIOUS
  <2>5. monthly[n].totalValue = SumFunctionOnSet(TotalOf, G)
    BY <1>2
  <2> HIDE DEF r, key, D, G
  <2>6. Reports!SumFunction(r) = SumFunctionOnSet(TotalOf, G)
    BY <2>1, <2>2, <2>3, <2>4, GroupsAddUp
  <2> QED
    BY <2>5, <2>6 DEF r, D
<1>4. ASSUME NEW t \in 0 .. MaxTime
      PROVE  Reports!TotalValue(Reports!ExecutedOrders(None, None, t))
               + Reports!TotalValue(Reports!ExecutedOrders(None, t, None))
                 = Reports!TotalValue(Executed) + Reports!TotalValue(Reports!ExecutedOrders(None, t, t))
  <2> DEFINE B == {i \in Executed : orders[i].at < t}
             E == {i \in Executed : orders[i].at = t}
             S == {i \in Executed : orders[i].at <= t}
             T == {i \in Executed : orders[i].at >= t}
  <2>1. t \in Nat /\ t # None
    BY ReportConstants
  <2>2. /\ Reports!ExecutedOrders(None, None, t) = S /\ Reports!ExecutedOrders(None, t, None) = T
        /\ Reports!ExecutedOrders(None, t, t) = E
    BY <1>0, <2>1 DEF Reports!ExecutedOrders, Executed
  <2>3. /\ B \cup E = S /\ B \cap E = {} /\ B \cup T = Executed /\ B \cap T = {}
        /\ S \in SUBSET Executed /\ T \in SUBSET Executed /\ E \in SUBSET Executed
        /\ B \in SUBSET Executed
    BY <1>0, <2>1
  <2> HIDE DEF B, E, S, T
  <2>4. IsFiniteSet(B) /\ IsFiniteSet(E) /\ IsFiniteSet(T)
        /\ \A i \in Executed : TotalOf[i] \in Int
    BY <1>0, <2>3, FS_Subset
  <2>5. SumFunctionOnSet(TotalOf, S) = SumFunctionOnSet(TotalOf, B) + SumFunctionOnSet(TotalOf, E)
    BY <2>3, <2>4, SumUnion
  <2>6. SumFunctionOnSet(TotalOf, Executed)
          = SumFunctionOnSet(TotalOf, B) + SumFunctionOnSet(TotalOf, T)
    BY <2>3, <2>4, SumUnion
  <2>7. /\ SumFunctionOnSet(TotalOf, B) \in Int /\ SumFunctionOnSet(TotalOf, E) \in Int
        /\ SumFunctionOnSet(TotalOf, T) \in Int
    BY <2>3, <2>4, SumType
  <2>8. /\ Reports!TotalValue(S) = SumFunctionOnSet(TotalOf, S)
        /\ Reports!TotalValue(T) = SumFunctionOnSet(TotalOf, T)
        /\ Reports!TotalValue(E) = SumFunctionOnSet(TotalOf, E)
        /\ Reports!TotalValue(Executed) = SumFunctionOnSet(TotalOf, Executed)
    BY <2>3, ExecutedFacts
  <2> QED
    BY <2>2, <2>5, <2>6, <2>7, <2>8
<1>5. Reports!SumFunction([n \in DOMAIN monthly |-> monthly[n].sharesTraded])
        = SumFunctionOnSet(LotOf, Executed)
  <2> DEFINE K == DOMAIN monthly
             key == [i \in Executed |-> At(i) \div MonthLength]
             r == [n \in K |-> monthly[n].sharesTraded]
  <2>1. \A i \in Executed : key[i] \in K
    BY <1>2
  <2>2. \A n \in K : r[n] = SumFunctionOnSet(LotOf, {i \in Executed : key[i] = n})
    <3> SUFFICES ASSUME NEW n \in K
                 PROVE  r[n] = SumFunctionOnSet(LotOf, {i \in Executed : key[i] = n})
      OBVIOUS
    <3>1. {i \in Executed : key[i] = n} = {i \in Executed : At(i) \div MonthLength = n}
      OBVIOUS
    <3>2. r[n] = SumFunctionOnSet(LotOf, {i \in Executed : At(i) \div MonthLength = n})
      BY <1>2
    <3> QED
      BY <3>1, <3>2
  <2>3. DOMAIN r = K /\ IsFiniteSet(K)
    BY <1>2
  <2> HIDE DEF r, key, K
  <2>4. Reports!SumFunction(r) = SumFunctionOnSet(LotOf, Executed)
    BY <1>0, <2>1, <2>2, <2>3, GroupsAddUp
  <2> QED
    BY <2>4 DEF r, K
<1>6. Reports!SumFunction([s \in DOMAIN Reports!TopStocks |-> Reports!TopStocks[s].totalVolume])
        = SumFunctionOnSet(LotOf, Executed)
  <2> DEFINE K == DOMAIN Reports!TopStocks
             key == [i \in Executed |-> orders[i].stock]
             r == [s \in K |-> Reports!TopStocks[s].totalVolume]
  <2>1. K = {orders[i].stock : i \in Executed}
    BY DEF Reports!TopStocks, Executed
  <2>2. K = {key[i] : i \in Executed} /\ \A i \in Executed : key[i] \in K
    BY <2>1
  <2>3. IsFiniteSet(K)
    <3> HIDE DEF K, key
    <3> QED
      BY <1>0, <2>2, KeysFinite
  <2>4. ASSUME NEW s \in K
        PROVE  r[s] = SumFunctionOnSet(LotOf, {i \in Executed : key[i] = s})
    <3>1. s # None
      BY <2>1, ExecutedFacts, ReportConstants
    <3>2. Reports!ExecutedOrders(s, None, None) = {i \in Executed : key[i] = s}
      BY <3>1 DEF Reports!ExecutedOrders, Executed
    <3>3. r[s] = Reports!SharesTraded(Reports!ExecutedOrders(s, None, None))
      BY <2>1 DEF Reports!TopStocks, Executed
    <3>4. {i \in Executed : key[i] = s} \in SUBSET Executed
      OBVIOUS
    <3> HIDE DEF r, key
    <3> QED
      BY <3>2, <3>3, <3>4, ExecutedFacts
  <2>5. DOMAIN r = K
    OBVIOUS
  <2> HIDE DEF r, key, K
  <2>6. Reports!SumFunction(r) = SumFunctionOnSet(LotOf, Executed)
    BY <1>0, <2>2, <2>3, <2>4, <2>5, GroupsAddUp
  <2> QED
    BY <2>6 DEF r, K
<1> QED
  BY <1>3, <1>4, <1>5, <1>6 DEF Reports!VolumesAgree, Executed, daily, monthly

\* Reports at one moment contradict each other only by the half-done trades.
LEMMA ReportsDoAgree == ReportsInv => Reports!ReportsAgree
BY ValuesAddUp, SharesExplained, VolumesAddUp DEF Reports!ReportsAgree

-----------------------------------------------------------------------------
(* The growth of the membership: the inductive invariant.                  *)

\* Members are dated before they are stored and never again, and a query finds
\* all who were stored when the report was asked for.
GrowthInv ==
  /\ month \in 0 .. MaxMonth
  /\ joined \in [Members -> Nat \cup {None}]
  /\ stored \subseteq Members /\ before \subseteq stored
  /\ \A m \in stored : joined[m] # None
  /\ asked \in Nat \cup {None} /\ pending \subseteq Growth!Queries
  /\ answers \in [Growth!Queries -> SUBSET Members]
  /\ \A q \in Growth!Queries : answers[q] \subseteq stored
  /\ asked # None => \A q \in Growth!Queries \ pending : before \subseteq answers[q]

\* What the constants of the report are, as the proofs use it.
LEMMA GrowthConstants ==
  /\ IsFiniteSet(Members) /\ MonthsShown \in Nat \ {0} /\ MaxMonth \in Nat /\ None \notin Nat
BY MarketAssumption DEF Growth!GrowthAssumption, Growth!IsFiniteSet, IsFiniteSet

\* It holds of the empty collection.
LEMMA GrowthInit == Growth!Init => GrowthInv
BY GrowthConstants DEF Growth!Init, Growth!NoAnswers, GrowthInv

\* It is inductive.
LEMMA GrowthStep ==
  ASSUME GrowthInv, [Growth!Next]_members
  PROVE  GrowthInv'
<1> USE DEF GrowthInv
<1>1. CASE Growth!NextMonth
  BY <1>1, GrowthConstants DEF Growth!NextMonth
<1>2. CASE Growth!Ask
  BY <1>2, GrowthConstants DEF Growth!Ask, Growth!NoAnswers
<1>3. CASE Growth!Fail
  BY <1>3 DEF Growth!Fail, Growth!NoAnswers
<1>4. ASSUME NEW m \in Members, Growth!Register(m)
      PROVE  GrowthInv'
  BY <1>4, GrowthConstants DEF Growth!Register
<1>5. ASSUME NEW m \in Members, Growth!Insert(m)
      PROVE  GrowthInv'
  BY <1>5 DEF Growth!Insert
<1>6. ASSUME NEW q \in Growth!Queries, Growth!Answer(q)
      PROVE  GrowthInv'
  <2>1. /\ answers' = [answers EXCEPT ![q] = stored] /\ pending' = pending \ {q}
        /\ UNCHANGED <<month, joined, stored, asked, before>>
    BY <1>6 DEF Growth!Answer
  <2>2. /\ answers'[q] = stored
        /\ \A p \in Growth!Queries : p # q => answers'[p] = answers[p]
        /\ answers' \in [Growth!Queries -> SUBSET Members]
    BY <2>1
  <2> QED
    BY <2>1, <2>2
<1>7. CASE UNCHANGED members
  BY <1>7 DEF members
<1> QED
  BY <1>1, <1>2, <1>3, <1>4, <1>5, <1>6, <1>7 DEF Growth!Next

\* It gives the types of MemberGrowth.
LEMMA GrowthTyped == GrowthInv => Growth!TypeOK
BY DEF GrowthInv, Growth!TypeOK

-----------------------------------------------------------------------------
(* The numbers of a growth report agree.                                   *)

\* The sums of MemberGrowth are those of the library.
LEMMA GrowthSum == \A f : Growth!SumFunction(f) = SumFunctionOnSet(f, DOMAIN f)
BY DEF Growth!SumFunction, Growth!SumFunctionOnSet, Growth!FoldFunctionOnSet,
     Growth!MapThenFoldSet, SumFunctionOnSet, FoldFunctionOnSet, MapThenFoldSet

\* The cardinality of the instance is that of the standard module.
LEMMA GrowthCardinality == \A S : Growth!Cardinality(S) = Cardinality(S)
BY DEF Growth!Cardinality, Cardinality

\* Counts over groups add up to the count of all.
LEMMA CountsAddUp ==
  ASSUME NEW S, IsFiniteSet(S), NEW K, IsFiniteSet(K),
         NEW key, \A x \in S : key[x] \in K,
         NEW r, DOMAIN r = K,
         \A k \in K : r[k] = Cardinality({x \in S : key[x] = k})
  PROVE  Growth!SumFunction(r) = Cardinality(S)
<1> DEFINE ones == [x \in S |-> 1]
           group(k) == {x \in S : key[x] = k}
<1>1. \A x \in S : ones[x] = 1 /\ ones[x] \in Int
  OBVIOUS
<1> HIDE DEF ones
<1>2. ASSUME NEW k \in K
      PROVE  r[k] = SumFunctionOnSet(ones, group(k))
  <2>1. group(k) \in SUBSET S
    OBVIOUS
  <2>2. r[k] = Cardinality(group(k))
    OBVIOUS
  <2> HIDE DEF group
  <2>3. IsFiniteSet(group(k)) /\ \A x \in group(k) : ones[x] = 1
    BY <1>1, <2>1, FS_Subset
  <2> QED
    BY <2>2, <2>3, SumZerosOnes
<1>3. Reports!SumFunction(r) = SumFunctionOnSet(ones, S)
  BY <1>1, <1>2, GroupsAddUp
<1>4. SumFunctionOnSet(ones, S) = Cardinality(S)
  BY <1>1, SumZerosOnes
<1>5. Growth!SumFunction(r) = Reports!SumFunction(r)
  BY ReportsSum, GrowthSum
<1> QED
  BY <1>3, <1>4, <1>5

\* What adds at most N to B has at most as many more members.
LEMMA CountCovered ==
  ASSUME NEW B, IsFiniteSet(B), NEW N, IsFiniteSet(N), NEW A \in SUBSET (B \cup N)
  PROVE  /\ IsFiniteSet(A)
         /\ Cardinality(A) \in Nat /\ Cardinality(B) \in Nat /\ Cardinality(N) \in Nat
         /\ Cardinality(A) <= Cardinality(B) + Cardinality(N)
<1>1. IsFiniteSet(B \cup N) /\ IsFiniteSet(B \cap N)
      /\ Cardinality(B \cup N) = Cardinality(B) + Cardinality(N) - Cardinality(B \cap N)
  BY FS_Union, FS_Subset
<1>2. IsFiniteSet(A) /\ Cardinality(A) <= Cardinality(B \cup N)
  BY <1>1, FS_Subset
<1>3. /\ Cardinality(A) \in Nat /\ Cardinality(B) \in Nat /\ Cardinality(N) \in Nat
      /\ Cardinality(B \cap N) \in Nat /\ Cardinality(B \cup N) \in Nat
  BY <1>1, <1>2, FS_CardinalityType
<1> QED
  BY <1>1, <1>2, <1>3

\* Two sets without a common member have as many members as both.
LEMMA CountBoth ==
  ASSUME NEW A, IsFiniteSet(A), NEW B, IsFiniteSet(B), A \cap B = {}
  PROVE  IsFiniteSet(A \cup B) /\ Cardinality(A \cup B) = Cardinality(A) + Cardinality(B)
<1>1. Cardinality(A \cap B) = 0
  BY FS_EmptySet
<1>2. /\ IsFiniteSet(A \cup B)
      /\ Cardinality(A \cup B) = Cardinality(A) + Cardinality(B) - Cardinality(A \cap B)
  BY FS_Union
<1>3. Cardinality(A) \in Nat /\ Cardinality(B) \in Nat
  BY FS_CardinalityType
<1> QED
  BY <1>1, <1>2, <1>3

\* What the queries of a complete report found: all who were stored when it was
\* asked for, and latecomers.
LEMMA AnswersCovered ==
  ASSUME GrowthInv, asked # None, pending = {}
  PROVE  /\ asked \in Nat /\ Growth!First \in Int /\ Growth!First <= asked
         /\ MonthsShown > 1 => Growth!First <= asked - 1
         /\ IsFiniteSet(before) /\ IsFiniteSet(Growth!Latecomers)
         /\ \A q \in Growth!Queries :
              /\ IsFiniteSet(answers[q]) /\ before \subseteq answers[q]
              /\ answers[q] \subseteq before \cup Growth!Latecomers
              /\ \A m \in answers[q] : joined[m] \in Nat
         /\ \A m \in before : joined[m] \in Nat
<1>1. asked \in Nat /\ MonthsShown \in Nat \ {0} /\ Growth!First = asked - MonthsShown + 1
  BY GrowthConstants DEF GrowthInv, Growth!First
<1>2. \A m \in stored : joined[m] \in Nat
  BY DEF GrowthInv
<1>3. \A q \in Growth!Queries : before \subseteq answers[q] /\ answers[q] \subseteq stored
  BY DEF GrowthInv
<1>4. ASSUME NEW q \in Growth!Queries
      PROVE  answers[q] \subseteq before \cup Growth!Latecomers
  <2>1. answers[q] \in {answers[p] : p \in Growth!Queries}
    OBVIOUS
  <2>2. answers[q] \subseteq UNION {answers[p] : p \in Growth!Queries}
    BY <2>1, Zenon
  <2> QED
    BY <2>2 DEF Growth!Latecomers
<1>5. before \in SUBSET Members /\ Growth!Latecomers \in SUBSET Members
      /\ \A q \in Growth!Queries : answers[q] \in SUBSET Members
  BY DEF GrowthInv, Growth!Latecomers
<1>6. IsFiniteSet(before) /\ IsFiniteSet(Growth!Latecomers)
      /\ \A q \in Growth!Queries : IsFiniteSet(answers[q])
  BY <1>5, GrowthConstants, FS_Subset
<1>7. before \subseteq stored
  BY DEF GrowthInv
<1> QED
  BY <1>1, <1>2, <1>3, <1>4, <1>6, <1>7

\* Sums over the breakdown count the members it found.
LEMMA BreakdownCounts ==
  ASSUME GrowthInv, asked # None, pending = {}, NEW from \in Int, Growth!First <= from
  PROVE  LET shown == Growth!MonthlyBreakdown
         IN  Growth!SumFunction([n \in {n \in DOMAIN shown : n >= from} |-> shown[n]])
               = Cardinality({m \in answers["monthlyBreakdown"] : joined[m] >= from})
<1> DEFINE answered == answers["monthlyBreakdown"]
           recent == {m \in answered : joined[m] >= Growth!First}
           shown == Growth!MonthlyBreakdown
           K == {n \in DOMAIN shown : n >= from}
           S == {m \in answered : joined[m] >= from}
           r == [n \in K |-> shown[n]]
<1>1. /\ IsFiniteSet(answered) /\ \A m \in answered : joined[m] \in Nat
      /\ Growth!First \in Int
  BY AnswersCovered DEF Growth!Queries
<1>2. /\ DOMAIN shown = {joined[m] : m \in recent}
      /\ \A n \in DOMAIN shown : shown[n] = Cardinality({m \in recent : joined[m] = n})
  BY GrowthCardinality DEF Growth!MonthlyBreakdown, Growth!Since
<1> HIDE DEF shown, answered
<1>3. recent \in SUBSET answered /\ S \in SUBSET answered
  OBVIOUS
<1>4. IsFiniteSet(recent) /\ IsFiniteSet(S)
  BY <1>1, <1>3, FS_Subset
<1>5. IsFiniteSet(K)
  <2>1. IsFiniteSet(DOMAIN shown)
    <3> HIDE DEF recent
    <3> QED
      BY <1>2, <1>4, KeysFinite
  <2>2. K \in SUBSET (DOMAIN shown)
    OBVIOUS
  <2> QED
    BY <2>1, <2>2, FS_Subset
<1>6. \A m \in S : joined[m] \in K
  BY <1>1, <1>2
<1>7. ASSUME NEW n \in K
      PROVE  r[n] = Cardinality({m \in S : joined[m] = n})
  <2>1. {m \in S : joined[m] = n} = {m \in recent : joined[m] = n}
    BY <1>1
  <2> QED
    BY <1>2, <2>1
<1>8. DOMAIN r = K
  OBVIOUS
<1> HIDE DEF r, K, S, recent
<1>9. Growth!SumFunction(r) = Cardinality(S)
  BY <1>4, <1>5, <1>6, <1>7, <1>8, CountsAddUp
<1> QED
  BY <1>9 DEF r, K, S, shown, answered

\* The numbers agree but for the latecomers.
LEMMA GrowthDoesAgree == GrowthInv => Growth!GrowthAgrees
<1> SUFFICES ASSUME GrowthInv, asked # None, pending = {}
             PROVE  Growth!GrowthAgrees
  BY DEF Growth!GrowthAgrees
<1> DEFINE L == Growth!Latecomers
           first == Growth!First
           shown == Growth!MonthlyBreakdown
           A(q) == answers[q]
           all == A("totalMembers")
           fresh == A("thisMonth")
           last == A("lastMonth")
           dated == A("monthlyBreakdown")
           T == {m \in fresh : joined[m] >= asked}
           F == {m \in dated : joined[m] >= asked}
           LT == {m \in L : joined[m] >= asked}
           P == {m \in last : joined[m] = asked - 1}
           Q == {m \in dated : joined[m] = asked - 1}
           LP == {m \in L : joined[m] = asked - 1}
           R == {m \in dated : joined[m] >= first}
           O == {m \in before : joined[m] < first}
           fromNow == {n \in DOMAIN shown : n >= asked}
           previous == IF asked - 1 \in DOMAIN shown THEN shown[asked - 1] ELSE 0
<1>1. /\ asked \in Nat /\ first \in Int /\ first <= asked
      /\ MonthsShown > 1 => first <= asked - 1
      /\ IsFiniteSet(before) /\ IsFiniteSet(L) /\ IsFiniteSet(all)
      /\ IsFiniteSet(fresh) /\ IsFiniteSet(last) /\ IsFiniteSet(dated)
      /\ before \subseteq all /\ before \subseteq fresh /\ before \subseteq last
      /\ before \subseteq dated
      /\ all \subseteq before \cup L /\ fresh \subseteq before \cup L
      /\ last \subseteq before \cup L /\ dated \subseteq before \cup L
      /\ \A m \in all \cup fresh \cup last \cup dated : joined[m] \in Nat
  BY AnswersCovered DEF Growth!Queries
<1>2. /\ Growth!TotalMembers = Cardinality(all) /\ Growth!ThisMonth = Cardinality(T)
      /\ Growth!LastMonth = Cardinality(P)
  BY GrowthCardinality DEF Growth!TotalMembers, Growth!ThisMonth, Growth!LastMonth, Growth!Since
<1>3. /\ DOMAIN shown = {joined[m] : m \in R}
      /\ \A n \in DOMAIN shown : shown[n] = Cardinality({m \in R : joined[m] = n})
  BY GrowthCardinality DEF Growth!MonthlyBreakdown, Growth!Since
<1>4. Growth!SumFunction([n \in fromNow |-> shown[n]]) = Cardinality(F)
  BY <1>1, BreakdownCounts
<1>5. Growth!SumFunction(shown) = Cardinality(R)
  <2>1. \A n \in DOMAIN shown : n >= first
    BY <1>3
  <2>2. {n \in DOMAIN shown : n >= first} = DOMAIN shown
    BY <2>1
  <2>3. [n \in DOMAIN shown |-> shown[n]] = shown
    BY DEF Growth!MonthlyBreakdown
  <2>4. Growth!SumFunction([n \in {n \in DOMAIN shown : n >= first} |-> shown[n]])
          = Cardinality(R)
    BY <1>1, BreakdownCounts
  <2> HIDE DEF shown
  <2> QED
    BY <2>2, <2>3, <2>4
<1> HIDE DEF shown, L, first, A, fromNow
<1>6. MonthsShown > 1 => previous = Cardinality(Q)
  <2>1. CASE asked - 1 \in DOMAIN shown
    <3>1. {m \in R : joined[m] = asked - 1} = {m \in dated : joined[m] = asked - 1
                                                              /\ asked - 1 >= first}
      BY <1>1
    <3> QED
      BY <1>1, <1>3, <2>1, <3>1
  <2>2. CASE asked - 1 \notin DOMAIN shown
    <3>1. MonthsShown > 1 => Q = {}
      BY <1>1, <1>3, <2>2
    <3> QED
      BY <2>2, <3>1, FS_EmptySet
  <2> QED
    BY <2>1, <2>2
<1>7. /\ IsFiniteSet(T) /\ IsFiniteSet(F) /\ IsFiniteSet(LT) /\ IsFiniteSet(P)
      /\ IsFiniteSet(Q) /\ IsFiniteSet(LP) /\ IsFiniteSet(R) /\ IsFiniteSet(O)
  <2>1. /\ T \in SUBSET fresh /\ F \in SUBSET dated /\ LT \in SUBSET L /\ P \in SUBSET last
        /\ Q \in SUBSET dated /\ LP \in SUBSET L /\ R \in SUBSET dated /\ O \in SUBSET before
    OBVIOUS
  <2> HIDE DEF T, F, LT, P, Q, LP, R, O
  <2> QED
    BY <1>1, <2>1, FS_Subset
<1>8. /\ T \in SUBSET (F \cup LT) /\ F \in SUBSET (T \cup LT)
      /\ P \in SUBSET (Q \cup LP) /\ Q \in SUBSET (P \cup LP)
  BY <1>1
<1>9. /\ T \cap P = {} /\ T \cup P \in SUBSET (all \cup L)
      /\ R \cap O = {} /\ R \cup O \in SUBSET (all \cup L)
      /\ all \in SUBSET ((R \cup O) \cup L)
  BY <1>1
<1> HIDE DEF T, F, LT, P, Q, LP, R, O, all, fresh, last, dated, previous
<1>10. Growth!Close(Cardinality(T), Cardinality(F), Cardinality(LT))
  BY <1>7, <1>8, CountCovered DEF Growth!Close
<1>11. Growth!Close(Cardinality(P), Cardinality(Q), Cardinality(LP))
  BY <1>7, <1>8, CountCovered DEF Growth!Close
<1>12. Cardinality(T) + Cardinality(P) <= Cardinality(all) + Cardinality(L)
  <2>1. Cardinality(T \cup P) = Cardinality(T) + Cardinality(P)
    BY <1>7, <1>9, CountBoth
  <2>2. Cardinality(T \cup P) <= Cardinality(all) + Cardinality(L)
    BY <1>1, <1>9, CountCovered
  <2> QED
    BY <2>1, <2>2
<1>13. Growth!Close(Cardinality(R) + Cardinality(O), Cardinality(all), Cardinality(L))
  <2>1. IsFiniteSet(R \cup O) /\ Cardinality(R \cup O) = Cardinality(R) + Cardinality(O)
    BY <1>7, <1>9, CountBoth
  <2>2. Cardinality(R \cup O) <= Cardinality(all) + Cardinality(L)
    BY <1>1, <1>9, CountCovered
  <2>3. Cardinality(all) <= Cardinality(R \cup O) + Cardinality(L)
    BY <1>1, <1>9, <2>1, CountCovered
  <2> QED
    BY <2>1, <2>2, <2>3 DEF Growth!Close
<1>14. /\ Growth!Close(Growth!ThisMonth, Growth!SumFunction([n \in fromNow |-> shown[n]]),
                       Cardinality(LT))
       /\ MonthsShown > 1 => Growth!Close(Growth!LastMonth, previous, Cardinality(LP))
       /\ Growth!ThisMonth + Growth!LastMonth <= Growth!TotalMembers + Cardinality(L)
       /\ Growth!Close(Growth!SumFunction(shown) + Cardinality(O), Growth!TotalMembers,
                       Cardinality(L))
  <2>1. MonthsShown > 1 => Growth!Close(Growth!LastMonth, previous, Cardinality(LP))
    BY <1>2, <1>6, <1>11
  <2> QED
    BY <1>2, <1>4, <1>5, <1>10, <1>12, <1>13, <2>1
<1> QED
  BY <1>14, GrowthCardinality DEF Growth!GrowthAgrees, T, LT, LP, O, previous, fromNow, shown, L, first

-----------------------------------------------------------------------------
(* Listings.                                                               *)

\* The place of document d among the documents L of a listing of kind k.
Ranked(L, k, d) == Cardinality({e \in L : IF k = "oldest" THEN e < d ELSE e > d})

\* Nothing has happened that may hide a document from a walk with skip.
Undisturbed == ~left /\ (kind = "oldest" \/ ~torn)

\* Documents that a walk with skip has shown, or is about to show.
Shown(d) == seen[d] >= 1 \/ d \in items

\* The queries and their answers belong to a page that is still to be shown.
PagesOK ==
  /\ Lists!TypeOK
  /\ old \subseteq 1 .. created /\ items \subseteq 1 .. created
  /\ \A d \in Lists!Docs : seen[d] >= 1 => d <= created
  /\ walk # "on" \/ kind = "cursor" => ~found /\ ~counted
  /\ ~found => items = {}
  /\ walk = "begin" =>
       pageNo = 1 /\ cursor = MaxDocs + 1 /\ \A d \in Lists!Docs : seen[d] = 0

\* The documents from the cursor on, and no others, have been shown once.
CursorOK ==
  kind = "cursor" => \A d \in old \cap listed :
    /\ walk = "on" => seen[d] = IF d >= cursor THEN 1 ELSE 0
    /\ walk = "over" => seen[d] = 1

\* What lies before the page has been shown; once the page is found, what lies
\* before its end has been shown or is about to be; the total is no less than
\* any document's place, so a page that reaches it is the last one needed.
SkipOK ==
  kind # "cursor" /\ Undisturbed => \A d \in old \cap listed :
    /\ walk = "on" /\ Ranked(listed, kind, d) < (pageNo - 1) * Limit => seen[d] >= 1
    /\ found /\ Ranked(listed, kind, d) < pageNo * Limit => Shown(d)
    /\ counted /\ ~found => Ranked(listed, kind, d) < total
    /\ counted /\ found /\ total <= pageNo * Limit => Shown(d)
    /\ walk = "over" => seen[d] >= 1

\* Oldest first, what has been shown lies before the page, for good.
QueueOK ==
  kind = "oldest" => \A d \in listed :
    /\ seen[d] <= 1
    /\ walk = "on" /\ seen[d] >= 1 => Ranked(listed, kind, d) < (pageNo - 1) * Limit
    /\ d \in items => seen[d] = 0 /\ Ranked(listed, kind, d) < pageNo * Limit

ListsInv == PagesOK /\ CursorOK /\ SkipOK /\ QueueOK

\* The assumptions, without the name of the instance.
LEMMA ListConstants ==
  /\ Order \subseteq {"cursor", "newest", "oldest"}
  /\ Limit \in Nat \ {0} /\ MaxDocs \in Nat
BY MarketAssumption DEF Lists!ListingAssumption

\* The cardinality of the instance is that of the standard module.
LEMMA ListsCardinality == \A S : Lists!Cardinality(S) = Cardinality(S)
BY DEF Lists!Cardinality, Cardinality

\* A place is a number below that of all documents.
LEMMA RankFacts ==
  ASSUME NEW n \in Nat, NEW L \in SUBSET (1 .. n), NEW k
  PROVE  /\ IsFiniteSet(L) /\ Cardinality(L) \in 0 .. n
         /\ \A d : Ranked(L, k, d) \in Nat
         /\ \A d \in L : Ranked(L, k, d) < Cardinality(L)
<1>1. IsFiniteSet(1 .. n) /\ Cardinality(1 .. n) = n
  BY FS_Interval
<1>2. IsFiniteSet(L) /\ Cardinality(L) \in Nat /\ Cardinality(L) <= n
  BY <1>1, FS_Subset, FS_CardinalityType
<1>3. ASSUME NEW d
      PROVE  Ranked(L, k, d) \in Nat /\ (d \in L => Ranked(L, k, d) < Cardinality(L))
  <2> DEFINE B == {e \in L : IF k = "oldest" THEN e < d ELSE e > d}
  <2>1. B \in SUBSET L
    OBVIOUS
  <2>5. d \in L => d \notin B
    <3>1. d \in L => d \in Int
      OBVIOUS
    <3> QED
      BY <3>1
  <2> HIDE DEF B
  <2>2. IsFiniteSet(B) /\ Cardinality(B) \in Nat /\ Cardinality(B) <= Cardinality(L)
    BY <1>2, <2>1, FS_Subset, FS_CardinalityType
  <2>3. d \in L => Cardinality(B) # Cardinality(L)
    BY <1>2, <2>1, <2>5, FS_Subset
  <2>4. Ranked(L, k, d) = Cardinality(B)
    BY DEF Ranked, B
  <2> QED
    BY <1>2, <2>2, <2>3, <2>4
<1> QED
  BY <1>2, <1>3

\* A new document moves those before it, newest first, and none, oldest first.
LEMMA RankCreated ==
  ASSUME NEW n \in Nat, NEW L \in SUBSET (1 .. n), NEW k, NEW d \in 1 .. n
  PROVE  /\ Ranked(L, k, d) <= Ranked(L \cup {n + 1}, k, d)
         /\ k = "oldest" => Ranked(L \cup {n + 1}, k, d) = Ranked(L, k, d)
<1> DEFINE In(S) == {e \in S : IF k = "oldest" THEN e < d ELSE e > d}
           M == L \cup {n + 1}
<1>1. In(L) \in SUBSET In(M) /\ (k = "oldest" => In(M) = In(L))
  OBVIOUS
<1>2. IsFiniteSet(In(M))
  <2>1. In(M) \in SUBSET (1 .. (n + 1))
    <3>1. \A e \in M : e \in 1 .. (n + 1)
      OBVIOUS
    <3>2. \A e \in In(M) : e \in M
      OBVIOUS
    <3> HIDE DEF In, M
    <3> QED
      BY <3>1, <3>2
  <2>2. IsFiniteSet(1 .. (n + 1))
    BY FS_Interval
  <2> HIDE DEF In, M
  <2> QED
    BY <2>1, <2>2, FS_Subset
<1>3. Ranked(L, k, d) = Cardinality(In(L)) /\ Ranked(M, k, d) = Cardinality(In(M))
  BY DEF Ranked
<1> HIDE DEF In
<1>4. Cardinality(In(L)) <= Cardinality(In(M))
  BY <1>1, <1>2, FS_Subset
<1> QED
  BY <1>1, <1>3, <1>4

\* A document that leaves moves no other away from the first place.
LEMMA RankLeft ==
  ASSUME NEW n \in Nat, NEW L \in SUBSET (1 .. n), NEW k, NEW d, NEW x
  PROVE  Ranked(L \ {x}, k, d) <= Ranked(L, k, d)
<1> DEFINE In(S) == {e \in S : IF k = "oldest" THEN e < d ELSE e > d}
<1>1. In(L \ {x}) \in SUBSET In(L) /\ In(L) \in SUBSET L
  OBVIOUS
<1>2. Ranked(L, k, d) = Cardinality(In(L)) /\ Ranked(L \ {x}, k, d) = Cardinality(In(L \ {x}))
  BY DEF Ranked
<1> HIDE DEF In
<1>3. IsFiniteSet(In(L))
  BY <1>1, RankFacts, FS_Subset
<1> QED
  BY <1>1, <1>2, <1>3, FS_Subset

\* The first m, newest first, are the highest, and all if they are fewer.
LEMMA NewestFacts ==
  ASSUME NEW n \in Nat, NEW S \in SUBSET (1 .. n), NEW m \in Nat
  PROVE  /\ Lists!Newest(m, S) \subseteq S
         /\ \A d \in Lists!Newest(m, S), e \in S : e > d => e \in Lists!Newest(m, S)
         /\ Cardinality(Lists!Newest(m, S)) < m => Lists!Newest(m, S) = S
<1> DEFINE Up(d) == {e \in S : e > d}
           N == Lists!Newest(m, S)
           c == Cardinality(S)
<1>1. IsFiniteSet(S) /\ c \in Nat
  BY RankFacts
<1>2. N = {d \in S : Cardinality(Up(d)) < m}
  BY ListsCardinality DEF Lists!Newest
<1>0. \A d \in S : d \in Int
  OBVIOUS
<1>3. \A d \in S : Up(d) \in SUBSET S /\ d \notin Up(d)
  BY <1>0
<1>4. ASSUME NEW d \in S, NEW e \in S, e > d
      PROVE  Up(e) \in SUBSET Up(d) /\ e \in Up(d) /\ e \notin Up(e)
  <2>1. \A x \in S : x > e => x > d
    BY <1>0, <1>4
  <2>2. e \in Up(d) /\ e \notin Up(e)
    BY <1>0, <1>4
  <2> QED
    BY <2>1, <2>2
<1>5. \A d, e \in S : d = e \/ d > e \/ e > d
  BY <1>0
<1> HIDE DEF Up, c, N
<1>6. \A d \in S : IsFiniteSet(Up(d)) /\ Cardinality(Up(d)) \in Nat
  BY <1>1, <1>3, FS_Subset, FS_CardinalityType
<1>7. \A d \in S : Cardinality(Up(d)) \in 0 .. c - 1
  <2> TAKE d \in S
  <2>1. Cardinality(Up(d)) <= c /\ Cardinality(Up(d)) # c
    BY <1>1, <1>3, FS_Subset DEF c
  <2> QED
    BY <1>1, <1>6, <2>1
<1>8. ASSUME NEW d \in S, NEW e \in S, e > d
      PROVE  Cardinality(Up(e)) < Cardinality(Up(d))
  <2>1. Up(e) \in SUBSET Up(d) /\ Up(e) # Up(d)
    BY <1>4, <1>8
  <2>2. Cardinality(Up(e)) <= Cardinality(Up(d)) /\ Cardinality(Up(e)) # Cardinality(Up(d))
    BY <1>6, <2>1, FS_Subset
  <2> QED
    BY <1>6, <2>2
<1>9. \A d \in N, e \in S : e > d => e \in N
  <2> SUFFICES ASSUME NEW d \in N, NEW e \in S, e > d PROVE e \in N
    OBVIOUS
  <2>1. d \in S /\ Cardinality(Up(d)) < m
    BY <1>2
  <2>2. Cardinality(Up(e)) < Cardinality(Up(d))
    BY <1>8, <2>1
  <2> QED
    BY <1>2, <1>6, <2>1, <2>2
<1>10. ASSUME N # S
       PROVE  Cardinality(N) >= m
  <2> DEFINE r == [d \in S |-> Cardinality(Up(d))]
             p == [d \in N |-> Cardinality(Up(d))]
             Slots == 0 .. m - 1
  <2>1. PICK x \in S : ~(Cardinality(Up(x)) < m)
    BY <1>2, <1>10
  <2>2. m <= c - 1
    BY <1>1, <1>6, <1>7, <2>1
  <2>3. r \in Injection(S, 0 .. c - 1)
    <3>1. \A d, e \in S : Cardinality(Up(d)) = Cardinality(Up(e)) => d = e
      BY <1>5, <1>6, <1>8
    <3> QED
      BY <1>7, <3>1 DEF Injection, IsInjective
  <2>4. IsFiniteSet(0 .. c - 1) /\ Cardinality(0 .. c - 1) = c
    BY <1>1, FS_Interval
  <2>5. r \in Surjection(S, 0 .. c - 1)
    BY <1>1, <2>3, <2>4, FS_Injection DEF c
  <2>6. \A i \in Slots : \E d \in N : Cardinality(Up(d)) = i
    <3>1. \A i \in 0 .. c - 1 : \E d \in S : r[d] = i
      BY <2>5 DEF Surjection
    <3> QED
      BY <1>1, <1>2, <2>2, <3>1
  <2>7. p \in Surjection(N, Slots)
    <3>1. \A d \in N : Cardinality(Up(d)) \in Slots
      BY <1>2, <1>6
    <3>2. p \in [N -> Slots]
      BY <3>1
    <3>3. \A i \in Slots : \E d \in N : p[d] = i
      BY <2>6
    <3> HIDE DEF p, Slots
    <3> QED
      BY <3>2, <3>3 DEF Surjection
  <2>8. IsFiniteSet(N) /\ IsFiniteSet(Slots) /\ Cardinality(Slots) = m
    <3>1. N \in SUBSET S
      BY <1>2
    <3>2. IsFiniteSet(Slots) /\ Cardinality(Slots) = m
      BY FS_Interval
    <3> HIDE DEF N
    <3> QED
      BY <1>1, <3>1, <3>2, FS_Subset
  <2>9. Cardinality(Slots) <= Cardinality(N)
    BY <2>7, <2>8, FS_Surjection
  <2> QED
    BY <2>8, <2>9
<1>11. IsFiniteSet(N) /\ Cardinality(N) \in Nat
  <2>1. N \in SUBSET S
    BY <1>2
  <2> HIDE DEF N
  <2> QED
    BY <1>1, <2>1, FS_Subset, FS_CardinalityType
<1> HIDE DEF N
<1>12. Cardinality(N) < m => N = S
  BY <1>10, <1>11
<1> QED
  BY <1>2, <1>9, <1>12 DEF N

\* What the invariant says of the variables' types, and of places.
LEMMA ListTypes ==
  ASSUME ListsInv
  PROVE  /\ kind \in {"cursor", "newest", "oldest"} /\ created \in 0 .. MaxDocs
         /\ listed \in SUBSET (1 .. created) /\ old \in SUBSET (1 .. created)
         /\ items \in SUBSET (1 .. created) /\ walk \in {"begin", "on", "over"}
         /\ pageNo \in Nat \ {0} /\ cursor \in 1 .. MaxDocs + 1 /\ total \in 0 .. MaxDocs
         /\ found \in BOOLEAN /\ counted \in BOOLEAN /\ left \in BOOLEAN /\ torn \in BOOLEAN
         /\ seen \in [1 .. MaxDocs -> Nat] /\ created \in Nat /\ MaxDocs \in Nat
         /\ Limit \in Nat \ {0}
         /\ \A d : Ranked(listed, kind, d) \in Nat
         /\ \A d \in listed : Ranked(listed, kind, d) < Cardinality(listed)
         /\ Cardinality(listed) \in 0 .. created
<1>1. /\ created \in Nat /\ listed \in SUBSET (1 .. created) /\ kind \in Order
      /\ found \in BOOLEAN /\ counted \in BOOLEAN /\ left \in BOOLEAN /\ torn \in BOOLEAN
  BY ListConstants DEF ListsInv, PagesOK, Lists!TypeOK
<1>2. /\ \A d : Ranked(listed, kind, d) \in Nat
      /\ \A d \in listed : Ranked(listed, kind, d) < Cardinality(listed)
      /\ Cardinality(listed) \in 0 .. created
  BY <1>1, RankFacts
<1>3. /\ created \in 0 .. MaxDocs /\ old \in SUBSET (1 .. created)
      /\ items \in SUBSET (1 .. created) /\ walk \in {"begin", "on", "over"}
      /\ pageNo \in Nat \ {0} /\ cursor \in 1 .. MaxDocs + 1 /\ total \in 0 .. MaxDocs
      /\ seen \in [1 .. MaxDocs -> Nat]
  BY DEF ListsInv, PagesOK, Lists!TypeOK, Lists!Docs
<1> QED
  BY <1>1, <1>2, <1>3, ListConstants

\* A new document is none of the old ones, and moves them back at most.
LEMMA ListCreate ==
  ASSUME ListsInv, Lists!Create
  PROVE  ListsInv'
<1> DEFINE R(d) == Ranked(listed, kind, d)
           Q(d) == Ranked(listed', kind, d)
<1>1. /\ created < MaxDocs /\ created' = created + 1 /\ listed' = listed \cup {created + 1}
      /\ torn' = (torn \/ (counted /\ ~found))
      /\ UNCHANGED <<kind, walk, pageNo, cursor, items, total, found, counted, seen, old, left>>
  BY DEF Lists!Create, Lists!client
<1>2. PagesOK'
  <2>1. /\ created' \in 0 .. MaxDocs /\ torn' \in BOOLEAN
        /\ \A d \in listed' : d \in 1 .. created'
        /\ \A d \in 1 .. created : d \in 1 .. created'
    BY <1>1, ListTypes
  <2>2. \A d \in Lists!Docs : seen[d] >= 1 => d <= created'
    BY <1>1, ListTypes DEF ListsInv, PagesOK, Lists!Docs
  <2> QED
    BY <1>1, <2>1, <2>2 DEF ListsInv, PagesOK, Lists!TypeOK, Lists!Docs
<1>3. \A d \in old \cap listed' : d \in old \cap listed
  BY <1>1, ListTypes
<1>4. CursorOK'
  BY <1>1, <1>3 DEF ListsInv, CursorOK
<1>5. \A d \in listed : /\ R(d) \in Nat /\ Q(d) \in Nat /\ R(d) <= Q(d)
                        /\ kind = "oldest" => Q(d) = R(d)
  <2>1. \A d \in listed : R(d) <= Q(d) /\ (kind = "oldest" => Q(d) = R(d))
    <3> TAKE d \in listed
    <3>1. created \in Nat /\ listed \in SUBSET (1 .. created) /\ d \in 1 .. created
      BY ListTypes
    <3>2. /\ Ranked(listed, kind, d) <= Ranked(listed \cup {created + 1}, kind, d)
          /\ kind = "oldest" =>
               Ranked(listed \cup {created + 1}, kind, d) = Ranked(listed, kind, d)
      BY <3>1, RankCreated
    <3> QED
      BY <1>1, <3>2
  <2>2. listed' \in SUBSET (1 .. created + 1) /\ created + 1 \in Nat
    BY <1>1, ListTypes
  <2>3. \A d \in listed : Q(d) \in Nat
    BY <2>2, RankFacts
  <2> QED
    BY <2>1, <2>3, ListTypes
<1>6. SkipOK'
  <2> SUFFICES ASSUME kind # "cursor", Undisturbed', NEW d \in old \cap listed'
      PROVE /\ walk = "on" /\ Q(d) < (pageNo - 1) * Limit => seen[d] >= 1
            /\ found /\ Q(d) < pageNo * Limit => Shown(d)
            /\ counted /\ ~found => Q(d) < total
            /\ counted /\ found /\ total <= pageNo * Limit => Shown(d)
            /\ walk = "over" => seen[d] >= 1
    BY <1>1 DEF SkipOK, Shown
  <2>1. d \in old \cap listed /\ Undisturbed
    BY <1>1, <1>3 DEF Undisturbed
  <2>2. counted /\ ~found => kind = "oldest"
    BY <1>1 DEF Undisturbed
  <2>3. /\ walk = "on" /\ R(d) < (pageNo - 1) * Limit => seen[d] >= 1
        /\ found /\ R(d) < pageNo * Limit => Shown(d)
        /\ counted /\ ~found => R(d) < total
        /\ counted /\ found /\ total <= pageNo * Limit => Shown(d)
        /\ walk = "over" => seen[d] >= 1
    BY <2>1 DEF ListsInv, SkipOK
  <2>4. /\ R(d) \in Nat /\ Q(d) \in Nat /\ R(d) <= Q(d)
        /\ kind = "oldest" => Q(d) = R(d)
    BY <1>5, <2>1
  <2>5. (pageNo - 1) * Limit \in Nat /\ pageNo * Limit \in Nat
    BY ListTypes
  <2> HIDE DEF R, Q
  <2> QED
    BY <2>2, <2>3, <2>4, <2>5
<1>7. QueueOK'
  <2> SUFFICES ASSUME kind = "oldest", NEW d \in listed'
      PROVE /\ seen[d] <= 1
            /\ walk = "on" /\ seen[d] >= 1 => Q(d) < (pageNo - 1) * Limit
            /\ d \in items => seen[d] = 0 /\ Q(d) < pageNo * Limit
    BY <1>1 DEF QueueOK
  <2>1. CASE d = created + 1
    <3>1. ~(seen[d] >= 1) /\ d \notin items /\ seen[d] \in Nat
      BY <1>1, <2>1, ListTypes DEF ListsInv, PagesOK, Lists!Docs
    <3> QED
      BY <3>1
  <2>2. CASE d \in listed
    BY <1>5, <2>2 DEF ListsInv, QueueOK
  <2> QED
    BY <1>1, <2>1, <2>2
<1> QED
  BY <1>2, <1>4, <1>6, <1>7 DEF ListsInv

\* A document that leaves disturbs a walk with skip, but not a queue's order.
LEMMA ListLeave ==
  ASSUME ListsInv, NEW x \in Lists!Docs, Lists!Leave(x)
  PROVE  ListsInv'
<1> DEFINE R(d) == Ranked(listed, kind, d)
           Q(d) == Ranked(listed', kind, d)
<1>1. /\ listed' = listed \ {x} /\ left' = TRUE
      /\ UNCHANGED <<kind, created, torn, walk, pageNo, cursor, items, total, found, counted,
                     seen, old>>
  BY DEF Lists!Leave, Lists!client
<1>2. PagesOK'
  BY <1>1, ListTypes DEF ListsInv, PagesOK, Lists!TypeOK, Lists!Docs
<1>3. CursorOK'
  BY <1>1 DEF ListsInv, CursorOK
<1>4. SkipOK'
  BY <1>1 DEF SkipOK, Undisturbed
<1>5. QueueOK'
  <2> SUFFICES ASSUME kind = "oldest", NEW d \in listed'
      PROVE /\ seen[d] <= 1
            /\ walk = "on" /\ seen[d] >= 1 => Q(d) < (pageNo - 1) * Limit
            /\ d \in items => seen[d] = 0 /\ Q(d) < pageNo * Limit
    BY <1>1 DEF QueueOK
  <2>1. /\ seen[d] <= 1
        /\ walk = "on" /\ seen[d] >= 1 => R(d) < (pageNo - 1) * Limit
        /\ d \in items => seen[d] = 0 /\ R(d) < pageNo * Limit
    BY <1>1 DEF ListsInv, QueueOK
  <2>2. R(d) \in Nat /\ Q(d) \in Nat /\ Q(d) <= R(d)
    <3>1. listed' \in SUBSET (1 .. created)
      BY <1>1, ListTypes
    <3> QED
      BY <1>1, <3>1, ListTypes, RankFacts, RankLeft
  <2>3. (pageNo - 1) * Limit \in Nat /\ pageNo * Limit \in Nat
    BY ListTypes
  <2> HIDE DEF R, Q
  <2> QED
    BY <2>1, <2>2, <2>3
<1> QED
  BY <1>2, <1>3, <1>4, <1>5 DEF ListsInv

\* A page's skip and the places it ends before.
LEMMA PageBounds ==
  ASSUME NEW p \in Nat \ {0}, NEW t \in Nat
  PROVE  /\ (p - 1) * Limit \in Nat /\ p * Limit \in Nat
         /\ p * Limit = (p - 1) * Limit + Limit
         /\ p = 1 => (p - 1) * Limit = 0
         /\ ~(p < ((t + Limit - 1) \div Limit)) => t <= p * Limit
<1>1. Limit \in Nat \ {0}
  BY ListConstants
<1>2. /\ (p - 1) * Limit \in Nat /\ p * Limit \in Nat
      /\ p * Limit = (p - 1) * Limit + Limit
      /\ p = 1 => (p - 1) * Limit = 0
  BY <1>1
<1>3. ASSUME ~(p < ((t + Limit - 1) \div Limit))
      PROVE  t <= p * Limit
  BY <1>1, <1>3, Z3
<1> QED
  BY <1>2, <1>3

\* When a query starts a walk nothing is shown yet; otherwise the walk goes on.
LEMMA ListStart ==
  ASSUME ListsInv, Lists!Start, Lists!Forget, walk # "over", kind # "cursor"
  PROVE  /\ old' \in SUBSET (1 .. created) /\ left' \in BOOLEAN /\ torn' \in BOOLEAN
         /\ \A d \in listed : kind = "oldest" /\ seen[d] >= 1
                                => Ranked(listed, kind, d) < (pageNo - 1) * Limit
         /\ ~left' /\ (kind = "oldest" \/ ~torn') => \A d \in old' \cap listed :
              /\ Ranked(listed, kind, d) < (pageNo - 1) * Limit => seen[d] >= 1
              /\ found /\ Ranked(listed, kind, d) < pageNo * Limit => Shown(d)
              /\ counted /\ ~found => Ranked(listed, kind, d) < total
<1>1. CASE walk = "begin"
  <2>1. old' = listed /\ ~left' /\ ~torn' /\ left' \in BOOLEAN /\ torn' \in BOOLEAN
    BY <1>1 DEF Lists!Start, Lists!Forget
  <2>2. pageNo = 1 /\ ~found /\ ~counted /\ \A d \in listed : seen[d] = 0
    BY <1>1, ListTypes DEF ListsInv, PagesOK, Lists!Docs
  <2>3. (pageNo - 1) * Limit = 0
    BY <2>2, ListTypes
  <2>4. \A d \in listed : ~(Ranked(listed, kind, d) < 0)
    BY ListTypes
  <2> QED
    BY <2>1, <2>2, <2>3, <2>4, ListTypes
<1>2. CASE walk = "on"
  <2>1. old' = old /\ left' = left /\ torn' = torn
    BY <1>2, ListTypes DEF Lists!Start, Lists!Forget
  <2>2. \A d \in listed : kind = "oldest" /\ seen[d] >= 1
                            => Ranked(listed, kind, d) < (pageNo - 1) * Limit
    BY <1>2 DEF ListsInv, QueueOK
  <2>3. Undisturbed => \A d \in old \cap listed :
          /\ Ranked(listed, kind, d) < (pageNo - 1) * Limit => seen[d] >= 1
          /\ found /\ Ranked(listed, kind, d) < pageNo * Limit => Shown(d)
          /\ counted /\ ~found => Ranked(listed, kind, d) < total
    BY <1>2 DEF ListsInv, SkipOK
  <2> QED
    BY <2>1, <2>2, <2>3, ListTypes DEF Undisturbed
<1> QED
  BY <1>1, <1>2, ListTypes

\* The page that is found has the places between its bounds.
LEMMA ListFind ==
  ASSUME ListsInv, Lists!FindItems
  PROVE  ListsInv'
<1> DEFINE R(d) == Ranked(listed, kind, d)
           lo == (pageNo - 1) * Limit
           hi == pageNo * Limit
<1>1. /\ kind # "cursor" /\ walk # "over" /\ ~found /\ Lists!Start /\ Lists!Forget
      /\ walk' = "on" /\ found' = TRUE
      /\ items' = {d \in listed : lo <= R(d) /\ R(d) < lo + Limit}
      /\ UNCHANGED <<kind, created, listed, pageNo, cursor, total, counted, seen>>
  <2>1. \A d : Lists!Position(d) = R(d)
    BY ListsCardinality DEF Lists!Position, Lists!Below, Lists!Above, Ranked
  <2> QED
    BY <2>1 DEF Lists!FindItems, Lists!Page
<1>2. lo \in Nat /\ hi = lo + Limit /\ Limit \in Nat
  BY ListTypes, PageBounds
<1>3. /\ old' \in SUBSET (1 .. created) /\ left' \in BOOLEAN /\ torn' \in BOOLEAN
      /\ \A d \in listed : kind = "oldest" /\ seen[d] >= 1 => R(d) < lo
      /\ ~left' /\ (kind = "oldest" \/ ~torn') => \A d \in old' \cap listed :
           /\ R(d) < lo => seen[d] >= 1
           /\ counted => R(d) < total
  BY <1>1, ListStart
<1>4. \A d \in listed : R(d) \in Nat /\ seen[d] \in Nat
  BY ListTypes
<1> HIDE DEF R, lo, hi
<1>5. PagesOK'
  <2>1. items' \in SUBSET (1 .. created) /\ items' \in SUBSET Lists!Docs
    BY <1>1, ListTypes DEF Lists!Docs
  <2> QED
    BY <1>1, <1>3, <2>1, ListTypes DEF ListsInv, PagesOK, Lists!TypeOK, Lists!Docs
<1>6. CursorOK'
  BY <1>1 DEF CursorOK
<1>7. SkipOK'
  <2> SUFFICES ASSUME Undisturbed', NEW d \in old' \cap listed
      PROVE /\ R(d) < lo => seen[d] >= 1
            /\ R(d) < hi => seen[d] >= 1 \/ d \in items'
            /\ counted /\ total <= hi => seen[d] >= 1 \/ d \in items'
    BY <1>1 DEF SkipOK, Shown, R, lo, hi
  <2>1. (R(d) < lo => seen[d] >= 1) /\ (counted => R(d) < total)
    BY <1>1, <1>3 DEF Undisturbed
  <2>2. R(d) < hi => seen[d] >= 1 \/ d \in items'
    BY <1>1, <1>2, <1>4, <2>1
  <2>3. total \in Nat
    BY ListTypes
  <2> QED
    BY <1>2, <1>4, <2>1, <2>2, <2>3
<1>8. QueueOK'
  <2> SUFFICES ASSUME kind = "oldest", NEW d \in listed
      PROVE /\ seen[d] <= 1
            /\ seen[d] >= 1 => R(d) < lo
            /\ d \in items' => seen[d] = 0 /\ R(d) < hi
    BY <1>1 DEF QueueOK, R, lo, hi
  <2>1. seen[d] <= 1
    BY DEF ListsInv, QueueOK
  <2> QED
    BY <1>1, <1>2, <1>3, <1>4, <2>1
<1> QED
  BY <1>5, <1>6, <1>7, <1>8 DEF ListsInv

\* The total is above every place, and a page found before reaches the last
\* place if it reaches the total.
LEMMA ListCount ==
  ASSUME ListsInv, Lists!CountDocuments
  PROVE  ListsInv'
<1> DEFINE R(d) == Ranked(listed, kind, d)
           lo == (pageNo - 1) * Limit
           hi == pageNo * Limit
<1>1. /\ kind # "cursor" /\ walk # "over" /\ ~counted /\ Lists!Start /\ Lists!Forget
      /\ walk' = "on" /\ counted' = TRUE /\ total' = Cardinality(listed)
      /\ UNCHANGED <<kind, created, listed, pageNo, cursor, items, found, seen>>
  BY ListsCardinality DEF Lists!CountDocuments
<1>2. lo \in Nat /\ hi \in Nat
  BY ListTypes, PageBounds
<1>3. /\ old' \in SUBSET (1 .. created) /\ left' \in BOOLEAN /\ torn' \in BOOLEAN
      /\ \A d \in listed : kind = "oldest" /\ seen[d] >= 1 => R(d) < lo
      /\ ~left' /\ (kind = "oldest" \/ ~torn') => \A d \in old' \cap listed :
           /\ R(d) < lo => seen[d] >= 1
           /\ found /\ R(d) < hi => Shown(d)
  BY <1>1, ListStart
<1>4. \A d \in listed : R(d) \in Nat /\ R(d) < total'
  BY <1>1, ListTypes
<1>5. total' \in 0 .. MaxDocs
  BY <1>1, ListTypes
<1> HIDE DEF R, lo, hi
<1>6. PagesOK'
  BY <1>1, <1>3, <1>5, ListTypes DEF ListsInv, PagesOK, Lists!TypeOK, Lists!Docs
<1>7. CursorOK'
  BY <1>1 DEF CursorOK
<1>8. SkipOK'
  <2> SUFFICES ASSUME Undisturbed', NEW d \in old' \cap listed
      PROVE /\ R(d) < lo => seen[d] >= 1
            /\ found /\ R(d) < hi => Shown(d)
            /\ ~found => R(d) < total'
            /\ found /\ total' <= hi => Shown(d)
    BY <1>1 DEF SkipOK, Shown, R, lo, hi
  <2>1. (R(d) < lo => seen[d] >= 1) /\ (found /\ R(d) < hi => Shown(d))
    BY <1>1, <1>3 DEF Undisturbed
  <2> QED
    BY <1>2, <1>4, <1>5, <2>1
<1>9. QueueOK'
  <2> SUFFICES ASSUME kind = "oldest", NEW d \in listed
      PROVE /\ seen[d] <= 1
            /\ seen[d] >= 1 => R(d) < lo
            /\ d \in items => seen[d] = 0 /\ R(d) < hi
    BY <1>1 DEF QueueOK, R, lo, hi
  <2> QED
    BY <1>3 DEF ListsInv, QueueOK, R, hi
<1> QED
  BY <1>6, <1>7, <1>8, <1>9 DEF ListsInv

\* A page that is shown leaves nothing before its end unseen; the last one
\* leaves nothing unseen.
LEMMA ListRespond ==
  ASSUME ListsInv, Lists!Respond
  PROVE  ListsInv'
<1> DEFINE R(d) == Ranked(listed, kind, d)
           lo == (pageNo - 1) * Limit
           hi == pageNo * Limit
<1>1. /\ found /\ counted /\ walk = "on" /\ kind # "cursor"
      /\ seen' = [d \in 1 .. MaxDocs |-> IF d \in items THEN seen[d] + 1 ELSE seen[d]]
      /\ ~found' /\ ~counted' /\ items' = {} /\ total' = 0
      /\ found' \in BOOLEAN /\ counted' \in BOOLEAN
      /\ UNCHANGED <<kind, created, listed, cursor, old, left, torn>>
  BY ListTypes DEF Lists!Respond, Lists!Show, Lists!Docs, ListsInv, PagesOK
<1>2. \/ pageNo' = pageNo + 1 /\ walk' = "on"
      \/ pageNo' = pageNo /\ walk' = "over" /\ total <= hi
  <2>1. ~(pageNo < ((total + Limit - 1) \div Limit)) => total <= hi
    <3>1. pageNo \in Nat \ {0} /\ total \in Nat
      BY ListTypes
    <3> QED
      BY <3>1, PageBounds, Zenon
  <2>2. IF pageNo < ((total + Limit - 1) \div Limit)
        THEN pageNo' = pageNo + 1 /\ walk' = walk
        ELSE walk' = "over" /\ pageNo' = pageNo
    BY DEF Lists!Respond, Lists!TotalPages
  <2> HIDE DEF hi
  <2> QED
    BY <1>1, <2>1, <2>2
<1>3. lo \in Nat /\ hi \in Nat /\ lo <= hi /\ (pageNo' = pageNo + 1 => (pageNo' - 1) * Limit = hi)
  <2>1. lo \in Nat /\ hi \in Nat /\ hi = lo + Limit /\ Limit \in Nat
    BY ListTypes, PageBounds
  <2>2. pageNo' = pageNo + 1 => pageNo' - 1 = pageNo
    BY ListTypes
  <2>3. pageNo' = pageNo + 1 => (pageNo' - 1) * Limit = hi
    BY <2>2
  <2> HIDE DEF lo, hi
  <2> QED
    BY <2>1, <2>3
<1>4. \A d \in listed \cup items : /\ R(d) \in Nat /\ seen[d] \in Nat
                                   /\ d \in 1 .. MaxDocs
  BY ListTypes
<1>5. \A d \in listed \cup items : seen'[d] = IF d \in items THEN seen[d] + 1 ELSE seen[d]
  BY <1>1, <1>4
<1>6. \A d \in 1 .. MaxDocs : seen'[d] \in Nat /\ (seen'[d] >= 1 => Shown(d))
  BY <1>1, ListTypes DEF Shown
<1>7. \A d \in listed : Shown(d) => seen'[d] >= 1
  BY <1>4, <1>5 DEF Shown
<1> HIDE DEF R, lo, hi
<1>8. PagesOK'
  <2>1. pageNo' \in Nat \ {0} /\ seen' \in [1 .. MaxDocs -> Nat] /\ walk' \in {"on", "over"}
    BY <1>1, <1>2, <1>6, ListTypes
  <2>2. \A d \in 1 .. MaxDocs : seen'[d] >= 1 => d <= created
    BY <1>6, ListTypes DEF Shown, ListsInv, PagesOK, Lists!Docs
  <2> QED
    BY <1>1, <2>1, <2>2, ListTypes DEF ListsInv, PagesOK, Lists!TypeOK, Lists!Docs
<1>9. CursorOK'
  BY <1>1 DEF CursorOK
<1>10. SkipOK'
  <2> SUFFICES ASSUME Undisturbed', NEW d \in old \cap listed
      PROVE /\ walk' = "on" /\ R(d) < hi => seen'[d] >= 1
            /\ walk' = "over" => seen'[d] >= 1
    BY <1>1, <1>2, <1>3 DEF SkipOK, R, hi
  <2>1. (R(d) < hi => Shown(d)) /\ (total <= hi => Shown(d))
    BY <1>1 DEF Undisturbed, ListsInv, SkipOK, R, hi
  <2> QED
    BY <1>2, <1>7, <2>1
<1>11. QueueOK'
  <2> SUFFICES ASSUME kind = "oldest", NEW d \in listed
      PROVE /\ seen'[d] <= 1
            /\ walk' = "on" /\ seen'[d] >= 1 => R(d) < hi
    BY <1>1, <1>2, <1>3 DEF QueueOK, R, hi
  <2>1. /\ seen[d] <= 1 /\ (seen[d] >= 1 => R(d) < lo)
        /\ d \in items => seen[d] = 0 /\ R(d) < hi
    BY <1>1 DEF ListsInv, QueueOK, R, lo, hi
  <2>2. seen'[d] <= 1
    BY <1>4, <1>5, <2>1
  <2>3. seen'[d] >= 1 => seen[d] >= 1 \/ d \in items
    BY <1>5
  <2> QED
    BY <1>3, <1>4, <2>1, <2>2, <2>3
<1> QED
  BY <1>8, <1>9, <1>10, <1>11 DEF ListsInv

\* Documents that are not empty have a lowest one.
LEMMA LowestFacts ==
  ASSUME NEW n \in Nat, NEW S \in SUBSET (1 .. n), S # {}
  PROVE  Lists!Lowest(S) \in S /\ \A e \in S : Lists!Lowest(S) <= e
<1> DEFINE HasLowest == {T \in SUBSET S : T = {} \/ \E d \in T : \A e \in T : d <= e}
<1>1. IsFiniteSet(S) /\ \A d \in S : d \in Nat
  BY RankFacts
<1>2. ASSUME NEW T \in SUBSET S, \A U \in SUBSET T : U # T => U \in HasLowest
      PROVE  T \in HasLowest
  <2> SUFFICES ASSUME T # {} PROVE \E d \in T : \A e \in T : d <= e
    OBVIOUS
  <2>1. PICK x \in T : TRUE
    OBVIOUS
  <2>2. T \ {x} \in HasLowest
    BY <1>2, <2>1
  <2>3. CASE T \ {x} = {}
    <3>1. \A e \in T : e = x
      BY <2>3
    <3> QED
      BY <1>1, <3>1
  <2>4. CASE \E d \in T \ {x} : \A e \in T \ {x} : d <= e
    <3>1. PICK d \in T \ {x} : \A e \in T \ {x} : d <= e
      BY <2>4
    <3>2. CASE d <= x
      BY <3>1, <3>2
    <3>3. CASE ~(d <= x)
      BY <1>1, <3>1, <3>3
    <3> QED
      BY <3>2, <3>3
  <2> QED
    BY <2>2, <2>3, <2>4
<1>3. \A T \in SUBSET S : T \in HasLowest
  <2> HIDE DEF HasLowest
  <2> QED
    BY <1>1, <1>2, SubsetInduction
<1>4. \E d \in S : \A e \in S : d <= e
  BY <1>3
<1> QED
  BY <1>4 DEF Lists!Lowest

\* What a page shows are all documents from the next cursor to the last one,
\* or all below the last cursor.
LEMMA CursorPage ==
  ASSUME NEW n \in Nat, NEW S \in SUBSET (1 .. n), NEW N, N = Lists!Newest(Limit + 1, S)
  PROVE  /\ ~(Cardinality(N) > Limit) => N = S
         /\ Cardinality(N) > Limit =>
              /\ Lists!NextCursor(N) \in S
              /\ N \ {Lists!Lowest(N)} = {d \in S : d >= Lists!NextCursor(N)}
<1>1. Limit \in Nat \ {0} /\ Limit + 1 \in Nat
  BY ListConstants
<1>2. /\ N \in SUBSET S
      /\ \A d \in N, e \in S : e > d => e \in N
      /\ Cardinality(N) < Limit + 1 => N = S
  BY <1>1, NewestFacts
<1>0. \A d \in S : d \in Nat /\ d \in 1 .. n
  OBVIOUS
<1>3. N \in SUBSET (1 .. n) /\ \A d \in S : d \in Nat
  BY <1>0, <1>2
<1>4. Cardinality(N) \in Nat /\ IsFiniteSet(N)
  <2>1. IsFiniteSet(S)
    BY RankFacts
  <2> QED
    BY <1>2, <2>1, FS_Subset, FS_CardinalityType
<1>5. ASSUME Cardinality(N) > Limit
      PROVE  /\ Lists!NextCursor(N) \in S
             /\ N \ {Lists!Lowest(N)} = {d \in S : d >= Lists!NextCursor(N)}
  <2> DEFINE l == Lists!Lowest(N)
             P == N \ {l}
             c == Lists!NextCursor(N)
  <2>1. N # {}
    BY <1>1, <1>5, FS_EmptySet
  <2>2. l \in N /\ \A e \in N : l <= e
    BY <1>3, <2>1, LowestFacts
  <2>3. Cardinality(P) = Cardinality(N) - 1
    <3> HIDE DEF l
    <3> QED
      BY <1>4, <2>2, FS_RemoveElement
  <2>4. P # {}
    <3>1. Cardinality(P) # 0
      BY <1>1, <1>4, <1>5, <2>3
    <3> HIDE DEF P
    <3> QED
      BY <3>1, FS_EmptySet
  <2>5. P \in SUBSET (1 .. n) /\ c = Lists!Lowest(P)
    BY <1>3 DEF Lists!NextCursor
  <2> HIDE DEF l, P, c
  <2>6. c \in P /\ \A e \in P : c <= e
    BY <2>4, <2>5, LowestFacts
  <2>7. c \in S /\ c > l
    BY <1>2, <1>3, <2>2, <2>6 DEF P
  <2>8. \A d \in P : d \in S /\ d >= c
    BY <1>2, <1>3, <2>6, <2>7 DEF P
  <2>9. ASSUME NEW d \in S, d >= c PROVE d \in P
    BY <1>2, <1>3, <2>2, <2>6, <2>7, <2>9 DEF P
  <2>10. P = {d \in S : d >= c}
    BY <2>8, <2>9
  <2> QED
    BY <2>7, <2>10 DEF l, P, c
<1>6. ~(Cardinality(N) > Limit) => Cardinality(N) < Limit + 1
  BY <1>1, <1>4
<1> QED
  BY <1>2, <1>5, <1>6

\* A page shows what lies between its cursor and the one before.
LEMMA ListHistory ==
  ASSUME ListsInv, Lists!OrderHistory
  PROVE  ListsInv'
<1> DEFINE B == {e \in listed : e < cursor}
           N == Lists!Newest(Limit + 1, B)
           hasMore == Cardinality(N) > Limit
           P == IF hasMore THEN N \ {Lists!Lowest(N)} ELSE N
<1>1. /\ kind = "cursor" /\ walk # "over" /\ Lists!Start /\ Lists!Forget
      /\ seen' = [d \in 1 .. MaxDocs |-> IF d \in P THEN seen[d] + 1 ELSE seen[d]]
      /\ IF hasMore THEN walk' = "on" /\ cursor' = Lists!NextCursor(N)
                    ELSE walk' = "over" /\ cursor' = cursor
      /\ UNCHANGED <<kind, created, listed, pageNo, items, total, found, counted>>
  BY ListsCardinality DEF Lists!OrderHistory, Lists!Below, Lists!Show, Lists!Docs
<1>2. B \in SUBSET (1 .. created) /\ created \in Nat /\ B \in SUBSET listed
  BY ListTypes
<1>3. /\ ~hasMore => P = B
      /\ hasMore => Lists!NextCursor(N) \in B /\ P = {d \in B : d >= Lists!NextCursor(N)}
  <2>1. /\ ~(Cardinality(N) > Limit) => N = B
        /\ Cardinality(N) > Limit =>
             /\ Lists!NextCursor(N) \in B
             /\ N \ {Lists!Lowest(N)} = {d \in B : d >= Lists!NextCursor(N)}
    <3>1. B \in SUBSET (1 .. created) /\ created \in Nat /\ N = Lists!Newest(Limit + 1, B)
      BY <1>2
    <3> HIDE DEF B, N
    <3> QED
      BY ONLY <3>1, CursorPage
  <2> HIDE DEF N, B
  <2> QED
    BY <2>1
<1> HIDE DEF N, hasMore, P
<1>4. P \in SUBSET B
  BY <1>3
<1>5. \A d \in listed : d \in 1 .. MaxDocs /\ seen[d] \in Nat
  BY ListTypes
<1>6. \A d \in listed : seen'[d] = IF d \in P THEN seen[d] + 1 ELSE seen[d]
  BY <1>1, <1>5
<1>7. /\ old' \in SUBSET (1 .. created) /\ left' \in BOOLEAN /\ torn' \in BOOLEAN
      /\ \A d \in old' \cap listed : seen[d] = IF d >= cursor THEN 1 ELSE 0
  <2>1. CASE walk = "begin"
    <3>1. old' = listed /\ left' \in BOOLEAN /\ torn' \in BOOLEAN
      BY <2>1 DEF Lists!Start, Lists!Forget, Lists!OrderHistory
    <3>2. cursor = MaxDocs + 1 /\ \A d \in listed : seen[d] = 0
      BY <2>1, <1>5 DEF ListsInv, PagesOK, Lists!Docs
    <3>3. \A d \in listed : ~(d >= cursor)
      BY <1>5, <3>2, ListTypes
    <3> QED
      BY <3>1, <3>2, <3>3, ListTypes
  <2>2. CASE walk = "on"
    <3>1. old' = old /\ left' \in BOOLEAN /\ torn' \in BOOLEAN
      BY <2>2, ListTypes DEF Lists!Start, Lists!Forget, Lists!OrderHistory
    <3>2. \A d \in old \cap listed : seen[d] = IF d >= cursor THEN 1 ELSE 0
      BY <1>1, <2>2 DEF ListsInv, CursorOK
    <3> QED
      BY <3>1, <3>2, ListTypes
  <2> QED
    BY <1>1, <2>1, <2>2, ListTypes
<1>8. PagesOK'
  <2>1. seen' \in [1 .. MaxDocs -> Nat] /\ \A d \in 1 .. MaxDocs : seen'[d] >= 1 => d <= created
    <3>1. \A d \in P : d <= created
      BY <1>2, <1>4
    <3>2. \A d \in 1 .. MaxDocs : seen[d] \in Nat /\ (seen[d] >= 1 => d <= created)
      BY ListTypes DEF ListsInv, PagesOK, Lists!Docs
    <3>3. \A d \in 1 .. MaxDocs : /\ seen'[d] = IF d \in P THEN seen[d] + 1 ELSE seen[d]
                                  /\ seen'[d] \in Nat
      BY <1>1, <3>2
    <3> QED
      BY <1>1, <3>1, <3>2, <3>3
  <2>2. walk' \in {"on", "over"} /\ cursor' \in 1 .. MaxDocs + 1
    BY <1>1, <1>2, <1>3, ListTypes
  <2>3. ~found /\ ~counted
    BY <1>1 DEF ListsInv, PagesOK
  <2>4. seen' \in [Lists!Docs -> Nat] /\ \A d \in Lists!Docs : seen'[d] >= 1 => d <= created
    BY <2>1 DEF Lists!Docs
  <2>5. Lists!TypeOK'
    BY <1>1, <1>7, <2>2, <2>4, ListTypes DEF ListsInv, PagesOK, Lists!TypeOK, Lists!Docs
  <2> QED
    BY <1>1, <1>7, <2>2, <2>3, <2>4, <2>5 DEF ListsInv, PagesOK, Lists!Docs
<1>9. CursorOK'
  <2> SUFFICES ASSUME NEW d \in old' \cap listed
      PROVE /\ walk' = "on" => seen'[d] = IF d >= cursor' THEN 1 ELSE 0
            /\ walk' = "over" => seen'[d] = 1
    BY <1>1 DEF CursorOK
  <2>1. d \in Nat /\ cursor \in Nat /\ (d \in B <=> d < cursor)
    BY <1>5, ListTypes
  <2>2. seen[d] = IF d >= cursor THEN 1 ELSE 0
    BY <1>7
  <2>3. seen'[d] = IF d \in P THEN seen[d] + 1 ELSE seen[d]
    BY <1>6
  <2>4. CASE hasMore
    <3>1. walk' = "on" /\ cursor' \in B /\ P = {e \in B : e >= cursor'}
      BY <1>1, <1>3, <2>4
    <3>2. cursor' \in Nat /\ cursor' < cursor
      BY <3>1, ListTypes
    <3> HIDE DEF B
    <3> QED
      BY <2>1, <2>2, <2>3, <3>1, <3>2
  <2>5. CASE ~hasMore
    <3>1. walk' = "over" /\ P = B
      BY <1>1, <1>3, <2>5
    <3> HIDE DEF B
    <3> QED
      BY <2>1, <2>2, <2>3, <3>1
  <2> QED
    BY <2>4, <2>5
<1>10. SkipOK' /\ QueueOK'
  BY <1>1 DEF SkipOK, QueueOK
<1> QED
  BY <1>8, <1>9, <1>10 DEF ListsInv

\* Every step keeps the invariant.
LEMMA ListsStep ==
  ASSUME ListsInv, Lists!Next
  PROVE  ListsInv'
BY ListCreate, ListLeave, ListHistory, ListFind, ListCount, ListRespond DEF Lists!Next

\* Nothing else changes it.
LEMMA ListsSame ==
  ASSUME ListsInv, UNCHANGED lists
  PROVE  ListsInv'
BY DEF lists, ListsInv, PagesOK, CursorOK, SkipOK, QueueOK, Undisturbed, Shown, Lists!TypeOK,
       Lists!Docs

\* An empty collection and a walk that has not begun.
LEMMA ListsInit ==
  ASSUME Lists!Init
  PROVE  ListsInv
<1> USE DEF Lists!Init
<1>1. seen \in [Lists!Docs -> Nat] /\ \A d \in Lists!Docs : seen[d] = 0
  OBVIOUS
<1>2. Lists!TypeOK
  <2>1. /\ created \in 0 .. MaxDocs /\ listed \subseteq 1 .. created /\ items \subseteq Lists!Docs
        /\ pageNo \in Nat \ {0} /\ cursor \in 1 .. MaxDocs + 1 /\ total \in 0 .. MaxDocs
    BY ListConstants
  <2> QED
    BY <1>1, <2>1 DEF Lists!TypeOK
<1>3. PagesOK
  BY <1>1, <1>2 DEF PagesOK
<1> QED
  BY <1>3 DEF ListsInv, CursorOK, SkipOK, QueueOK

\* The invariant says what a finished walk has shown.
LEMMA ListsWalked ==
  ASSUME ListsInv
  PROVE  Lists!TypeOK /\ Lists!WalkComplete
<1>1. ASSUME walk = "over", NEW d \in old \cap listed
      PROVE  CASE kind = "cursor" -> seen[d] = 1
               [] kind = "newest" -> seen[d] >= 1 \/ left \/ torn
               [] kind = "oldest" -> seen[d] <= 1 /\ (seen[d] = 1 \/ left)
  <2>1. seen[d] \in Nat
    BY ListTypes
  <2>2. CASE kind = "cursor"
    BY <1>1, <2>2 DEF ListsInv, CursorOK
  <2>3. CASE kind = "newest"
    BY <1>1, <2>3 DEF ListsInv, SkipOK, Undisturbed
  <2>4. CASE kind = "oldest"
    BY <1>1, <2>1, <2>4 DEF ListsInv, SkipOK, QueueOK, Undisturbed
  <2> QED
    BY <2>2, <2>3, <2>4, ListTypes
<1> QED
  BY <1>1 DEF Lists!WalkComplete, ListsInv, PagesOK

-----------------------------------------------------------------------------
(* The market as a whole: a step of one part leaves the others alone.      *)

MarketInv == TypeOK /\ NoticeInv /\ CatalogInv /\ ReportsInv /\ GrowthInv /\ ListsInv

\* The first states satisfy the invariant of every part.
LEMMA MarketInit == MCInit => MarketInv
<1> SUFFICES ASSUME MCInit PROVE MarketInv
  OBVIOUS
<1>1. Init /\ Catalog!Init /\ Reports!Init /\ Growth!Init /\ Lists!Init
  BY DEF MCInit
<1>2. TypeOK /\ CatalogInv /\ ReportsInv /\ GrowthInv /\ ListsInv
  BY <1>1, TypeInit, CatalogInit, ReportsInit, GrowthInit, ListsInit
<1>3. NoticeInv
  BY <1>1 DEF Init, NoticeInv
<1> QED
  BY <1>2, <1>3 DEF MarketInv

\* A step of the market is one of each part, or leaves the part alone.
LEMMA PartsStep ==
  ASSUME [MCNext]_<<focus, vars, stocks, trades, members, lists>>
  PROVE  /\ focus' = focus
         /\ [Next]_vars
         /\ [Catalog!Next]_Catalog!vars
         /\ [Reports!Next]_Reports!vars
         /\ [Growth!Next]_members
         /\ Lists!Next \/ UNCHANGED lists
<1>1. stocks' = stocks => UNCHANGED Catalog!vars
  BY DEF stocks, Catalog!vars
<1>2. trades' = trades => UNCHANGED Reports!vars
  BY DEF trades, Reports!vars, Reports!caches
<1> QED
  BY <1>1, <1>2 DEF MCNext

\* Every step of the market keeps the invariant.
LEMMA MarketStep ==
  ASSUME MarketInv, [MCNext]_<<focus, vars, stocks, trades, members, lists>>
  PROVE  MarketInv'
<1>1. TypeOK' /\ NoticeInv'
  BY PartsStep, TypeStep, NoticeStep DEF MarketInv
<1>2. CatalogInv'
  BY PartsStep, CatalogStep DEF MarketInv
<1>3. ReportsInv'
  BY PartsStep, ReportsStep DEF MarketInv
<1>4. GrowthInv'
  BY PartsStep, GrowthStep DEF MarketInv
<1>5. ListsInv'
  BY PartsStep, ListsStep, ListsSame DEF MarketInv
<1> QED
  BY <1>1, <1>2, <1>3, <1>4, <1>5 DEF MarketInv

\* All parts keep their invariants, however many alerts, stocks, members,
\* requests and documents there are.
THEOREM MarketSafe == MCSpec => []MarketInv
BY MarketInit, MarketStep, PTL DEF MCSpec

\* The variables of the part that takes steps have their types.
THEOREM MarketTyping == MCSpec => []Typed
<1>1. ASSUME MarketInv, focus \in {"alerts", "stocks", "reports", "growth", "lists"}
      PROVE  Typed
  BY <1>1, CatalogTyped, ReportsTyped, GrowthTyped, ListsWalked DEF Typed, MarketInv
<1>2. MCInit => focus \in {"alerts", "stocks", "reports", "growth", "lists"}
  BY DEF MCInit
<1>3. ASSUME focus \in {"alerts", "stocks", "reports", "growth", "lists"},
             [MCNext]_<<focus, vars, stocks, trades, members, lists>>
      PROVE  (focus \in {"alerts", "stocks", "reports", "growth", "lists"})'
  BY <1>3, PartsStep
<1> QED
  BY <1>1, <1>2, <1>3, MarketSafe, PTL DEF MCSpec

\* What Redis has of a stock or of a portfolio agrees with the collections, is
\* about to be replaced, or is wrong for a reason the parts name: a read that a
\* write overtook, a delete or event that failed, updates whose events changed
\* places, a sell that was rolled back (stock.service.ts, order.service.ts).
THEOREM CachesDoAgree == MCSpec => []CachesAgree
<1>1. MarketInv => CachesAgree
  BY ReportsTyped DEF MarketInv, CatalogInv, CachesAgree
<1> QED
  BY <1>1, MarketSafe, PTL

\* Reports computed at one moment (AnalyticsService, PortfolioService) differ by
\* exactly the lots of the trades that are half done or broke off half-way, and
\* by the orders of an instant that two ranges share; the four numbers of a
\* growth report (MemberService) by no more than those who joined meanwhile.
THEOREM ReportsReconciled == MCSpec => []ReportsAgree
<1>1. MarketInv => ReportsAgree
  BY ReportsDoAgree, GrowthDoesAgree DEF MarketInv, ReportsAgree
<1> QED
  BY <1>1, MarketSafe, PTL

\* A walk through a listing misses no document and, by cursor or oldest first,
\* shows none twice, except where documents move under a walk with skip
\* (OrderService.getHistory and the lists with a total).
THEOREM WalksComplete == MCSpec => []WalkComplete
<1>1. MarketInv => WalkComplete
  BY ListsWalked DEF MarketInv, WalkComplete
<1> QED
  BY <1>1, MarketSafe, PTL

=============================================================================
