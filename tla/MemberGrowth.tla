---------------------------- MODULE MemberGrowth ----------------------------
(***************************************************************************)
(* The growth report of the user-service: four queries on the collection   *)
(* of members, sent at once and answered one by one, while members go on   *)
(* joining and the month may end.  Dates are told apart by their month.    *)
(***************************************************************************)
EXTENDS Integers, FiniteSets, Functions

CONSTANTS
  Members,
  MonthsShown,   \* months in the breakdown, 6 in the code
  MaxMonth,      \* bound
  None

\* What the constants may be; modules that instantiate this one assume it.
GrowthAssumption ==
  /\ IsFiniteSet(Members)
  /\ MonthsShown \in Nat \ {0} /\ MaxMonth \in Nat
  /\ None \notin Nat

Queries == {"totalMembers", "thisMonth", "lastMonth", "monthlyBreakdown"}

VARIABLES
  month,    \* the present month
  joined,   \* joined[m]: the month of m's createdAt, or None
  stored,   \* the members whose documents are in the collection
  asked,    \* `now` of the report that is computed or was computed last, or None
  pending,  \* its queries that are not answered yet
  answers,  \* answers[q]: the documents that its query q went over
  before    \* history: the members that were stored when it was asked for

vars == <<month, joined, stored, asked, pending, answers, before>>

NoAnswers == [q \in Queries |-> {}]

Init ==
  /\ month = 0
  /\ joined = [m \in Members |-> None] /\ stored = {}
  /\ asked = None /\ pending = {} /\ answers = NoAnswers /\ before = {}

-----------------------------------------------------------------------------
NextMonth ==
  /\ month < MaxMonth /\ month' = month + 1
  /\ UNCHANGED <<joined, stored, asked, pending, answers, before>>

\* Mongoose dates the document, again if the insert is tried again ...
Register(m) ==
  /\ m \notin stored
  /\ joined' = [joined EXCEPT ![m] = month]
  /\ UNCHANGED <<month, stored, asked, pending, answers, before>>

\* ... before it is in the collection.
Insert(m) ==
  /\ joined[m] # None /\ m \notin stored
  /\ stored' = stored \cup {m}
  /\ UNCHANGED <<month, joined, asked, pending, answers, before>>

\* getMemberGrowth reads the clock and sends its queries.  The next report is
\* asked for when one is complete or was given up.
Ask ==
  /\ pending = {}
  /\ asked' = month /\ pending' = Queries /\ answers' = NoAnswers /\ before' = stored
  /\ UNCHANGED <<month, joined, stored>>

Answer(q) ==
  /\ q \in pending
  /\ pending' = pending \ {q}
  /\ answers' = [answers EXCEPT ![q] = stored]
  /\ UNCHANGED <<month, joined, stored, asked, before>>

\* Promise.all rejects with the first query that fails.
Fail ==
  /\ pending # {}
  /\ asked' = None /\ pending' = {} /\ answers' = NoAnswers /\ before' = {}
  /\ UNCHANGED <<month, joined, stored>>

Next ==
  \/ NextMonth \/ Ask \/ Fail
  \/ \E m \in Members : Register(m) \/ Insert(m)
  \/ \E q \in Queries : Answer(q)

Spec == Init /\ [][Next]_vars

-----------------------------------------------------------------------------
(* The report, once all queries are answered.                              *)

Since(q, n) == {m \in answers[q] : joined[m] >= n}

TotalMembers == Cardinality(answers["totalMembers"])
ThisMonth == Cardinality(Since("thisMonth", asked))
LastMonth == Cardinality({m \in answers["lastMonth"] : joined[m] = asked - 1})

First == asked - MonthsShown + 1
MonthlyBreakdown ==
  LET recent == Since("monthlyBreakdown", First)
  IN  [n \in {joined[m] : m \in recent} |-> Cardinality({m \in recent : joined[m] = n})]

-----------------------------------------------------------------------------

TypeOK ==
  /\ month \in 0 .. MaxMonth
  /\ joined \in [Members -> Nat \cup {None}]
  /\ stored \subseteq Members /\ before \subseteq stored
  /\ asked \in Nat \cup {None} /\ pending \subseteq Queries
  /\ answers \in [Queries -> SUBSET Members]

\* The members that some query found and that were not stored when the report
\* was asked for.
Latecomers == (UNION {answers[q] : q \in Queries}) \ before

Close(a, b, n) == a <= b + n /\ b <= a + n

\* The numbers of one report agree but for those who joined while it was
\* computed: this month is what the breakdown has from it on (which may be two
\* months, if one ended meanwhile), last month is its entry, the two are part of
\* the total, and so is the breakdown with the older members.
GrowthAgrees ==
  LET shown == MonthlyBreakdown
      fromNow == {n \in DOMAIN shown : n >= asked}
      previous == IF asked - 1 \in DOMAIN shown THEN shown[asked - 1] ELSE 0
      older == {m \in before : joined[m] < First}
      late == Cardinality(Latecomers)
  IN  asked # None /\ pending = {} =>
        /\ Close(ThisMonth, SumFunction([n \in fromNow |-> shown[n]]),
                 Cardinality({m \in Latecomers : joined[m] >= asked}))
        /\ MonthsShown > 1 =>
             Close(LastMonth, previous, Cardinality({m \in Latecomers : joined[m] = asked - 1}))
        /\ ThisMonth + LastMonth <= TotalMembers + late
        /\ Close(SumFunction(shown) + Cardinality(older), TotalMembers, late)
=============================================================================
