------------------------------ MODULE Listings ------------------------------
(***************************************************************************)
(* The listings of the services, and a client that walks through one page  *)
(* by page while documents are created and leave the listing:              *)
(*   "cursor"  a member's orders, newest first, from the last id seen on   *)
(*   "newest"  transactions, members: newest first, with skip and a total  *)
(*   "oldest"  the queue of pending withdrawals: oldest first, with skip   *)
(* The two queries behind a page with a total are sent at the same time,   *)
(* so the collection may change between them.                              *)
(***************************************************************************)
EXTENDS Naturals, FiniteSets

CONSTANTS
  Order,     \* the kind of listing
  Limit,     \* documents per page
  MaxDocs    \* bound

\* What the constants may be; modules that instantiate this one assume it.
ListingAssumption ==
  /\ Order \subseteq {"cursor", "newest", "oldest"}
  /\ Limit \in Nat \ {0} /\ MaxDocs \in Nat

VARIABLES
  kind,      \* the kind of listing that is walked through
  created,   \* documents created so far; they are numbered in this order
  listed,    \* those that match the listing's filter
  walk,      \* "begin", "on" or "over"
  page,      \* the page asked for
  cursor,    \* the id to go on below
  items,     \* the documents of the page, once it is found
  total,     \* the number of all documents, once they are counted
  found, counted,   \* have the two queries been answered?
  seen,      \* seen[d]: how many pages showed document d
  old,       \* history: documents listed when the walk began
  left,      \* history: did a document leave the listing since?
  torn       \* history: was one created after a page's total was counted
             \* and before its documents were found?

client == <<walk, page, cursor, items, total, found, counted, seen>>
vars == <<kind, created, listed, client, old, left, torn>>

Docs == 1 .. MaxDocs

Init ==
  /\ kind \in Order
  /\ created = 0 /\ listed = {}
  /\ walk = "begin" /\ page = 1 /\ cursor = MaxDocs + 1
  /\ items = {} /\ total = 0 /\ found = FALSE /\ counted = FALSE
  /\ seen = [d \in Docs |-> 0]
  /\ old = {} /\ left = FALSE /\ torn = FALSE

-----------------------------------------------------------------------------
(* The collection.                                                         *)

Create ==
  /\ created < MaxDocs
  /\ created' = created + 1
  /\ listed' = listed \cup {created + 1}
  /\ torn' = (torn \/ (counted /\ ~found))
  /\ UNCHANGED <<kind, client, old, left>>

\* A withdrawal is decided, an order leaves the status that is asked for, ...
Leave(d) ==
  /\ d \in listed
  /\ listed' = listed \ {d}
  /\ left' = TRUE
  /\ UNCHANGED <<kind, created, client, old, torn>>

-----------------------------------------------------------------------------
(* Pages.                                                                  *)

Below(d) == {e \in listed : e < d}
Above(d) == {e \in listed : e > d}

\* The first n of ds, newest first, and the first after skipping some.
Newest(n, ds) == {d \in ds : Cardinality({e \in ds : e > d}) < n}
Position(d) == Cardinality(IF kind = "oldest" THEN Below(d) ELSE Above(d))
Page(skip) == {d \in listed : skip <= Position(d) /\ Position(d) < skip + Limit}

Lowest(ds) == CHOOSE d \in ds : \A e \in ds : d <= e

\* Mutant: the cursor is the document that was fetched to see if there is more.
CursorBeyond(ds) == Lowest(ds)

\* nextCursor: the last of the page's documents, without the one that was
\* fetched to see if there is more.
NextCursor(ds) == Lowest(ds \ {Lowest(ds)})

Start == old' = IF walk = "begin" THEN listed ELSE old
Forget == left' = (walk # "begin" /\ left) /\ torn' = (walk # "begin" /\ torn)

Show(ds) == seen' = [d \in Docs |-> IF d \in ds THEN seen[d] + 1 ELSE seen[d]]

\* getHistory: one query for one document more than the page shows.
OrderHistory ==
  LET orders == Newest(Limit + 1, Below(cursor))
      hasMore == Cardinality(orders) > Limit
  IN  /\ kind = "cursor" /\ walk # "over"
      /\ Start /\ Forget
      /\ Show(IF hasMore THEN orders \ {Lowest(orders)} ELSE orders)
      /\ IF hasMore
         THEN walk' = "on" /\ cursor' = NextCursor(orders)
         ELSE walk' = "over" /\ UNCHANGED cursor
      /\ UNCHANGED <<kind, created, listed, page, items, total, found, counted>>

FindItems ==
  /\ kind # "cursor" /\ walk # "over" /\ ~found
  /\ Start /\ Forget
  /\ walk' = "on" /\ found' = TRUE
  /\ items' = Page((page - 1) * Limit)
  /\ UNCHANGED <<kind, created, listed, page, cursor, total, counted, seen>>

CountDocuments ==
  /\ kind # "cursor" /\ walk # "over" /\ ~counted
  /\ Start /\ Forget
  /\ walk' = "on" /\ counted' = TRUE
  /\ total' = Cardinality(listed)
  /\ UNCHANGED <<kind, created, listed, page, cursor, items, found, seen>>

TotalPages == (total + Limit - 1) \div Limit

\* The client goes on while the page's meta says hasNextPage.
Respond ==
  /\ found /\ counted
  /\ Show(items)
  /\ IF page < TotalPages
     THEN page' = page + 1 /\ UNCHANGED walk
     ELSE walk' = "over" /\ UNCHANGED page
  /\ found' = FALSE /\ counted' = FALSE /\ items' = {} /\ total' = 0
  /\ UNCHANGED <<kind, created, listed, cursor, old, left, torn>>

Next ==
  \/ Create \/ \E d \in Docs : Leave(d)
  \/ OrderHistory \/ FindItems \/ CountDocuments \/ Respond

Spec == Init /\ [][Next]_vars

-----------------------------------------------------------------------------
(* Properties.                                                             *)

\* Types.
TypeOK ==
  /\ kind \in Order /\ created \in 0 .. MaxDocs
  /\ listed \subseteq 1 .. created /\ items \subseteq Docs
  /\ walk \in {"begin", "on", "over"}
  /\ page \in Nat \ {0} /\ cursor \in 1 .. MaxDocs + 1 /\ total \in 0 .. MaxDocs
  /\ {found, counted, left, torn} \subseteq BOOLEAN
  /\ seen \in [Docs -> Nat] /\ old \subseteq Docs

\* Of the documents that were listed from the beginning of a walk to its end,
\* a walk by cursor shows each exactly once, whatever comes and goes.  With
\* skip, newest first, it misses one only if another left the listing or if
\* one was created after a page's total was counted and before its documents
\* were found, though it may show one twice;
\* oldest first, it shows none twice and misses one only if another left.
WalkComplete ==
  walk = "over" => \A d \in old \cap listed :
    CASE kind = "cursor" -> seen[d] = 1
      [] kind = "newest" -> seen[d] >= 1 \/ left \/ torn
      [] kind = "oldest" -> seen[d] <= 1 /\ (seen[d] = 1 \/ left)
=============================================================================
