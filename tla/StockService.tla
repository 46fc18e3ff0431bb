---------------------------- MODULE StockService ----------------------------
(***************************************************************************)
(* The stock catalogue of the trading-service: listing, repricing and      *)
(* delisting stocks, the copies of them in Redis, and the price events the *)
(* alert-worker consumes; one step per awaited call.                       *)
(*                                                                         *)
(* A stock is known by its ticker.  Names, sectors and descriptions are    *)
(* left out: an update that sets no price stands for an edit of them.  The *)
(* catalogue entry is the first page as if it held every listed stock; its *)
(* key does not tell apart the page sizes it was filled with.  Other pages *)
(* and searches only read the collection.                                  *)
(***************************************************************************)
EXTENDS Naturals, Sequences, SequencesExt

CONSTANTS
  Stocks, Prices,
  Catalogue,     \* the key of the catalogue in Redis, beside one per stock
  None,          \* no document, no entry, no price
  HistoryMax,    \* PRICE_HISTORY_MAX
  Workers,       \* HTTP requests in flight at one time
  StepsMayFail   \* may Redis fail, or a request die half-way?

\* What the constants may be; modules that instantiate this one assume it.
StockAssumption ==
  /\ Stocks # {} /\ Catalogue \notin Stocks
  /\ None \notin Prices /\ None \notin [price : Prices, listed : BOOLEAN]
  /\ HistoryMax \in Nat \ {0}
  /\ StepsMayFail \in BOOLEAN

VARIABLES
  stock,      \* stock[s]: the document: its price and whether it is listed
  history,    \* history[s]: its priceHistory
  entry,      \* entry[k]: what Redis holds under k
  told,       \* told[s]: the price in the event published last
  at,         \* at[w]: the call request w is about to make
  job,        \* job[w]: operation, stock, key, price and what it read; and, as
              \* history, whether it was overtaken by a write
  spoiled,    \* history: keys whose entry was filled by an overtaken read, or
              \* that a failed or missing delete left behind
  misled      \* history: stocks whose last event was late or never sent

vars == <<stock, history, entry, told, at, job, spoiled, misled>>

-----------------------------------------------------------------------------
(* Documents, entries and requests.                                        *)

Keys == Stocks \cup {Catalogue}
Stock == [price : Prices, listed : BOOLEAN]

Exists(s) == stock[s] # None

\* What findById and findAll read: one document, or the listed ones.
Shown(k) == {s \in Stocks : Exists(s) /\ (s = k \/ (k = Catalogue /\ stock[s].listed))}
Read(k) == [s \in Stocks |-> IF s \in Shown(k) THEN stock[s] ELSE None]

Entries == [Stocks -> Stock \cup {None}] \cup {None}

Points == {"idle", "insert", "evict", "emit", "fill"}
Job == [op : {"none", "create", "update", "quote"}, stock : Stocks, key : Keys,
        price : Prices \cup {None}, seen : Entries, late : BOOLEAN]
NoJob == [op |-> "none", stock |-> CHOOSE s \in Stocks : TRUE, key |-> Catalogue,
          price |-> None, seen |-> None, late |-> FALSE]

Init ==
  /\ stock = [s \in Stocks |-> None]
  /\ history = [s \in Stocks |-> <<>>]
  /\ entry = [k \in Keys |-> None]
  /\ told = [s \in Stocks |-> None]
  /\ at = [w \in Workers |-> "idle"]
  /\ job = [w \in Workers |-> NoJob]
  /\ spoiled = {} /\ misled = {}

Goto(w, p) == at' = [at EXCEPT ![w] = p]
Finish(w) == Goto(w, "idle") /\ job' = [job EXCEPT ![w] = NoJob]

\* History: a write to stock s overtakes what other requests read or wrote
\* before; edits that set no price overtake no price event.
Overtakes(v, s, p) ==
  \/ at[v] = "fill" /\ job[v].key \in {s, Catalogue}
  \/ at[v] \in {"evict", "emit"} /\ job[v].stock = s /\ p # None

\* Request w wrote stock s, with price p if it set one, and goes on to delete
\* the entry under k.
Wrote(w, op, s, p, k) ==
  /\ Goto(w, "evict")
  /\ job' = [v \in Workers |->
       IF v = w THEN [op |-> op, stock |-> s, key |-> k, price |-> p,
                      seen |-> None, late |-> FALSE]
       ELSE [job[v] EXCEPT !.late = @ \/ Overtakes(v, s, p)]]

-----------------------------------------------------------------------------
(* Writes: the document first, then the two entries, then the event.       *)

Create(w, s, p) ==
  /\ at[w] = "idle" /\ ~Exists(s)
  /\ Goto(w, "insert")
  /\ job' = [job EXCEPT ![w] = [NoJob EXCEPT !.op = "create", !.stock = s, !.price = p]]
  /\ UNCHANGED <<stock, history, entry, told, spoiled, misled>>

\* The ticker is unique: a second insert fails.  Nothing is published.
Insert(w) ==
  LET s == job[w].stock
      p == job[w].price
  IN  /\ at[w] = "insert"
      /\ IF Exists(s)
         THEN Finish(w) /\ UNCHANGED <<stock, history>>
         ELSE /\ stock' = [stock EXCEPT ![s] = [price |-> p, listed |-> TRUE]]
              /\ history' = [history EXCEPT ![s] = <<p>>]
              /\ Wrote(w, "create", s, None, Catalogue)
      /\ UNCHANGED <<entry, told, spoiled, misled>>

\* Mutant: no $slice.
PushedWhole(h, p) == Append(h, p)

\* $push with $each and $slice.
Pushed(h, p) ==
  LET all == Append(h, p)
  IN  IF Len(all) > HistoryMax THEN Tail(all) ELSE all

Update(w, s, p) ==
  /\ at[w] = "idle" /\ Exists(s)
  /\ stock' = IF p = None THEN stock ELSE [stock EXCEPT ![s].price = p]
  /\ history' = IF p = None THEN history ELSE [history EXCEPT ![s] = Pushed(@, p)]
  /\ Wrote(w, "update", s, p, s)
  /\ UNCHANGED <<entry, told, spoiled, misled>>

Delist(w, s) ==
  /\ at[w] = "idle" /\ Exists(s)
  /\ stock' = [stock EXCEPT ![s].listed = FALSE]
  /\ Wrote(w, "update", s, None, s)
  /\ UNCHANGED <<history, entry, told, spoiled, misled>>

\* Mutant: delist and update forget the catalogue.
NextKeyForgotten(w) ==
  IF job[w].price = None THEN Finish(w) ELSE Goto(w, "emit") /\ UNCHANGED job

\* After the stock's own entry the catalogue; then the event, if there is one.
NextKey(w) ==
  IF job[w].key # Catalogue
  THEN UNCHANGED at /\ job' = [job EXCEPT ![w].key = Catalogue]
  ELSE IF job[w].price = None THEN Finish(w) ELSE Goto(w, "emit") /\ UNCHANGED job

Evict(w) ==
  /\ at[w] = "evict"
  /\ entry' = [entry EXCEPT ![job[w].key] = None]
  /\ spoiled' = spoiled \ {job[w].key}
  /\ NextKey(w)
  /\ UNCHANGED <<stock, history, told, misled>>

\* CacheService logs the error and goes on.
EvictFails(w) ==
  /\ StepsMayFail /\ at[w] = "evict"
  /\ spoiled' = spoiled \cup {job[w].key}
  /\ NextKey(w)
  /\ UNCHANGED <<stock, history, entry, told, misled>>

EmitPriceUpdated(w) ==
  LET s == job[w].stock
  IN  /\ at[w] = "emit"
      /\ told' = [told EXCEPT ![s] = job[w].price]
      /\ misled' = IF job[w].late THEN misled \cup {s} ELSE misled \ {s}
      /\ Finish(w)
      /\ UNCHANGED <<stock, history, entry, spoiled>>

-----------------------------------------------------------------------------
(* Reads through Redis.                                                    *)

\* A miss, or an error of Redis that counts as one, reads the collection.
Quote(w, k) ==
  /\ at[w] = "idle"
  /\ entry[k] = None \/ StepsMayFail
  /\ k # Catalogue => Exists(k)
  /\ Goto(w, "fill")
  /\ job' = [job EXCEPT ![w] = [NoJob EXCEPT !.op = "quote", !.key = k, !.seen = Read(k)]]
  /\ UNCHANGED <<stock, history, entry, told, spoiled, misled>>

Fill(w) ==
  LET k == job[w].key
  IN  /\ at[w] = "fill"
      /\ entry' = [entry EXCEPT ![k] = job[w].seen]
      /\ spoiled' = IF job[w].late THEN spoiled \cup {k} ELSE spoiled \ {k}
      /\ Finish(w)
      /\ UNCHANGED <<stock, history, told, misled>>

\* The TTL of an entry.
Expire(k) ==
  /\ entry[k] # None
  /\ entry' = [entry EXCEPT ![k] = None]
  /\ spoiled' = spoiled \ {k}
  /\ UNCHANGED <<stock, history, told, at, job, misled>>

\* The process dies, or the insert or the set of an entry fails.
Abort(w) ==
  /\ StepsMayFail /\ at[w] # "idle"
  /\ spoiled' = IF at[w] = "evict" THEN spoiled \cup {job[w].key, Catalogue} ELSE spoiled
  /\ misled' = IF at[w] \in {"evict", "emit"} /\ job[w].price # None
               THEN misled \cup {job[w].stock} ELSE misled
  /\ Finish(w)
  /\ UNCHANGED <<stock, history, entry, told>>

Arrive(w) ==
  \/ \E s \in Stocks, p \in Prices : Create(w, s, p)
  \/ \E s \in Stocks, p \in Prices \cup {None} : Update(w, s, p)
  \/ \E s \in Stocks : Delist(w, s)
  \/ \E k \in Keys : Quote(w, k)

Proceed(w) ==
  Insert(w) \/ Evict(w) \/ EvictFails(w) \/ EmitPriceUpdated(w) \/ Fill(w)

Next ==
  \/ \E w \in Workers : Arrive(w) \/ Proceed(w) \/ Abort(w)
  \/ \E k \in Keys : Expire(k)

Spec == Init /\ [][Next]_vars

-----------------------------------------------------------------------------
(* Properties.                                                             *)

\* Types; and the history of a stock is never longer than HistoryMax and ends
\* in its price, however updates overlap.
TypeOK ==
  /\ stock \in [Stocks -> Stock \cup {None}]
  /\ history \in [Stocks -> Seq(Prices)]
  /\ entry \in [Keys -> Entries]
  /\ told \in [Stocks -> Prices \cup {None}]
  /\ at \in [Workers -> Points] /\ job \in [Workers -> Job]
  /\ spoiled \subseteq Keys /\ misled \subseteq Stocks
  /\ \A s \in Stocks :
       /\ Len(history[s]) <= HistoryMax
       /\ Exists(s) => history[s] # <<>> /\ Last(history[s]) = stock[s].price

\* Request w has still to delete the entry under k, or to publish stock s.
Evicts(w, k) == at[w] = "evict" /\ k \in {job[w].key, Catalogue}
Publishes(w, s) ==
  at[w] \in {"evict", "emit"} /\ job[w].stock = s /\ job[w].price # None

\* A copy of a stock that differs from its document is about to be replaced,
\* or goes back to one of three things: a read that a write overtook, a delete
\* or event that failed, or two updates whose events changed places
\* (stock.service.ts update: document, entry, catalogue, event).
CopiesAgree ==
  /\ \A k \in Keys :
       entry[k] \in {None, Read(k)} \/ k \in spoiled \/ \E w \in Workers : Evicts(w, k)
  /\ \A s \in Stocks :
       told[s] = None \/ told[s] = stock[s].price \/ s \in misled
         \/ \E w \in Workers : Publishes(w, s)
=============================================================================
