--------------------------- MODULE TradingReports ---------------------------
(***************************************************************************)
(* What members and analysts are told about the trades: the portfolio of a *)
(* member, cached for a minute and deleted by each trade, and the reports  *)
(* on trading volume, traded stocks, assets under management and sectors,  *)
(* each computed by one pipeline over a collection on request.             *)
(*                                                                         *)
(* The trades are those of OrderService, one at a time per member as under *)
(* a lock that does not lapse; the wallet only pays or refuses.  Money is  *)
(* in cents: prices have two decimals, so no report rounds.                *)
(***************************************************************************)
EXTENDS Integers, Sequences, FiniteSets, Functions

CONSTANTS
  Members, Stocks,
  Watched,       \* members who look at their portfolio, one request at a time
  SectorOf,      \* SectorOf[s]: the sector of stock s
  PriceOf,       \* PriceOf[s]: its current price; that the copies of a price
                 \* may differ for a while is the subject of StockService
  Lots,          \* numbers of shares that are traded
  MaxOrders, MaxTime,  \* bounds
  DayLength,     \* instants per day, of which the first is midnight
  MonthLength,   \* days per month
  None,
  StepsMayFail   \* may Redis fail, or a request die half-way?

\* What the constants may be; modules that instantiate this one assume it.
ReportAssumption ==
  /\ IsFiniteSet(Members) /\ IsFiniteSet(Stocks) /\ Watched \subseteq Members
  /\ PriceOf \in [Stocks -> Nat \ {0}]
  /\ Lots \subseteq Nat \ {0}
  /\ MaxOrders \in Nat /\ MaxTime \in Nat
  /\ DayLength \in Nat \ {0} /\ MonthLength \in Nat \ {0}
  /\ None \notin [Stocks -> Nat] /\ None \notin Nat /\ None \notin Stocks
  /\ StepsMayFail \in BOOLEAN

VARIABLES
  clock,    \* the present instant
  shares,   \* shares[m][s]: shares in the position, 0 also if there is none
  orders,   \* order documents, oldest first
  trade,    \* trade[m]: the trade of m that goes on, and the call it comes to
  view,     \* view[m]: the shares in m's cached portfolio, or None
  reading,  \* reading[m]: the shares a getPortfolio of m has read, or None
  late,     \* history: members whose shares changed since they were read
  stale,    \* history: members whose cached portfolio nothing will delete
  adrift    \* history: adrift[m][s]: shares that trades which broke off have
            \* added to the position, less those they took, without an order

caches == <<view, reading>>
vars == <<clock, orders, shares, trade, caches, late, stale, adrift>>

NoTrade == [stage |-> "idle", side |-> "buy", stock |-> CHOOSE s \in Stocks : TRUE,
            lot |-> 0, order |-> 0]

Init ==
  /\ clock = 0
  /\ shares = [m \in Members |-> [s \in Stocks |-> 0]]
  /\ orders = <<>>
  /\ trade = [m \in Members |-> NoTrade]
  /\ view = [m \in Members |-> None] /\ reading = [m \in Members |-> None]
  /\ late = {} /\ stale = {}
  /\ adrift = [m \in Members |-> [s \in Stocks |-> 0]]

-----------------------------------------------------------------------------
Tick ==
  /\ clock < MaxTime /\ clock' = clock + 1
  /\ UNCHANGED <<orders, shares, trade, caches, late, stale, adrift>>

-----------------------------------------------------------------------------
(* Trades: an order, the shares, the status, and the delete of the cached  *)
(* portfolio.                                                              *)

Goto(m, stage) == trade' = [trade EXCEPT ![m].stage = stage]
Finish(m) == trade' = [trade EXCEPT ![m] = NoTrade]

SetShares(m, s, n) ==
  /\ shares' = [shares EXCEPT ![m][s] = n]
  /\ late' = IF reading[m] = None THEN late ELSE late \cup {m}

\* MaxOrders bounds the orders, those that a sell is about to create included.
Room == Len(orders) + Cardinality({m \in Members : trade[m].stage = "record"}) < MaxOrders

\* The shares of stock s that trade t has added to its member's position, or
\* taken from it, while its order is not executed.
Added(t, s) == IF t.stage = "mark" /\ t.side = "buy" /\ t.stock = s THEN t.lot ELSE 0
Taken(t, s) ==
  IF t.stage \in {"record", "pay", "mark"} /\ t.side = "sell" /\ t.stock = s
  THEN t.lot ELSE 0

\* Trade t has moved shares, and the cached portfolio is not deleted yet.
Moving(t) == t.stage \in {"record", "mark", "evict"} \/ (t.stage = "pay" /\ t.side = "sell")

PlaceOrder(m, t) ==
  /\ orders' = Append(orders, [member |-> m, side |-> t.side, stock |-> t.stock,
                               lot |-> t.lot, total |-> t.lot * PriceOf[t.stock],
                               status |-> "pending", at |-> None])
  /\ trade' = [trade EXCEPT ![m] = [t EXCEPT !.stage = "pay", !.order = Len(orders) + 1]]

Buy(m, s, n) ==
  /\ trade[m].stage = "idle" /\ Room
  /\ PlaceOrder(m, [NoTrade EXCEPT !.stock = s, !.lot = n])
  /\ UNCHANGED <<clock, shares, caches, late, stale, adrift>>

\* findOneAndUpdate: shares are taken only if there are enough.
Sell(m, s, n) ==
  /\ trade[m].stage = "idle" /\ shares[m][s] >= n /\ Room
  /\ trade' = [trade EXCEPT ![m] = [NoTrade EXCEPT !.stage = "record", !.side = "sell",
                                                   !.stock = s, !.lot = n]]
  /\ SetShares(m, s, shares[m][s] - n)
  /\ UNCHANGED <<clock, orders, caches, stale, adrift>>

Record(m) ==
  /\ trade[m].stage = "record"
  /\ PlaceOrder(m, trade[m])
  /\ UNCHANGED <<clock, shares, caches, late, stale, adrift>>

\* The wallet paid: a buy adds its shares, a sell deletes an empty position.
Paid(m) ==
  LET t == trade[m]
  IN  /\ t.stage = "pay"
      /\ Goto(m, "mark")
      /\ IF t.side = "buy"
         THEN SetShares(m, t.stock, shares[m][t.stock] + t.lot)
         ELSE UNCHANGED <<shares, late>>
      /\ UNCHANGED <<clock, orders, caches, stale, adrift>>

\* The wallet refused: a sell restores its shares, but a portfolio that was
\* cached meanwhile stays.
Refused(m) ==
  LET t == trade[m]
  IN  /\ t.stage = "pay"
      /\ orders' = [orders EXCEPT ![t.order].status = "rejected"]
      /\ Finish(m)
      /\ IF t.side = "sell"
         THEN /\ SetShares(m, t.stock, shares[m][t.stock] + t.lot)
              /\ stale' = IF view[m] = None THEN stale ELSE stale \cup {m}
         ELSE UNCHANGED <<shares, late, stale>>
      /\ UNCHANGED <<clock, caches, adrift>>

MarkExecuted(m) ==
  /\ trade[m].stage = "mark"
  /\ orders' = [orders EXCEPT ![trade[m].order].status = "executed",
                              ![trade[m].order].at = clock]
  /\ Goto(m, "evict")
  /\ UNCHANGED <<clock, shares, caches, late, stale, adrift>>

Evict(m) ==
  /\ trade[m].stage = "evict"
  /\ view' = [view EXCEPT ![m] = None]
  /\ stale' = stale \ {m}
  /\ Finish(m)
  /\ UNCHANGED <<clock, orders, shares, reading, late, adrift>>

\* CacheService logs the error and goes on.
EvictFails(m) ==
  /\ StepsMayFail /\ trade[m].stage = "evict"
  /\ stale' = stale \cup {m}
  /\ Finish(m)
  /\ UNCHANGED <<clock, orders, shares, caches, late, adrift>>

\* The process dies, or a database call throws.
Die(m) ==
  /\ StepsMayFail /\ trade[m].stage # "idle"
  /\ stale' = IF Moving(trade[m]) THEN stale \cup {m} ELSE stale
  /\ adrift' = [adrift EXCEPT ![m] = [s \in Stocks |->
                   adrift[m][s] + Added(trade[m], s) - Taken(trade[m], s)]]
  /\ Finish(m)
  /\ UNCHANGED <<clock, orders, shares, caches, late>>

-----------------------------------------------------------------------------
(* The portfolio of a member, read through Redis.                          *)

GetPortfolio(m) ==
  /\ m \in Watched /\ reading[m] = None
  /\ view[m] = None \/ StepsMayFail
  /\ reading' = [reading EXCEPT ![m] = shares[m]]
  /\ late' = late \ {m}
  /\ UNCHANGED <<clock, orders, shares, trade, view, stale, adrift>>

Fill(m) ==
  /\ reading[m] # None
  /\ view' = [view EXCEPT ![m] = reading[m]]
  /\ reading' = [reading EXCEPT ![m] = None]
  /\ stale' = IF m \in late THEN stale \cup {m} ELSE stale \ {m}
  /\ late' = late \ {m}
  /\ UNCHANGED <<clock, orders, shares, trade, adrift>>

Expire(m) ==
  /\ view[m] # None
  /\ view' = [view EXCEPT ![m] = None]
  /\ stale' = stale \ {m}
  /\ UNCHANGED <<clock, orders, shares, trade, reading, late, adrift>>

Trade(m) ==
  \/ \E s \in Stocks, n \in Lots : Buy(m, s, n) \/ Sell(m, s, n)
  \/ Record(m) \/ Paid(m) \/ Refused(m) \/ MarkExecuted(m)
  \/ Evict(m) \/ EvictFails(m) \/ Die(m)

Next ==
  \/ Tick
  \/ \E m \in Members : Trade(m) \/ GetPortfolio(m) \/ Fill(m) \/ Expire(m)

Spec == Init /\ [][Next]_vars

-----------------------------------------------------------------------------
(* The reports.                                                            *)

\* The forms in which a Decimal128 field arrives: as Mongoose reads it, as JSON
\* from Redis, or not at all.
Forms == {"Decimal128", "$numberDecimal"}
ToFloat(form, x) == IF form \in Forms THEN x ELSE 0

\* getPortfolioSummary: the positions with shares, each at the price of its
\* stock, which arrives in one form or the other.
TotalCurrentValue(m, form) ==
  SumFunction([s \in {s \in Stocks : shares[m][s] > 0} |->
                 shares[m][s] * ToFloat(form[s], PriceOf[s])])

\* The pipelines over positions with shares, joined to their stocks.
Holdings == {h \in Members \X Stocks : shares[h[1]][h[2]] > 0}
MarketValue(hs) == SumFunction([h \in hs |-> shares[h[1]][h[2]] * PriceOf[h[2]]])

\* The route of the wallet-service does not exist: its balances count as 0.
Aum == [walletBalances |-> 0, positionValues |-> MarketValue(Holdings),
        totalAum |-> MarketValue(Holdings)]

SectorAllocation ==
  [c \in {SectorOf[h[2]] : h \in Holdings} |->
     MarketValue({h \in Holdings : SectorOf[h[2]] = c})]

\* Mutant: the status is not matched.
OrdersInRange(s, from, to) ==
  {i \in DOMAIN orders :
     /\ from # None \/ to # None => orders[i].at # None
     /\ s # None => orders[i].stock = s
     /\ from # None => orders[i].at >= from
     /\ to # None => orders[i].at <= to}

\* $match of getTradingVolume, from and to included; None is a parameter that is
\* not given, or a stock id that is none.
ExecutedOrders(s, from, to) ==
  {i \in DOMAIN orders :
     /\ orders[i].status = "executed"
     /\ s # None => orders[i].stock = s
     /\ from # None => orders[i].at >= from
     /\ to # None => orders[i].at <= to}

SharesTraded(is) == SumFunction([i \in is |-> orders[i].lot])
TotalValue(is) == SumFunction([i \in is |-> orders[i].total])

Day(t) == t \div DayLength
Month(t) == Day(t) \div MonthLength
Period(granularity, t) == IF granularity = "month" THEN Month(t) ELSE Day(t)

\* One data point for each period with a trade.
TradingVolume(is, granularity) ==
  [g \in {Period(granularity, orders[i].at) : i \in is} |->
     LET group == {i \in is : Period(granularity, orders[i].at) = g}
     IN  [sharesTraded |-> SharesTraded(group), totalValue |-> TotalValue(group)]]

\* The groups of getTopStocks, which it sorts by tradeCount and pages.
TopStocks ==
  [s \in {orders[i].stock : i \in ExecutedOrders(None, None, None)} |->
     LET group == ExecutedOrders(s, None, None)
     IN  [tradeCount |-> Cardinality(group), totalVolume |-> SharesTraded(group)]]

-----------------------------------------------------------------------------
(* Properties.                                                             *)

\* Types.
TypeOK ==
  /\ clock \in 0 .. MaxTime
  /\ shares \in [Members -> [Stocks -> Nat]]
  /\ \A i \in DOMAIN orders : orders[i].status = "executed" <=> orders[i].at # None
  /\ \A m \in Members : trade[m].stage \in {"idle", "record", "pay", "mark", "evict"}
  /\ view \in [Members -> [Stocks -> Nat] \cup {None}]
  /\ reading \in [Members -> [Stocks -> Nat] \cup {None}]
  /\ late \subseteq Members /\ stale \subseteq Members
  /\ adrift \in [Members -> [Stocks -> Int]]

\* The members' portfolios, the assets under management and the sectors add up
\* to the same, in whatever form the prices reach them.
ValuesAgree ==
  /\ SumFunction(SectorAllocation) = Aum.positionValues
  /\ \A form \in [Stocks -> Forms] :
       SumFunction([m \in Members |-> TotalCurrentValue(m, form)]) = Aum.positionValues

Side(is, m, side) == {i \in is : orders[i].member = m /\ orders[i].side = side}

\* What the executed orders bought of a stock and did not sell differs from what
\* the members hold by exactly the lots of the trade that goes on and of those
\* that broke off: no other trade is on one side only, in whatever order
\* trades, refusals, rollbacks and deaths come.
OrdersExplainShares ==
  \A m \in Members, s \in Stocks :
    LET is == ExecutedOrders(s, None, None)
    IN  SharesTraded(Side(is, m, "buy")) + Added(trade[m], s) + adrift[m][s]
          = SharesTraded(Side(is, m, "sell")) + shares[m][s] + Taken(trade[m], s)

\* The volumes of days add up to those of their months, and those of the stocks
\* to the whole.  Two ranges that meet in an instant both have its orders, so
\* that whoever adds them up counts these twice.
VolumesAgree ==
  LET all == ExecutedOrders(None, None, None)
      daily == TradingVolume(all, "day")
      monthly == TradingVolume(all, "month")
  IN  /\ \A n \in DOMAIN monthly :
           monthly[n].totalValue
             = SumFunction([d \in {d \in DOMAIN daily : d \div MonthLength = n} |->
                              daily[d].totalValue])
      /\ \A t \in 0 .. MaxTime :
           TotalValue(ExecutedOrders(None, None, t)) + TotalValue(ExecutedOrders(None, t, None))
             = TotalValue(all) + TotalValue(ExecutedOrders(None, t, t))
      /\ SumFunction([s \in DOMAIN TopStocks |-> TopStocks[s].totalVolume])
           = SumFunction([n \in DOMAIN monthly |-> monthly[n].sharesTraded])

\* Reports computed at one moment contradict each other only by the trades that
\* are half done then (analytics.service.ts, position.service.ts).
ReportsAgree == ValuesAgree /\ OrdersExplainShares /\ VolumesAgree

\* A cached portfolio shows the shares that its member holds, except while a
\* trade is on its way, and for three reasons that last until the TTL: it was
\* read before a trade and stored after it, a sell was rolled back, which
\* deletes nothing, or the trade or its delete broke off.
PortfolioAgrees ==
  \A m \in Members : view[m] \in {None, shares[m]} \/ m \in stale \/ Moving(trade[m])
=============================================================================
