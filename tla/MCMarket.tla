------------------------------ MODULE MCMarket ------------------------------
(***************************************************************************)
(* Five parts around the market that share no state: price alerts, the     *)
(* stock catalogue, the reports on trades, the report on the growth of the *)
(* membership, and the listings.  A behaviour takes the steps of one of    *)
(* them, chosen in its first state.                                        *)
(***************************************************************************)
EXTENDS PriceAlerts

CONSTANTS acme, apex, high1, high2, low,
          Quoted, Catalogue, None, HistoryMax, Workers, StepsMayFail,
          Members, Watched, Held, SectorOf, PriceOf, Lots, MaxOrders, MaxTime, DayLength, MonthLength,
          MonthsShown, MaxMonth,
          Order, Limit, MaxDocs

VARIABLES focus,
          stock, history, entry, told, at, job, spoiled, misled,
          clock, shares, orders, trade, view, reading, late, stale, adrift,
          month, joined, stored, asked, pending, answers, before,
          kind, created, listed, walk, pageNo, cursor, items, total, found, counted,
          seen, old, left, torn

\* Two alerts above a price and one below a lower one.
MCTargetOf == [a \in Alerts |-> IF a = low THEN 1 ELSE 2]
MCAboveOf == [a \in Alerts |-> a # low]

\* Two stocks of two sectors are traded.
MCSectorOf == [s \in {acme, apex} |-> IF s = acme THEN "tech" ELSE "food"]
MCPriceOf == [s \in {acme, apex} |-> IF s = acme THEN 2 ELSE 3]

Catalog == INSTANCE StockService WITH Stocks <- Quoted
Reports == INSTANCE TradingReports WITH Stocks <- Held
Growth == INSTANCE MemberGrowth
Lists == INSTANCE Listings WITH page <- pageNo

ASSUME MarketAssumption ==
  /\ Catalog!StockAssumption /\ Reports!ReportAssumption
  /\ Growth!GrowthAssumption /\ Lists!ListingAssumption

stocks == <<stock, history, entry, told, at, job, spoiled, misled>>
trades == <<clock, shares, orders, trade, view, reading, late, stale, adrift>>
members == <<month, joined, stored, asked, pending, answers, before>>
lists == <<kind, created, listed, walk, pageNo, cursor, items, total, found, counted,
           seen, old, left, torn>>

MCInit ==
  /\ focus \in {"alerts", "stocks", "reports", "growth", "lists"}
  /\ Init /\ Catalog!Init /\ Reports!Init /\ Growth!Init /\ Lists!Init
  /\ focus # "lists" => kind = "cursor"

MCNext ==
  \/ focus = "alerts" /\ Next /\ UNCHANGED <<focus, stocks, trades, members, lists>>
  \/ focus = "stocks" /\ Catalog!Next /\ UNCHANGED <<focus, vars, trades, members, lists>>
  \/ focus = "reports" /\ Reports!Next /\ UNCHANGED <<focus, vars, stocks, members, lists>>
  \/ focus = "growth" /\ Growth!Next /\ UNCHANGED <<focus, vars, stocks, trades, lists>>
  \/ focus = "lists" /\ Lists!Next /\ UNCHANGED <<focus, vars, stocks, trades, members>>

MCSpec == MCInit /\ [][MCNext]_<<focus, vars, stocks, trades, members, lists>>

\* Types of all five (PriceAlerts, StockService, TradingReports, MemberGrowth,
\* Listings).
Typed ==
  CASE focus = "alerts" -> TypeOK
    [] focus = "stocks" -> Catalog!TypeOK
    [] focus = "reports" -> Reports!TypeOK
    [] focus = "growth" -> Growth!TypeOK
    [] focus = "lists" -> Lists!TypeOK

\* The copies in Redis of stocks (StockService) and of portfolios
\* (TradingReports) agree with the collections, but for the cases named there.
CachesAgree ==
  /\ focus = "stocks" => Catalog!CopiesAgree
  /\ focus = "reports" => Reports!PortfolioAgrees

\* Reports contradict each other, and the growth report itself, by no more than
\* what went on while they were computed (TradingReports, MemberGrowth).
ReportsAgree ==
  /\ focus = "reports" => Reports!ReportsAgree
  /\ focus = "growth" => Growth!GrowthAgrees

\* A walk through a listing shows what it promises (Listings).
WalkComplete == focus = "lists" => Lists!WalkComplete
=============================================================================
