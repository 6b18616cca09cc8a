------------------------------ MODULE Analytics ------------------------------
(***************************************************************************)
(* Reports over the orders of a restaurant or of a customer:               *)
(* app/modules/analytics/service.py.                                       *)
(*                                                                         *)
(* A report loads the customer (a customer's report only), then the orders *)
(* of a range of days, then their items, each with a statement that sees   *)
(* what is committed by then; everything else is computed from those rows. *)
(* Days are numbers: day 0 is a Monday and the first of a month.           *)
(***************************************************************************)
EXTENDS Integers, FiniteSets, FiniteSetsExt

CONSTANTS
  Tickets,      \* orders of the one customer
  HouseOf,      \* the restaurant of each order
  Meals,        \* menu items
  Lines,        \* per order: the quantity of each menu item
  Price,        \* unit prices
  CategoryOf,   \* the category of each menu item
  Fee,          \* what an order's total adds to its subtotal
  MonthStarts,  \* the days that are the first of a month
  YearStart,    \* the first day of the year
  Todays,       \* the days on which reports are asked for
  OpenDays,     \* the earlier days on which orders were made
  LoyaltyRate   \* an order earns a point per so many units

ASSUME TicketsAssumption ==
  /\ IsFiniteSet(Tickets) /\ IsFiniteSet(Meals)
  /\ Lines \in [Tickets -> [Meals -> Nat]] /\ Price \in [Meals -> Nat] /\ Fee \in Nat
\* The calendar reaches back over the longest period and the month before.
ASSUME CalendarAssumption ==
  /\ Todays \subseteq Nat /\ OpenDays \subseteq Nat
  /\ IsFiniteSet(MonthStarts) /\ MonthStarts \subseteq Int /\ YearStart \in MonthStarts
  /\ \A d \in Todays : \E s, r \in MonthStarts : s < r /\ r <= d /\ s <= d - 29
  /\ LoyaltyRate \in Nat \ {0}

VARIABLES
  today,     \* the date of datetime.now(UTC)
  ticket,    \* the orders: their day and their status
  points,    \* loyalty_points_earned of the customer
  credit,    \* per order: the points that its delivery in flight has loaded
  lost,      \* history: a delivery wrote points over those of another one
  report     \* the report that is being made, and the rows it has read

reportVars == <<today, ticket, points, credit, lost, report>>

NoCredit == -1

\* _status_bucket: every other status is pending.
Buckets == {"pending", "delivered", "cancelled"}
NoTicket == [day |-> -1, bucket |-> "none"]
Ticket == {NoTicket} \cup [day : Nat, bucket : Buckets]

Periods == {"today", "yesterday", "last_7_days", "last_week", "last_30_days", "last_month", "this_year"}
Mine == "customer"
Scopes == {Mine} \cup {HouseOf[t] : t \in Tickets}

\* A row set: the orders that were selected, with the bucket each was in.
RowSets == UNION {[S -> Buckets] : S \in SUBSET Tickets}

\* "steady": no order was made or moved since the report began.
Report ==
  [at : {"none"}]
  \cup [at : {"asked", "orders", "done"}, scope : Scopes, period : Periods, lifetime : Nat,
        orders : RowSets, items : RowSets, steady : BOOLEAN]

NoReport == [at |-> "none"]
NoRows == [t \in {} |-> "pending"]

ReportTypeOK ==
  /\ today \in Todays
  /\ ticket \in [Tickets -> Ticket]
  /\ points \in Nat
  /\ credit \in [Tickets -> Nat \cup {NoCredit}]
  /\ lost \in BOOLEAN
  /\ report \in Report

-----------------------------------------------------------------------------
(* resolve_analytics_range *)

Weekday(d) == d % 7
FirstOfMonth(d) == Max({s \in MonthStarts : s <= d})

LastMonthRolling(d) == <<d - 30, d - 1>>
LastMonth(d) == LET last == FirstOfMonth(d) - 1 IN <<FirstOfMonth(last), last>>

DateRange(period, d) ==
  LET week == d - Weekday(d) IN
  CASE period = "today" -> <<d, d>>
    [] period = "yesterday" -> <<d - 1, d - 1>>
    [] period = "last_7_days" -> <<d - 6, d>>
    [] period = "last_week" -> <<week - 7, week - 1>>
    [] period = "last_30_days" -> <<d - 29, d>>
    [] period = "last_month" -> LastMonth(d)
    [] period = "this_year" -> <<YearStart, d>>

\* _date_range_days, between _start_of_day and _end_of_day
Days(w) == LET r == DateRange(w.period, today) IN r[1]..r[2]

-----------------------------------------------------------------------------
(* The rows *)

\* _load_order_rows, _load_item_rows
Selected(w) ==
  {t \in Tickets : ticket[t] # NoTicket /\ ticket[t].day \in Days(w) /\ w.scope \in {Mine, HouseOf[t]}}
BucketsOf(S) == [t \in S |-> ticket[t].bucket]

Subtotal(t) == SumFunction([i \in Meals |-> Price[i] * Lines[t][i]])
Total(t) == Subtotal(t) + Fee

AllocateLine(t, i) == Price[i] * Lines[t][i]

\* _allocate_item_spend: the line's share of the total, with its fees and
\* discounts; hundredths, cut off.
Allocate(t, i) ==
  LET line == 100 * Price[i] * Lines[t][i] IN
  IF Subtotal(t) > 0 THEN (Total(t) * line) \div Subtotal(t) ELSE line

Points(t) == Total(t) \div LoyaltyRate    \* calculate_loyalty_points

-----------------------------------------------------------------------------
(* The tables, from the rows *)

In(rows, b) == {t \in DOMAIN rows : rows[t] = b}
Spend(S) == 100 * SumFunction([t \in S |-> Total(t)])

\* _sum_orders and _build_status_breakdown
Summary(rows) == [b \in Buckets |-> [orders |-> Cardinality(In(rows, b)), spend |-> Spend(In(rows, b))]]

\* _build_daily_points_complete: a point per day of the range
Daily(rows, w) ==
  [d \in Days(w) |-> [b \in Buckets |-> Spend({t \in In(rows, b) : ticket[t].day = d})]]

\* the restaurants of _build_customer_breakdowns
ByHouse(rows) ==
  [h \in {HouseOf[t] : t \in DOMAIN rows} |->
     [b \in Buckets |-> Spend({t \in In(rows, b) : HouseOf[t] = h})]]

\* _build_item_breakdown by a key of the menu item
SpendOn(rows, b, S) ==
  SumFunction([t \in In(rows, b) |-> SumFunction([i \in S |-> Allocate(t, i)])])
ByMeal(rows) == [i \in Meals |-> [b \in Buckets |-> SpendOn(rows, b, {i})]]
ByCategory(rows) ==
  [c \in {CategoryOf[i] : i \in Meals} |->
     [b \in Buckets |-> SpendOn(rows, b, {i \in Meals : CategoryOf[i] = c})]]

PointsOf(S) == SumFunction([t \in S |-> Points(t)])
PointsOfAll(rows) == PointsOf(DOMAIN rows)
PointsInPeriod(rows) == PointsOf(In(rows, "delivered"))

-----------------------------------------------------------------------------
(* build_customer_analytics, build_merchant_analytics *)

\* The customer is loaded before the orders.  Reports share nothing, so that a
\* behaviour has one.
Ask(scope, period) ==
  /\ report = NoReport
  /\ report' = [at |-> "asked", scope |-> scope, period |-> period, lifetime |-> points,
                orders |-> NoRows, items |-> NoRows, steady |-> TRUE]
  /\ UNCHANGED <<today, ticket, points, credit, lost>>

LoadOrders ==
  /\ report.at = "asked"
  /\ report' = [report EXCEPT !.at = "orders", !.orders = BucketsOf(Selected(report))]
  /\ UNCHANGED <<today, ticket, points, credit, lost>>

LoadItems ==
  /\ report.at = "orders"
  /\ report' = [report EXCEPT !.at = "done", !.items = BucketsOf(Selected(report))]
  /\ UNCHANGED <<today, ticket, points, credit, lost>>

-----------------------------------------------------------------------------
(* Orders are made and move meanwhile. *)

Moved ==
  report' = IF report.at \in {"asked", "orders"} THEN [report EXCEPT !.steady = FALSE] ELSE report

MakeTicket(t) ==
  /\ ticket[t] = NoTicket
  /\ ticket' = [ticket EXCEPT ![t] = [day |-> today, bucket |-> "pending"]]
  /\ Moved
  /\ UNCHANGED <<today, points, credit, lost>>

\* apply_completed_order_loyalty loads the customer, and its sums are written
\* by the commit that delivers the order.
DeliverLoad(t) ==
  /\ ticket[t].bucket = "pending" /\ credit[t] = NoCredit
  /\ credit' = [credit EXCEPT ![t] = points]
  /\ UNCHANGED <<today, ticket, points, lost, report>>

DeliverTicket(t) ==
  /\ credit[t] # NoCredit /\ ticket[t].bucket = "pending"
  /\ ticket' = [ticket EXCEPT ![t].bucket = "delivered"]
  /\ points' = credit[t] + Points(t)
  /\ lost' = (lost \/ credit[t] # points)
  /\ credit' = [credit EXCEPT ![t] = NoCredit]
  /\ Moved
  /\ UNCHANGED today

CancelTicket(t) ==
  /\ ticket[t].bucket = "pending"
  /\ ticket' = [ticket EXCEPT ![t].bucket = "cancelled"]
  /\ Moved
  /\ UNCHANGED <<today, points, credit, lost>>

-----------------------------------------------------------------------------

ReportInit ==
  /\ today \in Todays
  /\ ticket \in [Tickets -> {NoTicket} \cup [day : {d \in OpenDays : d <= today}, bucket : Buckets]]
  /\ points = PointsOf({t \in Tickets : ticket[t].bucket = "delivered"})
  /\ credit = [t \in Tickets |-> NoCredit]
  /\ lost = FALSE
  /\ report = NoReport

ReportNext ==
  \/ \E scope \in Scopes, period \in Periods : Ask(scope, period)
  \/ LoadOrders \/ LoadItems
  \/ \E t \in Tickets : MakeTicket(t) \/ DeliverLoad(t) \/ DeliverTicket(t) \/ CancelTicket(t)

ReportSpec == ReportInit /\ [][ReportNext]_reportVars

-----------------------------------------------------------------------------
(* Properties *)

\* What a period means on the calendar, for a day that is not in the future.
Meant(period, d) ==
  LET month(n) == Cardinality({s \in MonthStarts : s <= n}) IN
  CASE period = "today" -> d = today
    [] period = "yesterday" -> d = today - 1
    [] period = "last_7_days" -> d > today - 7
    [] period = "last_week" -> d \div 7 = today \div 7 - 1
    [] period = "last_30_days" -> d > today - 30
    [] period = "last_month" -> month(d) = month(today) - 1
    [] period = "this_year" -> d >= YearStart

\* resolve_analytics_range: a report is about the days its label names, last
\* week a whole one and last month a whole one, and about the orders of those
\* days.
PeriodIsCalendar ==
  report.at # "none" =>
    /\ \A d \in Min(MonthStarts)..today : d \in Days(report) <=> Meant(report.period, d)
    /\ Days(report) \subseteq Min(MonthStarts)..today
    /\ \A t \in DOMAIN report.orders : Meant(report.period, ticket[t].day)

SumOf(table, b) == SumFunction([k \in DOMAIN table |-> table[k][b]])
Close(shares, whole, rows) ==
  shares <= whole /\ whole - shares <= Cardinality(Meals) * Cardinality(DOMAIN rows)

\* The tables of a report add up to its summary: by day and by restaurant
\* always, by item and by category when no order moved between the two reads
\* and no order was free of charge (_sum_orders, _allocate_item_spend).
ReportAddsUp ==
  report.at = "done" =>
    \A b \in Buckets :
      LET whole == Summary(report.orders)[b].spend IN
      /\ SumOf(Daily(report.orders, report), b) = whole
      /\ SumOf(ByHouse(report.orders), b) = whole
      /\ report.steady /\ (\A t \in DOMAIN report.items : Subtotal(t) > 0) =>
           /\ Close(SumOf(ByMeal(report.items), b), whole, report.items)
           /\ Close(SumOf(ByCategory(report.items), b), whole, report.items)

\* The points earned in a period are among those the customer ever earned,
\* when no order moved since the customer was loaded and no two deliveries
\* overlapped (build_customer_analytics, apply_completed_order_loyalty).
PointsWithinLifetime ==
  report.at = "done" /\ report.steady /\ report.scope = Mine /\ ~lost =>
    PointsInPeriod(report.orders) <= report.lifetime

\* A customer's or a restaurant's report is true to the calendar, to itself and
\* to the points of the account (build_merchant_analytics, build_customer_analytics).
ReportTrue == PeriodIsCalendar /\ ReportAddsUp /\ PointsWithinLifetime
=============================================================================
