------------------------------- MODULE Reports -------------------------------
(***************************************************************************)
(* admin-dashboard.service.ts and reports.service.ts: what the panel says  *)
(* of the sales.  Both only read, in several statements while orders are   *)
(* placed, delivered, cancelled and linked; the two of them compute by     *)
(* different ways.  A day is a number, of which multiples of 7 are Sundays *)
(* (lima-time.util.ts); an instant is a tick of a day.                     *)
(***************************************************************************)
EXTENDS Handlers, Integers, FiniteSetsExt, Functions

CONSTANTS
  SaleIds,      \* bound: orders ever placed
  Shoppers,     \* bound: customers ever registered
  Phones,
  Calendar,     \* days: numbers
  Totals,       \* what an order may cost
  Products,     \* an order is for one of them
  MonthStarts,  \* days that are the first of a month
  Ticks         \* bound: instants of a day

ASSUME ReportsAssumption ==
  /\ Ticks \in Nat \ {0} /\ Totals \subseteq Nat /\ MonthStarts \subseteq Nat
  /\ Calendar \subseteq Nat /\ Calendar # {} /\ IsFiniteSet(Calendar)
  /\ \A d \in Calendar : \E first \in MonthStarts : first <= d

VARIABLES
  clock,        \* the tick it is
  sales,        \* the table orders: id -> row
  shoppers,     \* the customers, in the order of their registration
  metrics       \* the request GET dashboard/metrics: its step and its reads

reportVars == <<clock, sales, shoppers, metrics>>

DayOfTick(t) == t \div Ticks
Today == DayOfTick(clock)
MondayOf(day) == day - ((day + 6) % 7)
FirstOfMonth(day) == Max({d \in MonthStarts : d <= day})

ReportsInit ==
  /\ clock = Ticks * Min(Calendar)
  /\ sales = <<>> /\ shoppers = <<>>
  /\ metrics = Waiting

(***************************************************************************)
(* What goes on meanwhile: see Orders for how.                             *)
(***************************************************************************)
Tick ==
  /\ DayOfTick(clock + 1) \in Calendar
  /\ clock' = clock + 1
  /\ UNCHANGED <<sales, shoppers, metrics>>

SignUp(phone) ==
  /\ Len(shoppers) < Cardinality(Shoppers)
  /\ shoppers' = Append(shoppers, [id |-> CHOOSE c \in Shoppers :
                                            \A i \in DOMAIN shoppers : shoppers[i].id # c,
                                   phone |-> phone, created |-> clock])
  /\ UNCHANGED <<clock, sales, metrics>>

(* By the app, or by the admin for a customer or for a phone.              *)
Sell(id, source, user, phone, total, item) ==
  /\ id \notin DOMAIN sales
  /\ user # None <=> phone = None
  /\ user # None => \E i \in DOMAIN shoppers : shoppers[i].id = user
  /\ source = "app" => user # None
  /\ sales' = Put(sales, id, [source |-> source, user |-> user, phone |-> phone,
                              total |-> total, item |-> item, status |-> "pendiente",
                              created |-> clock, delivered |-> None])
  /\ UNCHANGED <<clock, shoppers, metrics>>

Settle(id, status) ==
  /\ sales[id].status = "pendiente"
  /\ sales' = [sales EXCEPT ![id].status = status,
                 ![id].delivered = IF status = "entregado" THEN clock ELSE None]
  /\ UNCHANGED <<clock, shoppers, metrics>>

(* linkAnonymousOrders(): the phone of the order is the customer's.        *)
LinkSale(id, shopper) ==
  /\ sales[id].user = None /\ sales[id].phone = shopper.phone
  /\ sales' = [sales EXCEPT ![id].user = shopper.id]
  /\ UNCHANGED <<clock, shoppers, metrics>>

(***************************************************************************)
(* The statements.                                                         *)
(***************************************************************************)
Sold(from, to) == {s \in DOMAIN sales : DayOfTick(sales[s].created) \in from..to}
DeliveredSales(from, to) ==
  {s \in DOMAIN sales : /\ sales[s].delivered # None
                        /\ DayOfTick(sales[s].delivered) \in from..to}
Revenue(ids) == SumFunction([s \in ids |-> sales[s].total])
ChannelOf(s) == IF sales[s].source = "admin" THEN "phone" ELSE "app"
InChannel(ids, channel) == {s \in ids : ChannelOf(s) = channel}

(***************************************************************************)
(* The dashboard.                                                          *)
(***************************************************************************)
(* metrics(): today is read from the clock once; periodMetrics() counts,   *)
(* and then deliveredRevenue() adds up.                                    *)
From(period, today) ==
  CASE period = "today" -> today
    [] period = "week" -> MondayOf(today)
    [] period = "month" -> FirstOfMonth(today)

StartMetrics ==
  /\ metrics.step \in {"waiting", "done"}
  /\ metrics' = [step |-> "counts", today |-> Today, period |-> "today", read |-> <<>>]
  /\ UNCHANGED <<clock, sales, shoppers>>

CountPeriod ==
  LET sold == Sold(From(metrics.period, metrics.today), metrics.today) IN
  /\ metrics.step = "counts"
  /\ metrics' = [metrics EXCEPT !.step = "revenue",
       !.read = Put(@, metrics.period,
                    [app |-> Cardinality(InChannel(sold, "app")),
                     phone |-> Cardinality(InChannel(sold, "phone")),
                     revenue |-> 0])]
  /\ UNCHANGED <<clock, sales, shoppers>>

PeriodAfter(period) ==
  CASE period = "today" -> "week" [] period = "week" -> "month" [] period = "month" -> "none"

(* Mutant: an order counts on the day it was placed.                       *)
RevenueBySale(from, to) == Revenue({s \in Sold(from, to) : sales[s].delivered # None})

DeliveredRevenue(from, to) == Revenue(DeliveredSales(from, to))

SumRevenue ==
  LET period == metrics.period
      after == PeriodAfter(period)
  IN
  /\ metrics.step = "revenue"
  /\ metrics' = [metrics EXCEPT
       !.step = IF after = "none" THEN "customers" ELSE "counts",
       !.period = after,
       !.read[period].revenue =
          DeliveredRevenue(From(period, metrics.today), metrics.today)]
  /\ UNCHANGED <<clock, sales, shoppers>>

(* newCustomersByDay(): how many registered on every day of the range.     *)
NewCustomers(dates) ==
  [d \in dates |-> Cardinality({i \in DOMAIN shoppers : DayOfTick(shoppers[i].created) = d})]

CountNewCustomers ==
  LET days == From("month", metrics.today)..metrics.today IN
  /\ metrics.step = "customers"
  /\ metrics' = [metrics EXCEPT !.step = "done",
       !.read = Put(@, "customers", SumFunction(NewCustomers(days)))]
  /\ UNCHANGED <<clock, sales, shoppers>>

(* revenueTrend(): two GROUP BY, for every day of the range.               *)
RevenueTrend(dates) ==
  [d \in dates |-> [revenue |-> DeliveredRevenue(d, d),
                    phone |-> Cardinality(InChannel(Sold(d, d), "phone")),
                    app |-> Cardinality(InChannel(Sold(d, d), "app"))]]

(* topProducts(), before its limit: units by product.                      *)
TopProducts(from, to) ==
  [p \in {sales[s].item : s \in DeliveredSales(from, to)} |->
     Cardinality({s \in DeliveredSales(from, to) : sales[s].item = p})]

(***************************************************************************)
(* The reports.                                                            *)
(***************************************************************************)
(* Mutant: a customer without an account is one of its own.                *)
PhoneItself(s) == IF sales[s].user # None THEN sales[s].user ELSE sales[s].phone

(* customerResolver(): the oldest account of the phone, or the phone.      *)
CustomerOf(s) ==
  LET same == {i \in DOMAIN shoppers : shoppers[i].phone = sales[s].phone} IN
  IF sales[s].user # None THEN sales[s].user
  ELSE IF same # {} THEN shoppers[Min(same)].id
  ELSE sales[s].phone

(* aggregate(), of one channel or of both.                                 *)
Aggregate(ids) ==
  [revenue |-> Revenue(ids), orders |-> Cardinality(ids),
   customers |-> {CustomerOf(s) : s \in ids}]

ByChannel(ids) ==
  [all |-> Aggregate(ids), app |-> Aggregate(InChannel(ids, "app")),
   phone |-> Aggregate(InChannel(ids, "phone"))]

CalendarDatesBetween(from, to) == from..to

PeriodOf(groupBy, day) ==
  CASE groupBy = "day" -> day
    [] groupBy = "week" -> MondayOf(day)
    [] groupBy = "month" -> FirstOfMonth(day)

(* summary(); dailyMetrics() is the one by day.  An order whose period is  *)
(* not one of the keys is dropped.                                         *)
Summary(from, to, groupBy) ==
  LET ids == DeliveredSales(from, to)
      periods == {PeriodOf(groupBy, d) : d \in CalendarDatesBetween(from, to)}
  IN [totals |-> ByChannel(ids),
      data |-> [p \in periods |->
        ByChannel({s \in ids : PeriodOf(groupBy, DayOfTick(sales[s].delivered)) = p})]]

(* createdOrdersByStatus(): any other status is still in progress.         *)
StatusOf(day) ==
  [status \in {"entregado", "cancelado", "pendiente"} |->
     Cardinality({s \in Sold(day, day) : sales[s].status = status})]

(* percentChange(), in tenths: null if there was nothing before.           *)
PercentChange(current, previous) ==
  IF previous = 0 THEN None
  ELSE (2000 * (current - previous) + previous) \div (2 * previous)

(* comparison(): two periods, from two reads.                              *)
Comparison(current, previous) ==
  LET cur == Aggregate(DeliveredSales(current[1], current[2]))
      prev == Aggregate(DeliveredSales(previous[1], previous[2]))
  IN [current |-> cur, previous |-> prev,
      change |-> PercentChange(cur.revenue, prev.revenue)]

(* topProducts() of the reports: units by product and channel.             *)
ReportTopProducts(from, to) ==
  [p \in {sales[s].item : s \in DeliveredSales(from, to)} |->
     [c \in {"app", "phone"} |->
        Cardinality({s \in InChannel(DeliveredSales(from, to), c) : sales[s].item = p})]]

(* conversion(): for a customer with an account, the first order by phone  *)
(* of the range, and the first by app after it, however late.              *)
Conversion(from, to) ==
  LET byPhone == InChannel(DeliveredSales(from, to), "phone")
      firstOf(c) == Min({sales[s].delivered : s \in {o \in byPhone : CustomerOf(o) = c}})
      later(c) == {s \in DOMAIN sales : /\ sales[s].source = "app" /\ sales[s].user = c
                                        /\ sales[s].delivered # None
                                        /\ sales[s].delivered > firstOf(c)}
      customers == {CustomerOf(s) : s \in byPhone}
  IN [customers |-> customers,
      timeline |-> [c \in {d \in customers : later(d) # {}} |->
                      <<firstOf(c), Min({sales[s].delivered : s \in later(c)})>>]]

ReportsNext ==
  \/ Tick \/ StartMetrics \/ CountPeriod \/ SumRevenue \/ CountNewCustomers
  \/ \E phone \in Phones : SignUp(phone)
  \/ \E id \in SaleIds, source \in {"app", "admin"}, user \in Shoppers \cup {None},
        phone \in Phones \cup {None}, total \in Totals, item \in Products :
       Sell(id, source, user, phone, total, item)
  \/ \E id \in DOMAIN sales :
       \/ Settle(id, "entregado") \/ Settle(id, "cancelado")
       \/ \E i \in DOMAIN shoppers : LinkSale(id, shoppers[i])

(***************************************************************************)
(* Properties.                                                             *)
(***************************************************************************)
(* admin-dashboard.service.ts:130: the figures of today are never more than*)
(* those of the week or of the month of the same answer, whatever happens  *)
(* between the six statements that read them.                              *)
MetricsNest ==
  metrics.step = "done" =>
    \A longer \in {"week", "month"}, f \in {"app", "phone", "revenue"} :
      metrics.read["today"][f] <= metrics.read[longer][f]

Ranges == {r \in Calendar \X Calendar : r[1] <= r[2]}

(* reports.service.ts:248 "Todos los periodos del rango": the periods of a *)
(* report add up to its totals, and so do the channels; a customer of both *)
(* is one, and one who bought in a period is one of the whole.             *)
SummaryAddsUp ==
  \A r \in Ranges, groupBy \in {"day", "week", "month"} :
    LET report == Summary(r[1], r[2], groupBy)
        total == report.totals
    IN /\ total.all.orders =
            SumFunction([p \in DOMAIN report.data |-> report.data[p].all.orders])
       /\ total.all.revenue = total.app.revenue + total.phone.revenue
       /\ total.all.customers = total.app.customers \cup total.phone.customers
       /\ total.all.customers = UNION {report.data[p].all.customers : p \in DOMAIN report.data}

(* reports.service.ts:219 "igual que el dashboard": the dashboard and the  *)
(* reports, each with its own queries, agree on every range, and so do the *)
(* orders of a day by status and by channel.                               *)
PanelsAgree ==
  \A r \in Ranges :
    LET report == Summary(r[1], r[2], "day")
        trend == RevenueTrend(r[1]..r[2])
        top == TopProducts(r[1], r[2])
        byChannel == ReportTopProducts(r[1], r[2])
    IN /\ report.totals.all.revenue = DeliveredRevenue(r[1], r[2])
       /\ \A d \in DOMAIN trend : report.data[d].all.revenue = trend[d].revenue
       /\ \A d \in DOMAIN trend :
            trend[d].app + trend[d].phone = SumFunction(StatusOf(d))
       /\ \A p \in DOMAIN top : top[p] = byChannel[p]["app"] + byChannel[p]["phone"]
       /\ Comparison(<<r[1], r[1]>>, r).previous.revenue = report.totals.all.revenue

(* reports.service.ts:580 "igual que la vinculacion de anonimos": to link  *)
(* an order to its customer changes nothing in who is said to have bought, *)
(* nor in who has come from the phone to the app, if no other account has  *)
(* the phone.                                                              *)
LinkingKeepsCustomers ==
  [][(\E s \in DOMAIN sales : sales[s].user = None /\ sales'[s].user # None)
       /\ (\A i, j \in DOMAIN shoppers : i # j => shoppers[i].phone # shoppers[j].phone) =>
     \A r \in Ranges :
       /\ Summary(r[1], r[2], "day") = Summary(r[1], r[2], "day")'
       /\ Conversion(r[1], r[2]) = Conversion(r[1], r[2])']_reportVars

(* reports.service.ts:211: once there is a sale, the figures of the        *)
(* dashboard and of the reports are those of one shop.  The reports depend *)
(* on no metrics: they are compared while none are being asked for.        *)
ReportsAgree ==
  sales # <<>> =>
    /\ MetricsNest
    /\ metrics = Waiting => SummaryAddsUp /\ PanelsAgree

=============================================================================
