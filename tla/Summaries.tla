----------------------------- MODULE Summaries -----------------------------
(***************************************************************************)
(* GET /dashboard/summary and GET /finance/summary: nine and seven SELECTs *)
(* over transactions, expenses, farmers and inventory, one after the other *)
(* and without a transaction, each about the day it runs on, while others  *)
(* write and the day may change.                                           *)
(*                                                                         *)
(* Time is counted in half days, so that noon and midnight are ticks.      *)
(***************************************************************************)
EXTENDS Integers, Sequences, FiniteSets, SequencesExt

CONSTANTS
    Record, Company,    \* rows, and the tenants they belong to
    Reader,         \* the tenant whose summary is read
    Amount,         \* amounts of sales, purchases and expenses
    Status,         \* the values of transactions.status that occur
    Clock,          \* bound: the ticks at which anything happens
    Date,           \* bound: the ticks that callers give as a date
    DaysPerMonth,   \* bound: days of the model's months
    SeriesDays,     \* 6 in the code: days of the series before today
    WeekDays,       \* 7 in the code
    TrendMonths,    \* 6 in the code
    None            \* no row

ASSUME SummariesAssumption ==
    /\ Reader \in Company /\ Amount \subseteq Nat /\ Clock \cup Date \subseteq Nat
    /\ Status \subseteq {"paid", "pending", "overdue"}
    /\ {DaysPerMonth, SeriesDays, WeekDays} \subseteq Nat \ {0}
    /\ TrendMonths \in Nat \ {0, 1}  \* last month is in the trend

VARIABLES
    rows,       \* the rows of the four tables
    now,        \* the time in half days
    reading,    \* the SELECTs that the request has before it, <<>> between requests
    figures,    \* what those behind it returned
    began, ended,   \* history: the days of the request's arrival and of its last SELECT
    added, changed  \* history: whether the reader's rows were added to, or changed, between

summaryVars == <<rows, now, reading, figures, began, ended, added, changed>>
request == <<reading, figures, began, ended>>

DashboardSelects ==
    <<"todayRevenue", "yesterdayRevenue", "activeOrders", "newOrdersSinceNoon", "lowStock",
      "activeFarmers", "newFarmers", "revenueSeries", "purchaseSeries">>

FinanceSelects ==
    <<"incomeMtd", "incomeLastMonth", "expensesMtd", "expensesLastMonth", "outstanding",
      "monthlyTrend", "expenseBreakdown">>

SummaryInit ==
    /\ rows = [i \in Record |-> None]
    /\ now \in Clock
    /\ reading = <<>> /\ figures = <<>>
    /\ began = 0 /\ ended = 0
    /\ added = FALSE /\ changed = FALSE

-----------------------------------------------------------------------------
(* The SELECTs, on the day they run and for the reader's rows.             *)

Day(tick) == tick \div 2
Afternoon(tick) == tick % 2 = 1
Today == Day(now)
Month(day) == day \div DaysPerMonth

\* FROM the table, WHERE tenant_id IS NOT DISTINCT FROM $1.
Of(kind) == {i \in Record : rows[i] # None /\ rows[i].kind = kind /\ rows[i].tenant = Reader}

Orders == Of("sale") \cup Of("purchase")

OnDay(ids, d) == {i \in ids : Day(rows[i].at) = d}
InMonth(ids, m) == {i \in ids : Month(Day(rows[i].at)) = m}
Since(ids, d) == {i \in ids : Day(rows[i].at) >= d}
Marked(ids, marks) == {i \in ids : rows[i].mark \in marks}

Total(ids) == SumFunction([i \in ids |-> rows[i].amount])

\* Mutant: the interval is forgotten.
SeriesStartNow == Today

\* Mutant: six days, today included.
SeriesStartToday == Today - SeriesDays + 1

SeriesStart == Today - SeriesDays

\* GROUP BY day: a day without rows is not there.  The answer has the totals
\* in the order of their days, and not the days.
Series(ids) ==
    [d \in {Day(rows[i].at) : i \in Since(ids, SeriesStart)} |-> Total(OnDay(ids, d))]

\* GROUP BY month of the rows since the same day TrendMonths months ago.
Trend ==
    LET recent(kind) == Since(Of(kind), Today - TrendMonths * DaysPerMonth)
    IN  [m \in {Month(Day(rows[i].at)) : i \in recent("sale") \cup recent("purchase")} |->
            [revenue |-> Total(InMonth(recent("sale"), m)),
             cost |-> Total(InMonth(recent("purchase"), m))]]

Category == {"feed", "Uncategorized"}

\* Mutant: WHERE category IS NOT NULL.
CategorizedOnly(ids) == Marked(ids, {"feed"})

\* COALESCE: rows without a category are a group too.
Categorized(ids) == Marked(ids, Category)

Breakdown ==
    LET expenses == Categorized(InMonth(Of("expense"), Month(Today)))
    IN  [c \in {rows[i].mark : i \in expenses} |-> Total(Marked(expenses, {c}))]

Select == [
    todayRevenue |-> Total(OnDay(Of("sale"), Today)),
    yesterdayRevenue |-> Total(OnDay(Of("sale"), Today - 1)),
    activeOrders |-> Cardinality(Marked(Orders, {"pending"})),
    newOrdersSinceNoon |-> Cardinality({i \in OnDay(Orders, Today) : Afternoon(rows[i].at)}),
    lowStock |-> Cardinality(Marked(Of("item"), {"low"})),
    activeFarmers |-> Cardinality(Of("farmer")),
    newFarmers |-> Cardinality(Since(Of("farmer"), Today - WeekDays)),
    revenueSeries |-> Series(Of("sale")),
    purchaseSeries |-> Series(Of("purchase")),
    incomeMtd |-> Total(InMonth(Of("sale"), Month(Today))),
    incomeLastMonth |-> Total(InMonth(Of("sale"), Month(Today) - 1)),
    expensesMtd |-> Total(InMonth(Of("expense"), Month(Today))),
    expensesLastMonth |-> Total(InMonth(Of("expense"), Month(Today) - 1)),
    outstanding |-> [total |-> Total(Marked(Orders, {"pending", "overdue"})),
                     count |-> Cardinality(Marked(Orders, {"pending", "overdue"}))],
    monthlyTrend |-> Trend,
    expenseBreakdown |-> Breakdown]

-----------------------------------------------------------------------------
(* Requests.                                                               *)

GetSummary ==
    /\ reading = <<>>
    /\ reading' \in {DashboardSelects, FinanceSelects}
    /\ figures' = <<>>
    /\ began' = Today /\ ended' = Today
    /\ added' = FALSE /\ changed' = FALSE
    /\ UNCHANGED <<rows, now>>

NextSelect ==
    /\ reading # <<>>
    /\ figures' = [f \in DOMAIN figures \cup {Head(reading)} |->
                      IF f = Head(reading) THEN Select[f] ELSE figures[f]]
    /\ reading' = Tail(reading)
    /\ ended' = Today
    /\ UNCHANGED <<rows, now, began, added, changed>>

\* A SELECT fails and with it the request.
SelectFails ==
    /\ reading # <<>>
    /\ reading' = <<>> /\ figures' = <<>>
    /\ UNCHANGED <<rows, now, began, ended, added, changed>>

-----------------------------------------------------------------------------
(* The other requests, and time.                                           *)

\* The marks of a row: transactions.status, expenses.category,
\* inventory.stock_status.
MarksOf(kind) ==
    CASE kind \in {"sale", "purchase"} -> Status
      [] kind = "expense" -> Category
      [] kind = "item" -> {"healthy", "low"}
      [] kind = "farmer" -> {"none"}

\* date can be given for transactions and expenses; created_at cannot.
DatesOf(kind) == IF kind \in {"sale", "purchase", "expense"} THEN Date \cup {now} ELSE {now}

AmountsOf(kind) == IF kind \in {"sale", "purchase", "expense"} THEN Amount ELSE {0}

AddRow ==
    \E i \in Record, kind \in {"sale", "purchase", "expense", "farmer", "item"}, tenant \in Company :
        /\ rows[i] = None
        /\ \E mark \in MarksOf(kind), at \in DatesOf(kind), amount \in AmountsOf(kind) :
               rows' = [rows EXCEPT ![i] = [kind |-> kind, tenant |-> tenant, at |-> at,
                                            mark |-> mark, amount |-> amount]]
        /\ added' = (added \/ (reading # <<>> /\ tenant = Reader))
        /\ UNCHANGED <<now, request, changed>>

NotesChange(i) == changed' = (changed \/ (reading # <<>> /\ rows[i].tenant = Reader))

\* PUT: status, category or stock, and amount; the date of an expense only.
ChangeRow ==
    \E i \in Record :
        /\ rows[i] # None
        /\ \E mark \in MarksOf(rows[i].kind), amount \in AmountsOf(rows[i].kind),
              at \in (IF rows[i].kind = "expense" THEN Date \cup {rows[i].at} ELSE {rows[i].at}) :
               rows' = [rows EXCEPT ![i].mark = mark, ![i].amount = amount, ![i].at = at]
        /\ NotesChange(i)
        /\ UNCHANGED <<now, request, added>>

RemoveRecord ==
    \E i \in Record :
        /\ rows[i] # None
        /\ rows' = [rows EXCEPT ![i] = None]
        /\ NotesChange(i)
        /\ UNCHANGED <<now, request, added>>

Tick ==
    /\ \E t \in Clock : t > now /\ now' = t
    /\ UNCHANGED <<rows, request, added, changed>>

SummaryNext ==
    \/ GetSummary \/ NextSelect \/ SelectFails
    \/ AddRow \/ ChangeRow \/ RemoveRecord \/ Tick

SummarySpec == SummaryInit /\ [][SummaryNext]_summaryVars

-----------------------------------------------------------------------------
(* Properties.                                                             *)

Answered(selects) == reading = <<>> /\ DOMAIN figures = ToSet(selects)

\* Nobody wrote in the reader's tenant, whatever others did, and no day ended.
Quiet == ~added /\ ~changed /\ began = ended

EntryOr0(f, x) == IF x \in DOMAIN f THEN f[x] ELSE 0

Revenue(m) == IF m \in DOMAIN figures.monthlyTrend THEN figures.monthlyTrend[m].revenue ELSE 0

\* The figures of a dashboard that nobody disturbed tell one story: today and
\* yesterday are in the series as they are in figures of their own.
QuietDashboard ==
    Answered(DashboardSelects) /\ Quiet =>
        /\ figures.todayRevenue = EntryOr0(figures.revenueSeries, ended)
        /\ figures.yesterdayRevenue = EntryOr0(figures.revenueSeries, ended - 1)
        /\ figures.newFarmers <= figures.activeFarmers

\* So do those of the finance summary: income and expenses are the trend's and
\* the breakdown's, although each SELECT has a period of its own.
QuietFinance ==
    Answered(FinanceSelects) /\ Quiet =>
        /\ figures.incomeMtd = Revenue(Month(ended))
        /\ figures.incomeLastMonth = Revenue(Month(ended) - 1)
        /\ figures.expensesMtd = SumFunction(figures.expenseBreakdown)

\* When rows are only added, and even if a day ends in between, the SELECTs
\* that run later do not know less than those before them.
LaterSelectsKnowMore ==
    /\ Answered(DashboardSelects) /\ ~changed /\ ended - began < SeriesDays =>
        /\ figures.todayRevenue <= SumFunction(figures.revenueSeries)
        /\ figures.yesterdayRevenue <= SumFunction(figures.revenueSeries)
    /\ Answered(FinanceSelects) /\ ~changed /\ Month(began) = Month(ended) =>
        /\ figures.incomeMtd <= Revenue(Month(ended))
        /\ figures.expensesMtd <= SumFunction(figures.expenseBreakdown)
=============================================================================
