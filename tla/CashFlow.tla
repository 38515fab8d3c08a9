------------------------------- MODULE CashFlow -------------------------------
(***************************************************************************)
(* The reports on the money of Cashbook and Bills: the yearly cash flow    *)
(* and the detail of its months (api/v1/cash_flow.py), the summaries of    *)
(* incomes, expenses and subscriptions, the forecast of planned expenses   *)
(* and the budget (api/v1/budget.py, services/budget_planner.py).          *)
(*                                                                         *)
(* A sum is the set of the items it is made of, since no two summands have *)
(* the same origin. Every report is a function of the state.               *)
(***************************************************************************)
EXTENDS Bills

CONSTANTS
  Statements,    \* credit_card_statements: their due months
  Instalments    \* credit_card_installments: first month to come, slices left

vars == <<cashVars, billVars>>

Item(what, id) == [what |-> what, id |-> id]
Items(what, ids) == {Item(what, x) : x \in ids}

Now == MonthOf(today)
IsCurrent(t) == t = Now
IsPast(t) == t <= Now            \* this month counts as past

\* The rows of a month, as WHERE date >= first AND date <= last finds them.
EntriesOf(kind, t) ==
  {e \in Ids : Saved(e) /\ entries[e].kind = kind
               /\ FirstDay(t) <= entries[e].date /\ entries[e].date <= LastDay(t)}

\* What was paid by card is in the card's statements.
NotDoubleCounted(e) == ~entries[e].card \/ ~entries[e].paid

-----------------------------------------------------------------------------
(* The year's table: get_cash_flow *)

\* _actual_income_by_month, _actual_expense_by_month: by year, then by the date's month.
OfYear(kind, y) ==
  {e \in Ids : Saved(e) /\ entries[e].kind = kind
               /\ Date(y, 1, 1) <= entries[e].date /\ entries[e].date <= Date(y, 12, 31)}
ActualIncome(t) == {e \in OfYear("income", YearOf(t)) : MonthOf(entries[e].date) = t}
ActualExpense(t) ==
  {e \in OfYear("expense", YearOf(t)) : NotDoubleCounted(e) /\ MonthOf(entries[e].date) = t}

\* _statement_by_month: due in the month.
StatementsOf(t) == {s \in Statements : s.due = t}

InstalmentsOf(t) == {q \in Instalments : InstallmentApplies(q, t)}

\* _applies_planned_in_month and _applies_recurring_income_in_month, copies of
\* applies_in_month.
AppliesPlanned(i, t) == Live(i) /\ AppliesIn(defs[i], t)
AppliesRecurringIncome(i, t) == Live(i) /\ AppliesIn(defs[i], t)

\* _recurring_income_by_month, _planned_by_month: a plan paid by card is left out.
RecurringIncomeOf(t) == {i \in RecurringIncomes : AppliesRecurringIncome(i, t)}
Eligible(i) == Live(i) /\ (~defs[i].card \/ ~defs[i].paid)
PlannedOf(t) == {i \in PlannedExpenses : Eligible(i) /\ AppliesPlanned(i, t)}

\* The bill of a month in its own currency, or the budget in the subscription's.
Charge(s, t) ==
  [of |-> s, currency |-> currency[IF t \in BillMonths /\ Issued(<<s, t>>) THEN <<s, t>> ELSE s]]

\* _subscription_by_month: from the subscription's start, the bill that is not paid, or
\* the budget of a month that has none.
BillExpected(s, t) ==
  /\ Has(s) /\ subs[s].active /\ t >= MonthOf(subs[s].start)
  /\ t \in BillMonths => ~Paid(<<s, t>>)
SubscriptionsOf(t) == {Charge(s, t) : s \in {x \in Subscriptions : BillExpected(x, t)}}

RealizedIn(i, t) == \E e \in EntriesOf(KindOf(i), t) : entries[e].of = i

\* mutant: what happened is expected as well
StillExpected_all(i, t) == <<i, t>> \notin skips
StillExpected(i, t) == ~RealizedIn(i, t) /\ <<i, t>> \notin skips

\* _pending_planned_for_month, _pending_recurring_income_for_month: what applies in this
\* month, has no occurrence in it and is not skipped.
PendingIncome == {i \in RecurringIncomeOf(Now) : StillExpected(i, Now)}
PendingPlanned == {i \in PlannedOf(Now) : StillExpected(i, Now)}

\* _forecast_for_month
IncomeForecast(t) ==
  Items("recurring", IF IsCurrent(t) THEN PendingIncome ELSE IF IsPast(t) THEN {} ELSE RecurringIncomeOf(t))
ExpenseForecast(t) ==
  IF IsPast(t) /\ ~IsCurrent(t) THEN {}
  ELSE Items("planned", IF IsCurrent(t) THEN PendingPlanned ELSE PlannedOf(t))
       \cup Items("instalment", InstalmentsOf(t)) \cup Items("bill", SubscriptionsOf(t))

\* _build_month_row
Row(t) ==
  [income  |-> Items("entry", ActualIncome(t)) \cup IncomeForecast(t),
   expense |-> Items("entry", ActualExpense(t)) \cup Items("statement", StatementsOf(t))
               \cup ExpenseForecast(t)]

-----------------------------------------------------------------------------
(* The detail of a month: get_cash_flow_month_detail *)

\* _realized_and_skipped_expense_ids, and the same two queries of incomes: of the
\* current month only.
RealizedOrSkipped(kind, t) ==
  IF IsCurrent(t)
  THEN {entries[e].of : e \in EntriesOf(kind, t)} \cup {i \in Definitions : <<i, t>> \in skips}
  ELSE {}

\* _income_items_for_month
IncomeItems(t) ==
  Items("entry", EntriesOf("income", t))
  \cup IF IsCurrent(t) \/ ~IsPast(t)
       THEN Items("recurring", {i \in RecurringIncomes : AppliesRecurringIncome(i, t)}
                               \ RealizedOrSkipped("income", t))
       ELSE {}

\* mutant: what is realised or skipped stays in the list of this month
PlannedItems_all(t) == {i \in PlannedExpenses : Eligible(i) /\ AppliesPlanned(i, t)}

\* _planned_forecast_items, _installment_forecast_items, _subscription_forecast_items
PlannedItems(t) ==
  {i \in PlannedExpenses : Eligible(i) /\ AppliesPlanned(i, t)} \ RealizedOrSkipped("expense", t)

InstallmentItems(t) == {q \in Instalments : InstallmentApplies(q, t)}
SubscriptionItems(t) ==
  {Charge(s, t) : s \in {x \in Subscriptions :
                            /\ Has(x) /\ subs[x].active /\ t >= MonthOf(subs[x].start)
                            /\ ~(t \in BillMonths /\ Paid(<<x, t>>))}}

\* _expense_items_for_month
ExpenseItems(t) ==
  Items("entry", {e \in EntriesOf("expense", t) : NotDoubleCounted(e)})
  \cup Items("statement", {s \in Statements : s.due = t})
  \cup IF IsCurrent(t) \/ ~IsPast(t)
       THEN Items("planned", PlannedItems(t)) \cup Items("instalment", InstallmentItems(t))
            \cup Items("bill", SubscriptionItems(t))
       ELSE {}

Detail(t) == [income |-> IncomeItems(t), expense |-> ExpenseItems(t)]

-----------------------------------------------------------------------------
(* The other reports *)

\* mutant: the summary has no filter
ExpenseSummary_all(t) == EntriesOf("expense", t)

\* What a month cost, by its dates: get_expense_summary, get_comparison,
\* _expense_actuals_month of the budget, and what _build_expense_data_summary tells the AI.
ExpenseSummary(t) == {e \in EntriesOf("expense", t) : NotDoubleCounted(e)}

\* _expense_actuals_year of the budget: the rows of a year, put into its months.
Grid(t) == {e \in OfYear("expense", YearOf(t)) : NotDoubleCounted(e) /\ MonthOf(entries[e].date) = t}

\* get_income_summary and _income_total_month.
IncomeSummary(t) == EntriesOf("income", t)

MonthsOf(y) == 12 * y .. 12 * y + 11

\* get_income_dashboard: what recurs in the year after the month asked for.
RemainingRecurring(t) ==
  {p \in RecurringIncomes \X MonthsOf(YearOf(t)) :
     Live(p[1]) /\ AppliesIn(defs[p[1]], p[2]) /\ p[2] > t}

\* get_forecast of the planned expenses: what falls in a month, whether it is realised
\* or skipped or neither.
PlannedForecast(t) == {i \in PlannedExpenses : Eligible(i) /\ AppliesIn(defs[i], t)}

\* subscription_summary converts each bill from the currency of its subscription, one
\* that is issued as well.
SummaryCharge(p) == [of |-> p[1], currency |-> currency[p[1]]]

\* mutant: this month's bill is left out when it is issued
SummaryBills_budget ==
  {p \in Subscriptions \X MonthsOf(YearOf(Now)) :
     /\ Has(p[1]) /\ subs[p[1]].active /\ p[2] >= Now /\ p[2] >= MonthOf(subs[p[1]].start)
     /\ ~(p[2] \in BillMonths /\ Issued(p))}

\* subscription_summary: the bills to come this year.
SummaryBills ==
  {p \in Subscriptions \X MonthsOf(YearOf(Now)) :
     /\ Has(p[1]) /\ subs[p[1]].active /\ p[2] >= Now /\ p[2] >= MonthOf(subs[p[1]].start)
     /\ ~(p[2] \in BillMonths /\ Paid(p))}

-----------------------------------------------------------------------------
(* In another currency: an item is valued at the rate of its own date ("then") or at
   today's ("now"). *)

At(rate, items) == {<<x, rate>> : x \in items}

\* _build_display_maps
DisplayRow(t) ==
  LET row == Row(t)
      actual == Items("entry", Ids)
  IN  [side \in {"income", "expense"} |->
         At("then", row[side] \cap actual) \cup At("now", row[side] \ actual)]

\* _fill_item_displays: at the rate of its date, when it has one; an entry's is the day
\* it happened, a statement's the day it falls due.
DisplayDetail(t) ==
  [side \in {"income", "expense"} |->
     {<<x, IF x.what \in {"entry", "statement"} THEN "then" ELSE "now">> : x \in Detail(t)[side]}]

-----------------------------------------------------------------------------
CashInit == Init /\ BillsInit

EntryKinds == {[kind |-> "income", card |-> FALSE, paid |-> TRUE],
               [kind |-> "expense", card |-> FALSE, paid |-> TRUE],
               [kind |-> "expense", card |-> TRUE, paid |-> TRUE],
               [kind |-> "expense", card |-> TRUE, paid |-> FALSE]}

DefinitionNext(i) ==
  \/ \E d \in Templates : d.kind = KindOf(i) /\ (CreateDefinition(i, d) \/ UpdateDefinition(i, d))
  \/ DeleteDefinition(i) \/ RealizePast(i)
  \/ \E t \in Months : Realize(i, t) \/ Unrealize(i, t) \/ CreateSkip(i, t) \/ DeleteSkip(i, t)

EntryNext(kinds) ==
  \/ \E k \in kinds, date \in EntryDates : CreateEntry(k.kind, date, k.card, k.paid)
  \/ \E k \in kinds, date \in EntryDates, e \in Ids :
       Saved(e) /\ k.kind = entries[e].kind /\ UpdateEntry(e, date, k.card, k.paid)
  \/ NextDay

CashNext ==
  \/ /\ (\E i \in Definitions : DefinitionNext(i)) \/ EntryNext(EntryKinds)
     /\ UNCHANGED billVars
  \/ BillsNext
  \/ \E e \in Ids : DeleteLinkedEntry(e)

CashSpec == CashInit /\ [][CashNext]_vars

-----------------------------------------------------------------------------
(* Properties *)

\* Type invariant.
TypeOK ==
  /\ today \in Days /\ made \in 0 .. MaxEntries
  /\ \A i \in Definitions : Live(i) => defs[i].kind = KindOf(i)
  /\ skips \subseteq Definitions \X Months
  /\ \A e \in Ids : Saved(e) =>
       /\ e <= made /\ entries[e].of \in Definitions \cup Bill \cup {None}
       /\ entries[e].of \in Definitions => entries[e].kind = KindOf(entries[e].of)
  /\ \A b \in Bill : Issued(b) => bills[b].expense \in 0 .. made

\* The list of what waits for the user's answer and the history of a definition, two
\* readings of the same tables, tell the same of every due period.
PendingAgrees ==
  \A i \in Definitions : Live(i) =>
    \A t \in DuePeriods(defs[i], today) \cap Months :
      <<i, t>> \in Pending <=> Status(i, t) = "pending"

\* The detail of a month adds up to the month's row in the year's table ("Toplamlar GET
\* /cash-flow ile bire bir tutar"), two computations from different queries.
DetailAgreesWithYear == \A t \in Months : Detail(t) = Row(t)

\* The same in another currency.
DisplayAgrees == \A t \in Months : DisplayDetail(t) = DisplayRow(t)

\* Every summary counts the same expenses and incomes as the cash flow.
SummariesAgree ==
  \A t \in Months :
    /\ ExpenseSummary(t) = ActualExpense(t) /\ Grid(t) = ActualExpense(t)
    /\ IncomeSummary(t) = ActualIncome(t)

Forecast(what, items) == {x.id : x \in {y \in items : y.what = what}}

\* Every forecast counts what the cash flow's does: of the months to come the plans and
\* the recurring incomes; of this month the plans that are left when what is realised or
\* skipped is taken out; and of both the bills, whatever their currency.
ForecastsAgree ==
  /\ \A t \in Months : t > Now => PlannedForecast(t) = Forecast("planned", ExpenseForecast(t))
  /\ {i \in PlannedForecast(Now) : StillExpected(i, Now)} = Forecast("planned", ExpenseForecast(Now))
  /\ \A t \in MonthsOf(YearOf(Now)) :
       /\ t >= Now => {s \in Subscriptions : <<s, t>> \in SummaryBills}
                        = {x.of : x \in Forecast("bill", ExpenseForecast(t))}
       /\ t > Now => {i \in RecurringIncomes : <<i, t>> \in RemainingRecurring(Now)}
                       = Forecast("recurring", IncomeForecast(t))

\* The summaries of a month and the forecasts count the entries, plans, incomes and bills
\* that the cash flow counts, and the two lists of what waits for the user's answer are
\* one, although each has queries and conditions of its own.
ReportsAgree == SummariesAgree /\ ForecastsAgree /\ PendingAgrees

\* In this month's row no definition is both what happened and what is expected.
CountedOnceNow ==
  \A i \in Definitions :
    Item(IF i \in PlannedExpenses THEN "planned" ELSE "recurring", i) \in Row(Now).expense \cup Row(Now).income
      => ~\E e \in ActualIncome(Now) \cup ActualExpense(Now) : entries[e].of = i

\* A period that is settled by realising the past leaves nothing to ask.
PastIsSettled ==
  [][\A i \in Definitions : RealizePast(i) => {p \in Pending' : p[1] = i} = {}]_vars

\* A definition is realised at most once in a month ("aynı dönem ikinci kez çağrılırsa
\* skip"), whatever is edited.
RealisedOncePerMonth ==
  \A e, f \in Ids :
    Saved(e) /\ Saved(f) /\ entries[e].of \in Definitions /\ entries[e].of = entries[f].of
    /\ MonthOf(entries[e].date) = MonthOf(entries[f].date) => e = f

\* The summary of subscriptions has the cash flow's bills in the cash flow's currency.
SummaryInBillsCurrency ==
  \A p \in SummaryBills : Item("bill", SummaryCharge(p)) \in ExpenseForecast(p[2])

\* A paid bill is an expense ("ödenmiş → 0 (actual'da)").
PaidIsActual == \A b \in Bill : Paid(b) => bills[b].expense # 0
=============================================================================
