------------------------------- MODULE Cashbook -------------------------------
(***************************************************************************)
(* The incomes and expenses of one user, and the periodic definitions they *)
(* are realised from (api/v1/income.py, expenses.py, planned_expenses.py,  *)
(* recurring.py).                                                          *)
(*                                                                         *)
(* Amounts, categories and currencies are left out. A request is one step: *)
(* the unique index on an occurrence's definition and date decides between *)
(* two that realise the same period, and one that realises by a definition *)
(* edited meanwhile does what it would have done before the edit.          *)
(***************************************************************************)
EXTENDS Recurrence, FiniteSets, TLC

CONSTANTS
  RecurringIncomes, PlannedExpenses,  \* ids of the two tables of definitions
  None,                               \* no link
  Templates,                          \* what a definition can say
  Days,                               \* bound: the days on which something happens
  EntryDates,                         \* bound: the dates a user types
  Months,                             \* bound: the months a user asks for
  MaxEntries                          \* bound: entries saved

VARIABLES
  today,
  defs,      \* recurring_incomes and planned_expenses, by id
  entries,   \* incomes and expenses, by id
  skips,     \* recurring_skips: a definition and a month
  made       \* the entry id given out last

cashVars == <<today, defs, entries, skips, made>>

Ids == 1 .. MaxEntries
Definitions == RecurringIncomes \cup PlannedExpenses
Nothing == [kind |-> "nothing"]
NotYet == [kind |-> "not yet"]      \* an id no definition was given so far
Gone == [kind |-> "gone"]           \* the definition was deleted; ids are not reused

\* What a definition can say, as the checks of both schemas allow it.
Definition ==
  [kind : {"income", "expense"}, recurrence : Recurrences, months : SUBSET Int, day : 1 .. 28,
   start : Int, end : Int, card : BOOLEAN, paid : BOOLEAN]

\* The two tables have ids of their own, and no id stands for no link.
ASSUME IdAssumption ==
  RecurringIncomes \cap PlannedExpenses = {} /\ None \notin Definitions

ASSUME BoundAssumption == MaxEntries \in Nat

ASSUME CalendarAssumption ==
  /\ Templates \subseteq Definition /\ Days \subseteq Int /\ Months \subseteq Int
  /\ \A date \in EntryDates : IsDate(date)

KindOf(i) == IF i \in RecurringIncomes THEN "income" ELSE "expense"
Live(i) == defs[i] \notin {NotYet, Gone}
Saved(e) == entries[e] # Nothing

Init ==
  /\ today \in {x \in Days : \A y \in Days : x <= y}
  /\ defs = [i \in Definitions |-> NotYet] /\ skips = {}
  /\ entries = [e \in Ids |-> Nothing] /\ made = 0

-----------------------------------------------------------------------------
(* The definitions *)

CreateDefinition(i, d) ==
  /\ defs[i] = NotYet /\ defs' = [defs EXCEPT ![i] = d]
  /\ UNCHANGED <<today, entries, skips, made>>

\* An update writes what it is given. A null leaves the end as it was; only a card
\* can be cleared.
UpdateDefinition(i, d) ==
  /\ Live(i)
  /\ defs' = [defs EXCEPT ![i] = [d EXCEPT !.end = IF d.end = NoDate THEN defs[i].end ELSE d.end]]
  /\ UNCHANGED <<today, entries, skips, made>>

\* ON DELETE SET NULL takes the link from the occurrences; the skips stay.
DeleteDefinition(i) ==
  /\ Live(i) /\ defs' = [defs EXCEPT ![i] = Gone]
  /\ entries' = [e \in Ids |-> IF Saved(e) /\ entries[e].of = i
                               THEN [entries[e] EXCEPT !.of = None] ELSE entries[e]]
  /\ UNCHANGED <<today, skips, made>>

-----------------------------------------------------------------------------
(* The occurrences *)

OccursOn(i, date) == \E e \in Ids : Saved(e) /\ entries[e].of = i /\ entries[e].date = date

\* An occurrence of an income is an income; one of a plan is an expense of the plan's
\* card, paid.
Occurrence(i, date) ==
  [kind |-> KindOf(i), of |-> i, date |-> date, card |-> defs[i].card, paid |-> TRUE]

Add(rows) == [e \in Ids |-> IF e \in DOMAIN rows THEN rows[e] ELSE entries[e]]

\* The tests of _realize_one and _realize_one_expense: the period applies, its day
\* has come, and no occurrence has that date.
Due(i, t) == AppliesIn(defs[i], t) /\ DateFor(defs[i], t) <= today
ToRealize(i, months) ==
  {date \in {DateFor(defs[i], t) : t \in {u \in months : Due(i, u)}} : ~OccursOn(i, date)}

RealizeAll(i, months) ==
  LET dates == ToRealize(i, months)
      id(date) == made + Cardinality({x \in dates : x <= date})
      rows == [e \in {id(date) : date \in dates} |->
                 Occurrence(i, CHOOSE date \in dates : id(date) = e)]
  IN  /\ made + Cardinality(dates) <= MaxEntries
      /\ made' = made + Cardinality(dates) /\ entries' = Add(rows)
      /\ UNCHANGED <<today, defs, skips>>

\* realize: 422 for a month outside the recurrence or a day to come; nothing for a
\* period that is realised. A skip is not looked at.
Realize(i, t) == Live(i) /\ Due(i, t) /\ RealizeAll(i, {t})

\* mutant: the month of today is not looked at
PastMonths_short(i) == MonthOf(defs[i].start) .. MonthOf(today) - 1
PastMonths(i) == MonthOf(defs[i].start) .. MonthOf(today)

\* realize-past: every month from the start to today's.
RealizePast(i) == Live(i) /\ RealizeAll(i, PastMonths(i))

\* unrealize deletes the occurrence that has the period's date.
Unrealize(i, t) ==
  /\ Live(i)
  /\ entries' = [e \in Ids |-> IF Saved(e) /\ entries[e].of = i /\ entries[e].date = DateFor(defs[i], t)
                               THEN Nothing ELSE entries[e]]
  /\ UNCHANGED <<today, defs, skips, made>>

CreateSkip(i, t) ==
  Live(i) /\ skips' = skips \cup {<<i, t>>} /\ UNCHANGED <<today, defs, entries, made>>
DeleteSkip(i, t) ==
  <<i, t>> \in skips /\ skips' = skips \ {<<i, t>>} /\ UNCHANGED <<today, defs, entries, made>>

-----------------------------------------------------------------------------
(* The entries *)

CreateEntry(kind, date, card, paid) ==
  /\ made < MaxEntries /\ made' = made + 1
  /\ entries' = Add([e \in {made'} |->
                      [kind |-> kind, of |-> None, date |-> date, card |-> card, paid |-> paid]])
  /\ UNCHANGED <<today, defs, skips>>

\* Any field of an entry can be changed, the link to its definition excepted. The
\* unique index refuses a date another occurrence of the definition has.
UpdateEntry(e, date, card, paid) ==
  /\ Saved(e)
  /\ entries[e].of \in Definitions /\ date # entries[e].date => ~OccursOn(entries[e].of, date)
  /\ entries' = [entries EXCEPT ![e] = [kind |-> @.kind, of |-> @.of, date |-> date,
                                             card |-> card, paid |-> paid]]
  /\ UNCHANGED <<today, defs, skips, made>>

\* ON DELETE SET NULL takes the link to it from a bill: see Bills.
DeleteEntry(e) ==
  /\ Saved(e) /\ entries' = [entries EXCEPT ![e] = Nothing]
  /\ UNCHANGED <<today, defs, skips, made>>

NextDay ==
  /\ today' \in {x \in Days : x > today /\ \A y \in Days : y > today => x <= y}
  /\ UNCHANGED <<defs, entries, skips, made>>

-----------------------------------------------------------------------------
(* What the user is asked about *)

\* get_pending: the periods that are due, not realised and not skipped.
Pending ==
  {p \in Definitions \X Months :
     /\ Live(p[1]) /\ p[2] \in DuePeriods(defs[p[1]], today)
     /\ ~OccursOn(p[1], DateFor(defs[p[1]], p[2])) /\ p \notin skips}

\* mutant: a period that was skipped is still asked about
Status_asked(i, t) == IF OccursOn(i, DateFor(defs[i], t)) THEN "realized" ELSE "pending"

\* periods: the state of a due period.
Status(i, t) ==
  IF OccursOn(i, DateFor(defs[i], t)) THEN "realized"
  ELSE IF <<i, t>> \in skips THEN "skipped" ELSE "pending"
=============================================================================
