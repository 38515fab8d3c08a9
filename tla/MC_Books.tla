------------------------------- MODULE MC_Books -------------------------------
(* From December to February: a year's end and the shortest month.           *)
(* Incomes, plans and bills meet in the entries and in the reports only, so a *)
(* behaviour keeps to one of the three.                                      *)
EXTENDS CashFlow

VARIABLE part

MCTemplate(kind, rec, months, day, start, end, card, paid) ==
  [kind |-> kind, recurrence |-> rec, months |-> months, day |-> day,
   start |-> start, end |-> end, card |-> card, paid |-> paid]

MCTemplates ==
  {MCTemplate("income", "monthly", {}, 28, Date(2026, 12, 20), NoDate, FALSE, TRUE),
   MCTemplate("income", "custom", {2}, 10, Date(2026, 2, 1), Date(2027, 3, 1), FALSE, TRUE),
   MCTemplate("expense", "quarterly", {}, 28, Date(2026, 11, 5), NoDate, TRUE, FALSE),
   MCTemplate("expense", "monthly", {}, 10, Date(2026, 12, 1), AddMonths(Date(2026, 12, 1), 1), FALSE, FALSE),
   MCTemplate("expense", "yearly", {}, 10, Date(2026, 2, 1), NoDate, TRUE, TRUE)}

MCDays == {Date(2026, 12, 31), Date(2027, 1, 15), Date(2027, 2, 28)}
MCEntryDates == {Date(2027, 1, 10), Date(2027, 2, 28)}
MCMonths == MonthOf(Date(2026, 12, 1)) .. MonthOf(Date(2027, 2, 1))
MCBillMonths == {MonthOf(Date(2027, 1, 1))}
MCStatements == {[due |-> MonthOf(Date(2027, 1, 1))]}
MCInstalments == {[first |-> MonthOf(Date(2026, 12, 1)), left |-> 2]}

MCInit == CashInit /\ part \in {"income", "expense", "bills"}
MCNext ==
  /\ UNCHANGED part
  /\ \/ /\ part # "bills" /\ \E i \in Definitions : KindOf(i) = part /\ DefinitionNext(i)
        /\ UNCHANGED billVars
     \/ /\ EntryNext({k \in EntryKinds : k.kind = part \/ (part = "bills" /\ k.kind = "expense")})
        /\ UNCHANGED billVars
     \/ part = "bills" /\ BillsNext
     \/ \E e \in Ids : DeleteLinkedEntry(e)
MCSpec == MCInit /\ [][MCNext]_<<vars, part>>
=============================================================================
