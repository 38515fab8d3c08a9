---------------------------- MODULE CashFlowProofs ----------------------------
(***************************************************************************)
(* Theorems about the reports and the bills, for any definitions, days and *)
(* entries.                                                                *)
(***************************************************************************)
EXTENDS CashFlow, FiniteSetTheorems, TLAPS

(* A row of an entry: its date is one of the calendar, and it is of its    *)
(* definition's kind.                                                      *)
EntryRow ==
    {r \in [kind : {"income", "expense"}, of : Definitions \cup Bill \cup {None},
            date : Int, card : BOOLEAN, paid : BOOLEAN] :
        IsDate(r.date) /\ (r.of \in Definitions => r.kind = KindOf(r.of))}

Payment == [step : {"read", "lost"}, bill : Bill, card : BOOLEAN]

(* What the rows of the tables say.                                        *)
RowsInv ==
    /\ today \in Days
    /\ defs \in [Definitions -> {NotYet, Gone} \cup Definition]
    /\ entries \in [Ids -> {Nothing} \cup EntryRow]
    /\ paying \in [Payers -> {Quiet} \cup Payment]

-----------------------------------------------------------------------------
(* Dates *)

(* A date that falls in a month is between the first and the last day of   *)
(* that month and of its year, and no other is.                            *)
LEMMA DateInMonth ==
    ASSUME NEW d, IsDate(d), NEW t \in Int
    PROVE  /\ FirstDay(t) <= d /\ d <= LastDay(t) <=> MonthOf(d) = t
           /\ MonthOf(d) = t => /\ Date(YearOf(t), 1, 1) <= d
                                /\ d <= Date(YearOf(t), 12, 31)
  <1> DEFINE len == MonthLength(t)
  <1>1. len \in 28..31 BY DEF MonthLength
  <1>2. MonthLength(MonthOf(d)) \in 28..31 BY DEF MonthLength
  <1>3. d \in Int BY DEF IsDate
  <1>4. MonthOf(d) \in Int BY <1>3 DEF MonthOf
  <1>5. ASSUME FirstDay(t) <= d, d <= LastDay(t) PROVE MonthOf(d) = t
    <2>1. 100 * t + 1 <= d /\ d <= 100 * t + 31
      BY <1>1, <1>3, <1>5 DEF FirstDay, LastDay
    <2> QED BY <2>1, <1>3 DEF MonthOf
  <1>6. ASSUME MonthOf(d) = t
        PROVE  FirstDay(t) <= d /\ d <= LastDay(t)
    BY <1>6 DEF IsDate
  <1>7. ASSUME MonthOf(d) = t
        PROVE  Date(YearOf(t), 1, 1) <= d /\ d <= Date(YearOf(t), 12, 31)
    <2>1. 100 * t + 1 <= d /\ d <= 100 * t + 31
      BY <1>1, <1>3, <1>6, <1>7 DEF FirstDay, LastDay
    <2>2. 12 * YearOf(t) <= t /\ t <= 12 * YearOf(t) + 11 /\ YearOf(t) \in Int
      BY DEF YearOf
    <2> QED BY <2>1, <2>2, <1>3 DEF Date
  <1> QED BY <1>5, <1>6, <1>7

(* The day a definition falls on in a month is a date of that month.       *)
LEMMA DateOfPeriod ==
    ASSUME NEW d \in Definition, NEW t \in Int
    PROVE  IsDate(DateFor(d, t))
  <1> DEFINE len == MonthLength(t)
             day == IF d.day <= len THEN d.day ELSE len
  <1>1. len \in 28..31 BY DEF MonthLength
  <1>2. d.day \in 1..28 BY DEF Definition
  <1>3. day \in 1..28 /\ day <= len BY <1>1, <1>2
  <1>4. DateFor(d, t) = 100 * t + day BY DEF DateFor
  <1> HIDE DEF day
  <1>5. MonthOf(100 * t + day) = t BY <1>3 DEF MonthOf
  <1>6. 100 * t + day \in Int BY <1>3
  <1>7. FirstDay(t) <= 100 * t + day BY <1>3 DEF FirstDay
  <1>8. 100 * t + day <= LastDay(t) BY <1>1, <1>3 DEF LastDay
  <1> QED BY <1>4, <1>5, <1>6, <1>7, <1>8 DEF IsDate

-----------------------------------------------------------------------------
(* The rows of the tables *)

(* An entry that occurs of a definition is a row of its kind.              *)
LEMMA OccurrenceIsRow ==
    ASSUME RowsInv, NEW i \in Definitions, Live(i), NEW date, IsDate(date)
    PROVE  Occurrence(i, date) \in EntryRow
  <1>1. defs[i] \in Definition BY DEF RowsInv, Live
  <1>2. defs[i].card \in BOOLEAN BY <1>1 DEF Definition
  <1>3. KindOf(i) \in {"income", "expense"} BY DEF KindOf
  <1>4. date \in Int BY DEF IsDate
  <1> QED BY <1>2, <1>3, <1>4 DEF Occurrence, EntryRow

(* Rows that are added are rows.                                           *)
LEMMA AddedRows ==
    ASSUME RowsInv, NEW rows, \A e \in DOMAIN rows : rows[e] \in EntryRow
    PROVE  Add(rows) \in [Ids -> {Nothing} \cup EntryRow]
  BY DEF RowsInv, Add

(* Realising a definition adds rows of it.                                 *)
LEMMA RealizeKeepsRows ==
    ASSUME RowsInv, NEW i \in Definitions, Live(i), NEW months \in SUBSET Int,
           RealizeAll(i, months)
    PROVE  /\ entries' \in [Ids -> {Nothing} \cup EntryRow]
           /\ \A e \in Ids : entries'[e] = entries[e] \/ entries'[e].of = i
  <1> DEFINE dates == ToRealize(i, months)
             id(date) == made + Cardinality({x \in dates : x <= date})
             rows == [e \in {id(date) : date \in dates} |->
                        Occurrence(i, CHOOSE date \in dates : id(date) = e)]
  <1>1. entries' = Add(rows) BY DEF RealizeAll
  <1>2. \A date \in dates : IsDate(date)
    <2>1. defs[i] \in Definition BY DEF RowsInv, Live
    <2> QED BY <2>1, DateOfPeriod DEF ToRealize
  <1>3. ASSUME NEW e \in DOMAIN rows
        PROVE  rows[e] \in EntryRow /\ rows[e].of = i
    <2> DEFINE date == CHOOSE x \in dates : id(x) = e
    <2>1. rows[e] = Occurrence(i, date) OBVIOUS
    <2>2. date \in dates
      <3> HIDE DEF dates, id
      <3>1. \E x \in dates : id(x) = e OBVIOUS
      <3> QED BY <3>1
    <2> HIDE DEF date, rows, dates
    <2>3. IsDate(date) BY <1>2, <2>2
    <2> QED BY <2>1, <2>3, OccurrenceIsRow DEF Occurrence
  <1> HIDE DEF rows
  <1>4. Add(rows) \in [Ids -> {Nothing} \cup EntryRow] BY <1>3, AddedRows
  <1>5. \A e \in Ids : Add(rows)[e] = entries[e] \/ Add(rows)[e].of = i
    BY <1>3 DEF Add
  <1> QED BY <1>1, <1>4, <1>5

LEMMA RowsInit == CashInit => RowsInv
  BY DEF CashInit, Init, BillsInit, RowsInv

(* A step after which the rows are rows, and no entry is of a bill that    *)
(* was not of it before.                                                   *)
RowsStep ==
    /\ today' \in Days
    /\ defs' \in [Definitions -> {NotYet, Gone} \cup Definition]
    /\ entries' \in [Ids -> {Nothing} \cup EntryRow]
    /\ \A e \in Ids : entries'[e] # Nothing /\ entries'[e].of \in Bill
                        => Saved(e) /\ entries'[e].of = entries[e].of

LEMMA RealizeStep ==
    ASSUME RowsInv, NEW i \in Definitions, Live(i), NEW months \in SUBSET Int,
           RealizeAll(i, months)
    PROVE  RowsStep
  <1>1. /\ entries' \in [Ids -> {Nothing} \cup EntryRow]
        /\ \A e \in Ids : entries'[e] = entries[e] \/ entries'[e].of = i
    BY RealizeKeepsRows
  <1>2. today' = today /\ defs' = defs BY DEF RealizeAll
  <1>3. i \notin Bill BY LinkAssumption
  <1> QED BY <1>1, <1>2, <1>3 DEF RowsInv, RowsStep, Saved

(* Nothing a request does to a definition adds a payment.                  *)
LEMMA DefinitionKeepsRows ==
    ASSUME RowsInv, NEW i \in Definitions, DefinitionNext(i)
    PROVE  RowsStep
  <1>1. ASSUME NEW d \in Templates, CreateDefinition(i, d) PROVE RowsStep
    BY <1>1, CalendarAssumption DEF CreateDefinition, RowsInv, RowsStep, Saved
  <1>2. ASSUME NEW d \in Templates, UpdateDefinition(i, d) PROVE RowsStep
    <2> DEFINE end == IF d.end = NoDate THEN defs[i].end ELSE d.end
    <2>1. d \in Definition BY CalendarAssumption
    <2>2. defs[i] \in Definition BY <1>2 DEF UpdateDefinition, RowsInv, Live
    <2>3. end \in Int BY <2>1, <2>2 DEF Definition
    <2> HIDE DEF end
    <2>4. [d EXCEPT !.end = end] \in Definition BY <2>1, <2>3 DEF Definition
    <2>5. defs' = [defs EXCEPT ![i] = [d EXCEPT !.end = end]]
      BY <1>2 DEF UpdateDefinition, end
    <2> QED BY <1>2, <2>4, <2>5 DEF UpdateDefinition, RowsInv, RowsStep, Saved
  <1>3. CASE DeleteDefinition(i)
    <2>1. ASSUME NEW e \in Ids, Saved(e)
          PROVE  [entries[e] EXCEPT !.of = None] \in EntryRow
      <3>1. entries[e] \in EntryRow BY <2>1 DEF RowsInv, Saved
      <3> QED BY <3>1, IdAssumption DEF EntryRow
    <2>2. entries' \in [Ids -> {Nothing} \cup EntryRow]
      BY <1>3, <2>1 DEF DeleteDefinition, RowsInv
    <2>3. ASSUME NEW e \in Ids, entries'[e] # Nothing, entries'[e].of \in Bill
          PROVE  Saved(e) /\ entries'[e].of = entries[e].of
      <3>1. CASE Saved(e) /\ entries[e].of = i
        <4>1. entries[e] \in EntryRow BY <3>1 DEF RowsInv, Saved
        <4>2. entries'[e] = [entries[e] EXCEPT !.of = None]
          BY <1>3, <3>1 DEF DeleteDefinition
        <4>3. entries'[e].of = None BY <4>1, <4>2 DEF EntryRow
        <4> QED BY <2>3, <4>3, LinkAssumption
      <3>2. CASE ~(Saved(e) /\ entries[e].of = i)
        BY <1>3, <2>3, <3>2 DEF DeleteDefinition, Saved
      <3> QED BY <3>1, <3>2
    <2>4. today' = today /\ defs' = [defs EXCEPT ![i] = Gone]
      BY <1>3 DEF DeleteDefinition
    <2> QED BY <2>2, <2>3, <2>4 DEF RowsInv, RowsStep
  <1>4. CASE RealizePast(i)
    <2>1. Live(i) /\ RealizeAll(i, PastMonths(i)) BY <1>4 DEF RealizePast
    <2>2. PastMonths(i) \in SUBSET Int BY DEF PastMonths
    <2> QED BY <2>1, <2>2, RealizeStep
  <1>5. ASSUME NEW t \in Months, Realize(i, t) PROVE RowsStep
    <2>1. Live(i) /\ RealizeAll(i, {t}) BY <1>5 DEF Realize
    <2>2. {t} \in SUBSET Int BY CalendarAssumption
    <2> QED BY <2>1, <2>2, RealizeStep
  <1>6. ASSUME NEW t \in Months, Unrealize(i, t) PROVE RowsStep
    BY <1>6 DEF Unrealize, RowsInv, RowsStep, Saved
  <1>7. ASSUME NEW t \in Months, CreateSkip(i, t) \/ DeleteSkip(i, t) PROVE RowsStep
    BY <1>7 DEF CreateSkip, DeleteSkip, RowsInv, RowsStep, Saved
  <1> QED
    <2>1. CASE \E d \in Templates : d.kind = KindOf(i)
                 /\ (CreateDefinition(i, d) \/ UpdateDefinition(i, d))
      BY <1>1, <1>2, <2>1
    <2>2. CASE \E t \in Months : \/ Realize(i, t) \/ Unrealize(i, t)
                                 \/ CreateSkip(i, t) \/ DeleteSkip(i, t)
      BY <1>5, <1>6, <1>7, <2>2
    <2> QED BY <1>3, <1>4, <2>1, <2>2 DEF DefinitionNext

(* What can be typed of an entry.                                          *)
LEMMA EntryKindsTyped ==
    ASSUME NEW k \in EntryKinds
    PROVE  k.kind \in {"income", "expense"} /\ k.card \in BOOLEAN /\ k.paid \in BOOLEAN
  <1>1. CASE k = [kind |-> "income", card |-> FALSE, paid |-> TRUE] BY <1>1
  <1>2. CASE k = [kind |-> "expense", card |-> FALSE, paid |-> TRUE] BY <1>2
  <1>3. CASE k = [kind |-> "expense", card |-> TRUE, paid |-> TRUE] BY <1>3
  <1>4. CASE k = [kind |-> "expense", card |-> TRUE, paid |-> FALSE] BY <1>4
  <1> QED BY <1>1, <1>2, <1>3, <1>4 DEF EntryKinds

(* Nor does an entry that is written, edited or deleted by hand.           *)
LEMMA EntryKeepsRows ==
    ASSUME RowsInv, EntryNext(EntryKinds) \/ \E e \in Ids : DeleteEntry(e)
    PROVE  RowsStep
  <1>1. ASSUME NEW k \in EntryKinds, NEW date \in EntryDates,
               CreateEntry(k.kind, date, k.card, k.paid)
        PROVE  RowsStep
    <2> DEFINE row == [kind |-> k.kind, of |-> None, date |-> date,
                       card |-> k.card, paid |-> k.paid]
               rows == [e \in {made'} |-> row]
    <2>1. IsDate(date) /\ date \in Int BY CalendarAssumption DEF IsDate
    <2>2. k.kind \in {"income", "expense"} /\ k.card \in BOOLEAN /\ k.paid \in BOOLEAN
      BY EntryKindsTyped
    <2>3. row \in EntryRow BY <2>1, <2>2, IdAssumption DEF EntryRow
    <2>4. row.of = None OBVIOUS
    <2> HIDE DEF row
    <2>5. Add(rows) \in [Ids -> {Nothing} \cup EntryRow] BY <2>3, AddedRows
    <2>6. entries' = Add(rows) BY <1>1 DEF CreateEntry, row
    <2>7. ASSUME NEW e \in Ids, entries'[e] # Nothing, entries'[e].of \in Bill
          PROVE  Saved(e) /\ entries'[e].of = entries[e].of
      BY <2>4, <2>6, <2>7, LinkAssumption DEF Add, Saved
    <2>8. today' = today /\ defs' = defs BY <1>1 DEF CreateEntry
    <2> QED BY <2>5, <2>6, <2>7, <2>8 DEF RowsInv, RowsStep
  <1>2. ASSUME NEW k \in EntryKinds, NEW date \in EntryDates, NEW e \in Ids, Saved(e),
               UpdateEntry(e, date, k.card, k.paid)
        PROVE  RowsStep
    <2> DEFINE row == [kind |-> entries[e].kind, of |-> entries[e].of, date |-> date,
                       card |-> k.card, paid |-> k.paid]
    <2>1. IsDate(date) /\ date \in Int BY CalendarAssumption DEF IsDate
    <2>2. k.card \in BOOLEAN /\ k.paid \in BOOLEAN BY EntryKindsTyped
    <2>3. entries[e] \in EntryRow BY <1>2 DEF RowsInv, Saved
    <2>4. row \in EntryRow /\ row.of = entries[e].of BY <2>1, <2>2, <2>3 DEF EntryRow
    <2>5. entries' = [entries EXCEPT ![e] = row] BY <1>2 DEF UpdateEntry
    <2>6. today' = today /\ defs' = defs BY <1>2 DEF UpdateEntry
    <2> HIDE DEF row
    <2> QED BY <1>2, <2>4, <2>5, <2>6 DEF RowsInv, RowsStep, Saved
  <1>3. CASE NextDay
    BY <1>3 DEF NextDay, RowsInv, RowsStep, Saved
  <1>4. ASSUME NEW e \in Ids, DeleteEntry(e) PROVE RowsStep
    BY <1>4 DEF DeleteEntry, RowsInv, RowsStep, Saved
  <1> QED BY <1>1, <1>2, <1>3, <1>4 DEF EntryNext

-----------------------------------------------------------------------------
(* The bills *)

Owing == [paid |-> FALSE, expense |-> 0]
PaidBy(e) == [paid |-> TRUE, expense |-> e]

(* The rows of the bills; that an entry of a bill is the one its row links *)
(* to, unless the bill went with its subscription, which does not come     *)
(* back; and that who is about to pay a bill has found it unpaid, and it   *)
(* still is.                                                               *)
BillsInv ==
    /\ DOMAIN subs = Subscriptions /\ DOMAIN bills = Bill
    /\ \A b \in Bill : Issued(b) => bills[b] = Owing \/ bills[b] = PaidBy(bills[b].expense)
    /\ \A e \in Ids, b \in Bill : Saved(e) /\ entries[e].of = b =>
          IF Issued(b) THEN bills[b] = PaidBy(e) ELSE subs[b[1]] = Gone
    /\ \A c \in Payers : paying[c].step = "read" => bills[paying[c].bill] = Owing

OnePayer == \A c, d \in Payers : c = d

(* A bill that is due is issued and not paid, and one that is paid is not  *)
(* due.                                                                    *)
LEMMA Rows ==
    /\ Owing # NoBill /\ ~Owing.paid /\ Owing.expense = 0
    /\ \A e : PaidBy(e) # NoBill /\ PaidBy(e).paid /\ PaidBy(e).expense = e /\ PaidBy(e) # Owing
  BY DEF Owing, PaidBy, NoBill

LEMMA BillsInitially == CashInit => BillsInv
  BY DEF CashInit, Init, BillsInit, BillsInv, Issued, Saved, Quiet

(* The rows of the tables after a step of the bills.                       *)
LEMMA BillsKeepRows ==
    ASSUME RowsInv, BillsNext
    PROVE  RowsInv'
  <1> SUFFICES /\ today' \in Days
               /\ defs' \in [Definitions -> {NotYet, Gone} \cup Definition]
               /\ entries' \in [Ids -> {Nothing} \cup EntryRow]
               /\ paying' \in [Payers -> {Quiet} \cup Payment]
    BY DEF RowsInv, Ids, EntryRow, Definitions, KindOf
  <1> USE DEF RowsInv
  <1> DEFINE Goal == /\ today' \in Days
                     /\ defs' \in [Definitions -> {NotYet, Gone} \cup Definition]
                     /\ entries' \in [Ids -> {Nothing} \cup EntryRow]
                     /\ paying' \in [Payers -> {Quiet} \cup Payment]
  <1>0. ASSUME NEW gone PROVE Lose(gone) \in [Payers -> {Quiet} \cup Payment]
    <2>1. ASSUME NEW c \in Payers, paying[c] # Quiet
          PROVE  [paying[c] EXCEPT !.step = "lost"] \in Payment
      BY <2>1 DEF Payment
    <2> QED BY <2>1 DEF Lose
  <1>1. ASSUME NEW s \in Subscriptions, NEW t \in BillMonths,
               CreateSubscription(s, FirstDay(t))
        PROVE  Goal
    BY <1>1 DEF CreateSubscription, cashVars
  <1>2. ASSUME NEW s \in Subscriptions, NEW t \in BillMonths, NEW active \in BOOLEAN,
               UpdateSubscription(s, active, FirstDay(t))
        PROVE  Goal
    BY <1>2 DEF UpdateSubscription, cashVars
  <1>3. ASSUME NEW s \in Subscriptions, DeleteSubscription(s) PROVE Goal
    BY <1>0, <1>3 DEF DeleteSubscription, cashVars
  <1>4. ASSUME NEW b \in Bill, IssueBill(b) \/ ImportBill(b) PROVE Goal
    BY <1>4 DEF IssueBill, ImportBill, cashVars
  <1>5. ASSUME NEW b \in Bill, UnpayBill(b) PROVE Goal
    BY <1>5 DEF UnpayBill, Unpaid
  <1>6. ASSUME NEW b \in Bill, DeleteBill(b) PROVE Goal
    BY <1>0, <1>6 DEF DeleteBill, cashVars
  <1>7. ASSUME NEW c \in Payers, NEW b \in Bill, NEW card \in BOOLEAN, PayReads(c, b, card)
        PROVE  Goal
    <2>1. [step |-> "read", bill |-> b, card |-> card] \in Payment BY DEF Payment
    <2> QED BY <1>7, <2>1 DEF PayReads, cashVars
  <1>8. ASSUME NEW c \in Payers, NEW date \in EntryDates, PayCommits(c, date) PROVE Goal
    <2> DEFINE row == [kind |-> "expense", of |-> paying[c].bill, date |-> date,
                       card |-> paying[c].card, paid |-> TRUE]
               rows == [e \in {made'} |-> row]
    <2>1. IsDate(date) /\ date \in Int BY CalendarAssumption DEF IsDate
    <2>2. paying[c] \in Payment BY <1>8 DEF PayCommits, Quiet
    <2>3. paying[c].bill \in Bill /\ paying[c].card \in BOOLEAN BY <2>2 DEF Payment
    <2>4. paying[c].bill \notin Definitions BY <2>3, LinkAssumption
    <2>5. row \in EntryRow BY <2>1, <2>3, <2>4 DEF EntryRow
    <2> HIDE DEF row
    <2>6. Add(rows) \in [Ids -> {Nothing} \cup EntryRow] BY <2>5, AddedRows
    <2>7. entries' = Add(rows) BY <1>8 DEF PayCommits, row
    <2>8. paying' = [paying EXCEPT ![c] = Quiet] /\ today' = today /\ defs' = defs
      BY <1>8 DEF PayCommits
    <2> QED BY <2>6, <2>7, <2>8
  <1>9. ASSUME NEW c \in Payers, PayFails(c) PROVE Goal
    BY <1>9 DEF PayFails, cashVars
  <1> QED BY <1>1, <1>2, <1>3, <1>4, <1>5, <1>6, <1>7, <1>8, <1>9 DEF BillsNext

(* The rows of the tables after any step.                                  *)
LEMMA RowsAreKept == RowsInv /\ [CashNext]_vars => RowsInv'
  <1> SUFFICES ASSUME RowsInv, [CashNext]_vars PROVE RowsInv'
    OBVIOUS
  <1>0. ASSUME RowsStep, paying' = paying PROVE RowsInv'
    BY <1>0 DEF RowsStep, RowsInv, Ids, EntryRow, Definitions, KindOf
  <1>1. ASSUME NEW i \in Definitions, DefinitionNext(i), UNCHANGED billVars PROVE RowsInv'
    BY <1>0, <1>1, DefinitionKeepsRows DEF billVars
  <1>2. CASE EntryNext(EntryKinds) /\ UNCHANGED billVars
    BY <1>0, <1>2, EntryKeepsRows DEF billVars
  <1>3. CASE BillsNext BY <1>3, BillsKeepRows
  <1>4. ASSUME NEW e \in Ids, DeleteLinkedEntry(e) PROVE RowsInv'
    BY <1>0, <1>4, EntryKeepsRows DEF DeleteLinkedEntry
  <1>5. CASE UNCHANGED vars
    BY <1>5 DEF vars, cashVars, billVars, RowsInv, Ids, EntryRow, Definitions, KindOf
  <1> QED BY <1>1, <1>2, <1>3, <1>4, <1>5 DEF CashNext

(* Rows that change elsewhere leave the bills right.                       *)
LEMMA ElsewhereKeepsBills ==
    ASSUME BillsInv, RowsStep, UNCHANGED billVars
    PROVE  BillsInv'
  BY DEF BillsInv, RowsStep, billVars, Saved, Issued, Ids, Bill, Owing, PaidBy

(* An entry is deleted: its bill, and no other, loses its link.            *)
LEMMA DeletionKeepsBills ==
    ASSUME RowsInv, BillsInv, NEW x \in Ids, DeleteLinkedEntry(x), RowsStep
    PROVE  BillsInv'
  <1> DEFINE row(b) == IF Issued(b) /\ bills[b].expense = x
                       THEN [paid |-> bills[b].paid, expense |-> 0] ELSE bills[b]
  <1>0. bills' = [b \in Bill |-> row(b)] /\ subs' = subs /\ paying' = paying
    BY DEF DeleteLinkedEntry
  <1>1. ASSUME NEW b \in Bill
        PROVE  row(b) = bills[b] \/ (bills[b] = PaidBy(x) /\ row(b) = PaidBy(0))
    <2>1. x # 0 BY DEF Ids
    <2>2. CASE Issued(b) /\ bills[b].expense = x
      <3>1. bills[b] = PaidBy(x)
        BY <2>1, <2>2, Rows DEF BillsInv
      <3>2. bills[b].paid BY <3>1, Rows
      <3> QED BY <2>2, <3>1, <3>2 DEF PaidBy
    <2> QED BY <2>2
  <1>2. \A b \in Bill : bills'[b] = row(b) BY <1>0
  <1> HIDE DEF row
  <1>3. ASSUME NEW b \in Bill
        PROVE  bills'[b] = bills[b] \/ (bills[b] = PaidBy(x) /\ bills'[b] = PaidBy(0))
    BY <1>1, <1>2
  <1>4. DOMAIN subs' = Subscriptions /\ DOMAIN bills' = Bill
    BY <1>0 DEF BillsInv
  <1>5. ASSUME NEW b \in Bill, bills'[b] # NoBill
        PROVE  bills'[b] = Owing \/ bills'[b] = PaidBy(bills'[b].expense)
    BY <1>3, <1>5, Rows DEF BillsInv, Issued
  <1>6. ASSUME NEW e \in Ids, NEW b \in Bill, entries'[e] # Nothing, entries'[e].of = b
        PROVE  IF bills'[b] # NoBill THEN bills'[b] = PaidBy(e) ELSE subs'[b[1]] = Gone
    <2>1. e # x /\ entries'[e] = entries[e]
      BY <1>6 DEF DeleteLinkedEntry, DeleteEntry, RowsInv, RowsStep
    <2>2. IF Issued(b) THEN bills[b] = PaidBy(e) ELSE subs[b[1]] = Gone
      BY <1>6, <2>1 DEF BillsInv, Saved
    <2>3. PaidBy(e) # PaidBy(x) BY <2>1, Rows
    <2> QED BY <1>0, <1>3, <2>2, <2>3, Rows DEF Issued
  <1>7. ASSUME NEW c \in Payers, paying'[c].step = "read"
        PROVE  bills'[paying'[c].bill] = Owing
    <2>1. paying[c].step = "read" BY <1>0, <1>7
    <2>2. bills[paying[c].bill] = Owing BY <2>1 DEF BillsInv
    <2>3. paying[c].bill \in Bill BY <2>1 DEF RowsInv, Quiet, Payment
    <2>4. bills'[paying[c].bill] = Owing BY <1>3, <2>2, <2>3, Rows
    <2> QED BY <1>0, <2>4
  <1> QED BY <1>4, <1>5, <1>6, <1>7 DEF BillsInv, Issued, Saved, Bill, Ids, Owing, PaidBy

(* A subscription that goes takes its bills with it.                       *)
LEMMA SubscriptionsKeepBills ==
    ASSUME RowsInv, BillsInv, NEW s \in Subscriptions,
           \/ \E t \in BillMonths : CreateSubscription(s, FirstDay(t))
           \/ \E t \in BillMonths, active \in BOOLEAN :
                 UpdateSubscription(s, active, FirstDay(t))
           \/ DeleteSubscription(s)
    PROVE  BillsInv'
  <1> USE DEF BillsInv, Issued, Saved, Bill, Ids, Owing, PaidBy
  <1>1. ASSUME NEW t \in BillMonths, CreateSubscription(s, FirstDay(t)) PROVE BillsInv'
    <2>1. DOMAIN subs' = Subscriptions /\ bills' = bills /\ entries' = entries /\ paying' = paying
      BY <1>1 DEF CreateSubscription, cashVars
    <2>2. ASSUME NEW z \in Subscriptions, subs[z] = Gone PROVE subs'[z] = Gone
      <3>1. subs[s] = NotYet /\ NotYet # Gone BY <1>1 DEF CreateSubscription, NotYet, Gone
      <3>2. z # s BY <2>2, <3>1
      <3> QED BY <1>1, <2>2, <3>2 DEF CreateSubscription
    <2> QED BY <2>1, <2>2
  <1>2. ASSUME NEW t \in BillMonths, NEW active \in BOOLEAN,
               UpdateSubscription(s, active, FirstDay(t))
        PROVE  BillsInv'
    BY <1>2 DEF UpdateSubscription, cashVars, Has
  <1>3. CASE DeleteSubscription(s)
    <2>1. \A b \in Bill : bills'[b] = IF b[1] = s THEN NoBill ELSE bills[b]
      BY <1>3 DEF DeleteSubscription
    <2>2. DOMAIN subs' = Subscriptions /\ subs'[s] = Gone /\ DOMAIN bills' = Bill
          /\ \A z \in Subscriptions : z # s => subs'[z] = subs[z]
      BY <1>3 DEF DeleteSubscription
    <2>3. entries' = entries BY <1>3 DEF DeleteSubscription, cashVars
    <2>4. \A b \in Bill : bills'[b] # NoBill =>
             bills'[b] = Owing \/ bills'[b] = PaidBy(bills'[b].expense)
      BY <2>1
    <2>5. \A e \in Ids, b \in Bill : entries'[e] # Nothing /\ entries'[e].of = b =>
             IF bills'[b] # NoBill THEN bills'[b] = PaidBy(e) ELSE subs'[b[1]] = Gone
      BY <2>1, <2>2, <2>3
    <2>6. ASSUME NEW c \in Payers, paying'[c].step = "read"
          PROVE  bills'[paying'[c].bill] = Owing
      <3>1. paying' = Lose({s} \X BillMonths) BY <1>3 DEF DeleteSubscription
      <3>2. CASE paying[c] # Quiet /\ paying[c].bill \in {s} \X BillMonths
        <4>1. paying'[c] = [paying[c] EXCEPT !.step = "lost"] BY <3>1, <3>2 DEF Lose
        <4>2. paying[c] \in Payment BY <3>2 DEF RowsInv
        <4> QED BY <2>6, <4>1, <4>2 DEF Payment
      <3>3. CASE ~(paying[c] # Quiet /\ paying[c].bill \in {s} \X BillMonths)
        <4>1. paying'[c] = paying[c] BY <3>1, <3>3 DEF Lose
        <4>2. paying[c] \in Payment BY <2>6, <4>1 DEF RowsInv, Quiet
        <4>3. paying[c].bill \in Bill /\ paying[c].bill[1] # s
          BY <2>6, <3>3, <4>1, <4>2 DEF Payment, Quiet
        <4> QED BY <2>1, <2>6, <4>1, <4>3
      <3> QED BY <3>2, <3>3
    <2> QED BY <2>2, <2>4, <2>5, <2>6
  <1> QED BY <1>1, <1>2, <1>3

(* A bill is entered, by hand or from a file, or deleted while it is due.  *)
LEMMA BillsKeepBills ==
    ASSUME RowsInv, BillsInv, NEW x \in Bill,
           IssueBill(x) \/ ImportBill(x) \/ DeleteBill(x)
    PROVE  BillsInv'
  <1>1. CASE IssueBill(x) \/ ImportBill(x)
    <2>1. /\ \A b \in Bill : bills'[b] = bills[b] \/ (b = x /\ ~Issued(b) /\ bills'[b] = Owing)
          /\ bills'[x] # NoBill /\ DOMAIN bills' = Bill
      BY <1>1, Rows DEF IssueBill, ImportBill, Upsert, BillsInv, Owing, Issued
    <2>2. subs[x[1]] # Gone BY <1>1 DEF IssueBill, ImportBill, Has
    <2>3. DOMAIN subs' = Subscriptions
          /\ \A z \in Subscriptions : subs[z] = Gone => subs'[z] = Gone
      BY <1>1, <2>2 DEF IssueBill, ImportBill, BillsInv
    <2>4. entries' = entries /\ paying' = paying
      BY <1>1 DEF IssueBill, ImportBill, cashVars
    <2>5. \A b \in Bill : bills'[b] # NoBill =>
             bills'[b] = Owing \/ bills'[b] = PaidBy(bills'[b].expense)
      BY <2>1 DEF BillsInv, Issued
    <2>6. \A e \in Ids, b \in Bill : entries'[e] # Nothing /\ entries'[e].of = b =>
             IF bills'[b] # NoBill THEN bills'[b] = PaidBy(e) ELSE subs'[b[1]] = Gone
      BY <2>1, <2>2, <2>3, <2>4 DEF BillsInv, Issued, Saved, Bill
    <2>7. \A c \in Payers : paying'[c].step = "read" => bills'[paying'[c].bill] = Owing
      BY <2>1, <2>4, Rows DEF BillsInv, Issued, RowsInv, Quiet, Payment
    <2> QED BY <2>1, <2>3, <2>5, <2>6, <2>7 DEF BillsInv, Issued, Saved, Bill, Ids, Owing, PaidBy
  <1>2. CASE DeleteBill(x)
    <2>1. bills[x] = Owing BY <1>2, Rows DEF DeleteBill, BillsInv, Issued, Paid
    <2>2. bills' = [bills EXCEPT ![x] = NoBill] /\ entries' = entries /\ subs' = subs
      BY <1>2 DEF DeleteBill, cashVars
    <2>3. DOMAIN bills' = Bill /\ bills'[x] = NoBill
          /\ \A b \in Bill : b # x => bills'[b] = bills[b]
      BY <2>2 DEF BillsInv
    <2>4. \A b \in Bill : bills'[b] # NoBill =>
             bills'[b] = Owing \/ bills'[b] = PaidBy(bills'[b].expense)
      BY <2>3 DEF BillsInv, Issued
    <2>5. ASSUME NEW e \in Ids, NEW b \in Bill, entries'[e] # Nothing, entries'[e].of = b
          PROVE  IF bills'[b] # NoBill THEN bills'[b] = PaidBy(e) ELSE subs'[b[1]] = Gone
      <3>1. IF Issued(b) THEN bills[b] = PaidBy(e) ELSE subs[b[1]] = Gone
        BY <2>2, <2>5 DEF BillsInv, Saved
      <3>2. b # x BY <2>1, <3>1, Rows DEF Issued
      <3> QED BY <2>2, <2>3, <3>1, <3>2 DEF Issued
    <2>6. ASSUME NEW c \in Payers, paying'[c].step = "read"
          PROVE  bills'[paying'[c].bill] = Owing
      <3>1. paying' = Lose({x}) BY <1>2 DEF DeleteBill
      <3>2. CASE paying[c] # Quiet /\ paying[c].bill = x
        <4>1. paying'[c] = [paying[c] EXCEPT !.step = "lost"] BY <3>1, <3>2 DEF Lose
        <4>2. paying[c] \in Payment BY <3>2 DEF RowsInv
        <4> QED BY <2>6, <4>1, <4>2 DEF Payment
      <3>3. CASE ~(paying[c] # Quiet /\ paying[c].bill = x)
        <4>1. paying'[c] = paying[c] BY <3>1, <3>3 DEF Lose
        <4>2. paying[c].bill \in Bill /\ paying[c].bill # x
          BY <2>6, <3>3, <4>1 DEF RowsInv, Quiet, Payment
        <4>3. bills[paying[c].bill] = Owing BY <2>6, <4>1 DEF BillsInv
        <4> QED BY <2>3, <4>1, <4>2, <4>3
      <3> QED BY <3>2, <3>3
    <2> QED BY <2>2, <2>3, <2>4, <2>5, <2>6 DEF BillsInv, Issued, Saved, Bill, Ids, Owing, PaidBy
  <1> QED BY <1>1, <1>2

(* A payment is of a bill that is due, and no other payment is under way.  *)
LEMMA PaymentsKeepBills ==
    ASSUME OnePayer, RowsInv, BillsInv, NEW c \in Payers,
           \/ \E b \in Bill, card \in BOOLEAN : PayReads(c, b, card)
           \/ \E date \in EntryDates : PayCommits(c, date)
           \/ PayFails(c)
    PROVE  BillsInv'
  <1>1. ASSUME NEW x \in Bill, NEW card \in BOOLEAN, PayReads(c, x, card) PROVE BillsInv'
    <2>1. bills[x] = Owing
      BY <1>1, Rows DEF PayReads, BillsInv, Paid, Issued
    <2>2. /\ paying' = [paying EXCEPT ![c] = [step |-> "read", bill |-> x, card |-> card]]
          /\ entries' = entries /\ subs' = subs /\ bills' = bills
      BY <1>1 DEF PayReads, cashVars
    <2>3. ASSUME NEW d \in Payers, paying'[d].step = "read"
          PROVE  bills'[paying'[d].bill] = Owing
      <3>1. d = c BY DEF OnePayer
      <3>2. paying'[c] = [step |-> "read", bill |-> x, card |-> card]
        BY <2>2 DEF RowsInv
      <3> QED BY <2>1, <2>2, <3>1, <3>2
    <2> QED BY <2>2, <2>3 DEF BillsInv, Issued, Saved, Bill, Ids, Owing, PaidBy
  <1>2. ASSUME NEW date \in EntryDates, PayCommits(c, date) PROVE BillsInv'
    <2> DEFINE x == paying[c].bill
               row == [kind |-> "expense", of |-> x, date |-> date,
                       card |-> paying[c].card, paid |-> TRUE]
    <2>1. bills[x] = Owing BY <1>2 DEF PayCommits, BillsInv
    <2>2. x \in Bill BY <1>2 DEF PayCommits, RowsInv, Quiet, Payment
    <2>3. \A e \in Ids : entries'[e] = IF e = made' THEN row ELSE entries[e]
      BY <1>2 DEF PayCommits, Add
    <2>4. bills' = [bills EXCEPT ![x] = PaidBy(made')] /\ subs' = subs
          /\ paying' = [paying EXCEPT ![c] = Quiet]
      BY <1>2 DEF PayCommits, PaidBy
    <2> row.of = x OBVIOUS
    <2> HIDE DEF row, x
    <2>5. DOMAIN bills' = Bill /\ bills'[x] = PaidBy(made')
          /\ \A b \in Bill : b # x => bills'[b] = bills[b]
      BY <2>2, <2>4 DEF BillsInv
    <2>6. \A b \in Bill : bills'[b] # NoBill =>
             bills'[b] = Owing \/ bills'[b] = PaidBy(bills'[b].expense)
      BY <2>5, Rows DEF BillsInv, Issued
    <2>7. ASSUME NEW e \in Ids, NEW b \in Bill, entries'[e] # Nothing, entries'[e].of = b
          PROVE  IF bills'[b] # NoBill THEN bills'[b] = PaidBy(e) ELSE subs'[b[1]] = Gone
      <3>1. CASE e = made'
        <4>1. b = x BY <2>3, <2>7, <3>1
        <4> QED BY <2>5, <3>1, <4>1, Rows
      <3>2. CASE e # made'
        <4>1. entries'[e] = entries[e] BY <2>3, <3>2
        <4>2. IF Issued(b) THEN bills[b] = PaidBy(e) ELSE subs[b[1]] = Gone
          BY <2>7, <4>1 DEF BillsInv, Saved
        <4>3. b # x BY <2>1, <4>2, Rows DEF Issued
        <4> QED BY <2>4, <2>5, <4>2, <4>3 DEF Issued
      <3> QED BY <3>1, <3>2
    <2>8. ASSUME NEW d \in Payers PROVE paying'[d].step # "read"
      <3>1. d = c BY DEF OnePayer
      <3> QED BY <2>4, <3>1 DEF RowsInv, Quiet
    <2>9. DOMAIN subs' = Subscriptions BY <2>4 DEF BillsInv
    <2> QED BY <2>5, <2>6, <2>7, <2>8, <2>9 DEF BillsInv, Issued, Saved, Bill, Ids, Owing, PaidBy
  <1>3. CASE PayFails(c)
    <2>1. paying' = [paying EXCEPT ![c] = Quiet] /\ entries' = entries /\ subs' = subs
          /\ bills' = bills
      BY <1>3 DEF PayFails, cashVars
    <2>2. ASSUME NEW d \in Payers PROVE paying'[d].step # "read"
      <3>1. d = c BY DEF OnePayer
      <3> QED BY <2>1, <3>1 DEF RowsInv, Quiet
    <2> QED BY <2>1, <2>2 DEF BillsInv, Issued, Saved, Bill, Ids, Owing, PaidBy
  <1> QED BY <1>1, <1>2, <1>3

(* Unpaying takes back the one entry that is the bill's.                   *)
LEMMA UnpayingKeepsBills ==
    ASSUME RowsInv, BillsInv, NEW x \in Bill, UnpayBill(x)
    PROVE  BillsInv'
  <1>1. Issued(x) /\ bills' = [bills EXCEPT ![x] = Owing] /\ subs' = subs /\ paying' = paying
        /\ \A e \in Ids : entries'[e] = IF e = bills[x].expense THEN Nothing ELSE entries[e]
    BY DEF UnpayBill, Unpaid, Owing
  <1>2. DOMAIN bills' = Bill /\ bills'[x] = Owing
        /\ \A b \in Bill : b # x => bills'[b] = bills[b]
    BY <1>1 DEF BillsInv
  <1>3. \A b \in Bill : bills'[b] # NoBill =>
           bills'[b] = Owing \/ bills'[b] = PaidBy(bills'[b].expense)
    BY <1>2 DEF BillsInv, Issued
  <1>4. ASSUME NEW e \in Ids, NEW b \in Bill, entries'[e] # Nothing, entries'[e].of = b
        PROVE  IF bills'[b] # NoBill THEN bills'[b] = PaidBy(e) ELSE subs'[b[1]] = Gone
    <2>1. e # bills[x].expense /\ entries'[e] = entries[e] BY <1>1, <1>4
    <2>2. IF Issued(b) THEN bills[b] = PaidBy(e) ELSE subs[b[1]] = Gone
      BY <1>4, <2>1 DEF BillsInv, Saved
    <2>3. b # x BY <1>1, <2>1, <2>2, Rows
    <2> QED BY <1>1, <1>2, <2>2, <2>3 DEF Issued
  <1>5. \A c \in Payers : paying'[c].step = "read" => bills'[paying'[c].bill] = Owing
    BY <1>1, <1>2 DEF BillsInv, RowsInv, Quiet, Payment
  <1>6. DOMAIN subs' = Subscriptions BY <1>1 DEF BillsInv
  <1> QED BY <1>2, <1>3, <1>4, <1>5, <1>6 DEF BillsInv, Issued, Saved, Bill, Ids, Owing, PaidBy

LEMMA BillsAreKept == OnePayer /\ RowsInv /\ BillsInv /\ [CashNext]_vars => BillsInv'
  <1> SUFFICES ASSUME OnePayer, RowsInv, BillsInv, [CashNext]_vars PROVE BillsInv'
    OBVIOUS
  <1>1. ASSUME NEW i \in Definitions, DefinitionNext(i), UNCHANGED billVars PROVE BillsInv'
    BY <1>1, DefinitionKeepsRows, ElsewhereKeepsBills
  <1>2. CASE EntryNext(EntryKinds) /\ UNCHANGED billVars
    BY <1>2, EntryKeepsRows, ElsewhereKeepsBills
  <1>3. CASE BillsNext
    BY <1>3, SubscriptionsKeepBills, BillsKeepBills, UnpayingKeepsBills, PaymentsKeepBills
    DEF BillsNext
  <1>4. ASSUME NEW e \in Ids, DeleteLinkedEntry(e) PROVE BillsInv'
    <2>1. RowsStep BY <1>4, EntryKeepsRows DEF DeleteLinkedEntry
    <2> QED BY <1>4, <2>1, DeletionKeepsBills
  <1>5. CASE UNCHANGED vars
    BY <1>5 DEF vars, cashVars, billVars, BillsInv, Issued, Saved, Bill, Ids, Owing, PaidBy
  <1> QED BY <1>1, <1>2, <1>3, <1>4, <1>5 DEF CashNext

LEMMA RowsAlways == CashSpec => []RowsInv
  BY RowsInit, RowsAreKept, PTL DEF CashSpec

-----------------------------------------------------------------------------
(* The ids *)

(* Ids are given out one after the other.                                  *)
CountInv ==
    /\ made \in 0 .. MaxEntries
    /\ \A e \in Ids : Saved(e) => e <= made

CountStep ==
    /\ made' \in made .. MaxEntries
    /\ \A e \in Ids : entries'[e] # Nothing => e <= made'

(* The place of a number among those of a set is its own.                  *)
LEMMA Ranks ==
    ASSUME NEW S \in SUBSET Int, IsFiniteSet(S), NEW d \in S
    PROVE  /\ Cardinality({x \in S : x <= d}) \in 1 .. Cardinality(S)
           /\ \A c \in S : Cardinality({x \in S : x <= c}) = Cardinality({x \in S : x <= d})
                             => c = d
  <1> DEFINE upTo(c) == {x \in S : x <= c}
  <1>1. ASSUME NEW c \in S
        PROVE  /\ IsFiniteSet(upTo(c)) /\ Cardinality(upTo(c)) \in Nat
               /\ Cardinality(upTo(c)) <= Cardinality(S) /\ c \in upTo(c)
    <2>1. upTo(c) \in SUBSET S /\ c \in upTo(c) OBVIOUS
    <2> HIDE DEF upTo
    <2>2. IsFiniteSet(upTo(c)) /\ Cardinality(upTo(c)) <= Cardinality(S)
      BY <2>1, FS_Subset
    <2> QED BY <2>1, <2>2, FS_CardinalityType
  <1>2. ASSUME NEW c \in S, NEW b \in S, b < c
        PROVE  Cardinality(upTo(b)) # Cardinality(upTo(c))
    <2>1. upTo(b) \in SUBSET upTo(c)
      <3>1. b \in Int /\ c \in Int OBVIOUS
      <3>2. ASSUME NEW x \in S, x <= b PROVE x <= c
        <4>1. x \in Int OBVIOUS
        <4> QED BY <1>2, <3>1, <3>2, <4>1
      <3> QED BY <3>2
    <2>2. c \in upTo(c) /\ c \notin upTo(b) BY <1>2
    <2>3. IsFiniteSet(upTo(c)) BY <1>1
    <2> HIDE DEF upTo
    <2> QED BY <2>1, <2>2, <2>3, FS_Subset
  <1>3. Cardinality(upTo(d)) # 0
    <2>1. IsFiniteSet(upTo(d)) /\ d \in upTo(d) BY <1>1
    <2> HIDE DEF upTo
    <2> QED BY <2>1, FS_EmptySet
  <1>4. Cardinality(S) \in Nat BY FS_CardinalityType
  <1>5. Cardinality(upTo(d)) \in 1 .. Cardinality(S)
    <2>1. Cardinality(upTo(d)) \in Nat /\ Cardinality(upTo(d)) <= Cardinality(S) BY <1>1
    <2> HIDE DEF upTo
    <2> QED BY <1>3, <1>4, <2>1
  <1>6. ASSUME NEW c \in S, Cardinality(upTo(c)) = Cardinality(upTo(d)) PROVE c = d
    <2>1. ~(c < d) /\ ~(d < c) BY <1>2, <1>6
    <2> QED BY <2>1
  <1> QED BY <1>5, <1>6

(* What is realised gets ids not given out before, each period its own:    *)
(* afterwards every due one of these periods has its occurrence.           *)
LEMMA RealizeSettles ==
    ASSUME RowsInv, CountInv, NEW i \in Definitions, Live(i),
           NEW months \in SUBSET Int, NEW lo \in Int, \A t \in months : lo <= t,
           RealizeAll(i, months)
    PROVE  /\ CountStep
           /\ \A t \in months : Due(i, t) =>
                \E e \in Ids : /\ entries'[e] # Nothing /\ entries'[e].of = i
                               /\ entries'[e].date = DateFor(defs[i], t)
  <1> DEFINE dates == ToRealize(i, months)
             id(date) == made + Cardinality({x \in dates : x <= date})
             rows == [e \in {id(date) : date \in dates} |->
                        Occurrence(i, CHOOSE date \in dates : id(date) = e)]
  <1>1. /\ made + Cardinality(dates) <= MaxEntries /\ made' = made + Cardinality(dates)
        /\ entries' = Add(rows)
    BY DEF RealizeAll
  <1>2. dates \in SUBSET Int /\ IsFiniteSet(dates)
    <2>1. defs[i] \in Definition BY DEF RowsInv, Live
    <2>2. today \in Int BY CalendarAssumption DEF RowsInv
    <2>3. ASSUME NEW date \in dates PROVE date \in (100 * lo) .. today
      <3>1. PICK t \in months : date = DateFor(defs[i], t) /\ date <= today
        BY <2>3 DEF ToRealize, Due
      <3>2. IsDate(date) BY <2>1, <3>1, DateOfPeriod
      <3>3. 100 * t <= date
        <4>1. defs[i].day \in 1 .. 28 BY <2>1 DEF Definition
        <4>2. MonthLength(t) \in 28 .. 31 BY DEF MonthLength
        <4> QED BY <3>1, <4>1, <4>2 DEF DateFor
      <3>4. lo <= t /\ date \in Int BY <3>2 DEF IsDate
      <3> QED BY <2>2, <3>1, <3>3, <3>4
    <2> HIDE DEF dates
    <2>4. dates \in SUBSET ((100 * lo) .. today) BY <2>3
    <2>5. 100 * lo \in Int OBVIOUS
    <2>6. IsFiniteSet((100 * lo) .. today) BY <2>2, <2>5, FS_Interval
    <2>7. dates \in SUBSET Int BY <2>2, <2>4, <2>5
    <2>8. IsFiniteSet(dates) BY <2>4, <2>6, FS_Subset
    <2> QED BY <2>7, <2>8
  <1>3. \A date \in dates : /\ id(date) \in made + 1 .. made + Cardinality(dates)
                            /\ \A x \in dates : id(x) = id(date) => x = date
    <2> HIDE DEF dates
    <2> SUFFICES ASSUME NEW date \in dates
                 PROVE  /\ id(date) \in made + 1 .. made + Cardinality(dates)
                        /\ \A x \in dates : id(x) = id(date) => x = date
      OBVIOUS
    <2> DEFINE rank(x) == Cardinality({y \in dates : y <= x})
    <2>1. \A x \in dates : rank(x) \in 1 .. Cardinality(dates) BY <1>2, Ranks
    <2>2. \A x \in dates : rank(x) = rank(date) => x = date BY <1>2, Ranks
    <2>3. Cardinality(dates) \in Nat BY <1>2, FS_CardinalityType
    <2>4. made \in Nat BY DEF CountInv
    <2>5. \A x \in dates : id(x) = made + rank(x) OBVIOUS
    <2> HIDE DEF rank, id
    <2> QED BY <2>1, <2>2, <2>3, <2>4, <2>5
  <1>4. Cardinality(dates) \in Nat BY <1>2, FS_CardinalityType
  <1>5. made \in Nat /\ MaxEntries \in Nat BY BoundAssumption DEF CountInv
  <1>6. DOMAIN rows = {id(date) : date \in dates} OBVIOUS
  <1>7. ASSUME NEW date \in dates PROVE rows[id(date)] = Occurrence(i, date)
    <2>1. rows[id(date)] = Occurrence(i, CHOOSE x \in dates : id(x) = id(date)) OBVIOUS
    <2> HIDE DEF dates, id, rows
    <2>2. (CHOOSE x \in dates : id(x) = id(date)) = date BY <1>3
    <2> QED BY <2>1, <2>2
  <1> HIDE DEF dates, id, rows
  <1>8. \A e \in Ids : entries'[e] = IF e \in DOMAIN rows THEN rows[e] ELSE entries[e]
    BY <1>1 DEF Add
  <1>9. CountStep
    <2>1. made' \in made .. MaxEntries BY <1>1, <1>4, <1>5
    <2>2. ASSUME NEW e \in Ids, entries'[e] # Nothing PROVE e <= made'
      <3>1. CASE e \in DOMAIN rows BY <1>1, <1>3, <1>4, <1>5, <1>6, <3>1
      <3>2. CASE e \notin DOMAIN rows
        <4>1. e <= made BY <1>8, <2>2, <3>2 DEF CountInv, Saved
        <4> QED BY <1>1, <1>4, <1>5, <4>1 DEF Ids
      <3> QED BY <3>1, <3>2
    <2> QED BY <2>1, <2>2 DEF CountStep
  <1>10. ASSUME NEW t \in months, Due(i, t)
         PROVE  \E e \in Ids : /\ entries'[e] # Nothing /\ entries'[e].of = i
                               /\ entries'[e].date = DateFor(defs[i], t)
    <2> DEFINE date == DateFor(defs[i], t)
    <2>1. CASE OccursOn(i, date)
      <3>1. PICK e \in Ids : Saved(e) /\ entries[e].of = i /\ entries[e].date = date
        BY <2>1 DEF OccursOn
      <3>2. e <= made BY <3>1 DEF CountInv
      <3>3. e \notin DOMAIN rows BY <1>3, <1>5, <1>4, <1>6, <3>2 DEF Ids
      <3> QED BY <1>8, <3>1, <3>3 DEF Saved
    <2>2. CASE ~OccursOn(i, date)
      <3>1. date \in dates BY <1>10, <2>2 DEF dates, ToRealize
      <3> HIDE DEF date
      <3>2. id(date) \in Ids BY <1>1, <1>3, <1>4, <1>5, <3>1 DEF Ids
      <3>3. entries'[id(date)] = Occurrence(i, date) BY <1>6, <1>7, <1>8, <3>1, <3>2
      <3>4. Occurrence(i, date) # Nothing /\ Occurrence(i, date).of = i
            /\ Occurrence(i, date).date = date
        BY DEF Occurrence, Nothing
      <3> QED BY <3>2, <3>3, <3>4 DEF date
    <2> QED BY <2>1, <2>2
  <1> QED BY <1>9, <1>10

LEMMA DefinitionKeepsCount ==
    ASSUME RowsInv, CountInv, NEW i \in Definitions, DefinitionNext(i)
    PROVE  CountStep
  <1>0. made \in 0 .. MaxEntries /\ made \in made .. MaxEntries
    BY BoundAssumption DEF CountInv
  <1>1. ASSUME made' = made, \A e \in Ids : entries'[e] # Nothing => Saved(e)
        PROVE  CountStep
    BY <1>0, <1>1 DEF CountInv, CountStep
  <1>2. CASE \E d \in Templates : d.kind = KindOf(i)
               /\ (CreateDefinition(i, d) \/ UpdateDefinition(i, d))
    BY <1>1, <1>2 DEF CreateDefinition, UpdateDefinition, Saved
  <1>3. CASE DeleteDefinition(i)
    BY <1>1, <1>3 DEF DeleteDefinition, Saved
  <1>4. CASE RealizePast(i)
    <2>1. Live(i) /\ RealizeAll(i, PastMonths(i)) BY <1>4 DEF RealizePast
    <2>2. defs[i] \in Definition BY <2>1 DEF RowsInv, Live
    <2>3. MonthOf(defs[i].start) \in Int BY <2>2 DEF Definition, MonthOf
    <2>4. PastMonths(i) \in SUBSET Int /\ \A t \in PastMonths(i) : MonthOf(defs[i].start) <= t
      BY <2>3 DEF PastMonths
    <2> QED BY <2>1, <2>3, <2>4, RealizeSettles
  <1>5. ASSUME NEW t \in Months, Realize(i, t) PROVE CountStep
    <2>1. Live(i) /\ RealizeAll(i, {t}) BY <1>5 DEF Realize
    <2>2. t \in Int BY CalendarAssumption
    <2>3. {t} \in SUBSET Int /\ \A u \in {t} : t <= u BY <2>2
    <2> QED BY <2>1, <2>2, <2>3, RealizeSettles
  <1>6. ASSUME NEW t \in Months, Unrealize(i, t) \/ CreateSkip(i, t) \/ DeleteSkip(i, t)
        PROVE  CountStep
    BY <1>1, <1>6 DEF Unrealize, CreateSkip, DeleteSkip, Saved
  <1> QED BY <1>2, <1>3, <1>4, <1>5, <1>6 DEF DefinitionNext

(* A step that adds one entry takes the next id.                           *)
LEMMA OneMore ==
    ASSUME CountInv, made < MaxEntries, made' = made + 1,
           \A e \in Ids : e # made' => entries'[e] = entries[e]
    PROVE  CountStep
  <1>1. made \in Nat /\ MaxEntries \in Nat BY BoundAssumption DEF CountInv
  <1>2. made' \in made .. MaxEntries BY <1>1
  <1>3. ASSUME NEW e \in Ids, entries'[e] # Nothing PROVE e <= made'
    <2>1. CASE e = made' BY <1>1, <2>1
    <2>2. CASE e # made'
      <3>1. e <= made BY <1>3, <2>2 DEF CountInv, Saved
      <3> QED BY <1>1, <3>1 DEF Ids
    <2> QED BY <2>1, <2>2
  <1> QED BY <1>2, <1>3 DEF CountStep

LEMMA CountIsKept == RowsInv /\ CountInv /\ [CashNext]_vars => CountStep
  <1> SUFFICES ASSUME RowsInv, CountInv, [CashNext]_vars PROVE CountStep
    OBVIOUS
  <1>0. made \in 0 .. MaxEntries /\ made \in made .. MaxEntries
    BY BoundAssumption DEF CountInv
  <1>1. ASSUME made' = made, \A e \in Ids : entries'[e] # Nothing => Saved(e)
        PROVE  CountStep
    BY <1>0, <1>1 DEF CountInv, CountStep
  <1>2. ASSUME NEW i \in Definitions, DefinitionNext(i) PROVE CountStep
    BY <1>2, DefinitionKeepsCount
  <1>3. CASE EntryNext(EntryKinds)
    <2>1. ASSUME NEW k \in EntryKinds, NEW date \in EntryDates,
                 CreateEntry(k.kind, date, k.card, k.paid)
          PROVE  CountStep
      BY <2>1, OneMore DEF CreateEntry, Add
    <2>2. ASSUME NEW k \in EntryKinds, NEW date \in EntryDates, NEW e \in Ids, Saved(e),
                 UpdateEntry(e, date, k.card, k.paid)
          PROVE  CountStep
      BY <1>1, <2>2 DEF UpdateEntry, RowsInv, Saved
    <2>3. CASE NextDay BY <1>1, <2>3 DEF NextDay, Saved
    <2> QED BY <1>3, <2>1, <2>2, <2>3 DEF EntryNext
  <1>4. CASE BillsNext
    <2>1. ASSUME entries' = entries, made' = made PROVE CountStep
      BY <1>1, <2>1 DEF Saved
    <2>2. ASSUME NEW s \in Subscriptions,
                 \/ \E t \in BillMonths : CreateSubscription(s, FirstDay(t))
                 \/ \E t \in BillMonths, active \in BOOLEAN :
                       UpdateSubscription(s, active, FirstDay(t))
                 \/ DeleteSubscription(s)
          PROVE  CountStep
      BY <2>1, <2>2 DEF CreateSubscription, UpdateSubscription, DeleteSubscription, cashVars
    <2>3. ASSUME NEW b \in Bill, IssueBill(b) \/ ImportBill(b) \/ DeleteBill(b) PROVE CountStep
      BY <2>1, <2>3 DEF IssueBill, ImportBill, DeleteBill, cashVars
    <2>4. ASSUME NEW b \in Bill, UnpayBill(b) PROVE CountStep
      BY <1>1, <2>4 DEF UnpayBill, Unpaid, Saved
    <2>5. ASSUME NEW c \in Payers,
                 PayFails(c) \/ \E b \in Bill, card \in BOOLEAN : PayReads(c, b, card)
          PROVE  CountStep
      BY <2>1, <2>5 DEF PayFails, PayReads, cashVars
    <2>6. ASSUME NEW c \in Payers, NEW date \in EntryDates, PayCommits(c, date) PROVE CountStep
      BY <2>6, OneMore DEF PayCommits, Add
    <2> QED BY <1>4, <2>2, <2>3, <2>4, <2>5, <2>6 DEF BillsNext
  <1>5. ASSUME NEW e \in Ids, DeleteLinkedEntry(e) PROVE CountStep
    BY <1>1, <1>5 DEF DeleteLinkedEntry, DeleteEntry, RowsInv, Saved
  <1>6. CASE UNCHANGED vars
    BY <1>1, <1>6 DEF vars, cashVars, Saved
  <1> QED BY <1>2, <1>3, <1>4, <1>5, <1>6 DEF CashNext

LEMMA CountAlways == CashSpec => [](RowsInv /\ CountInv)
  <1>1. CashInit => CountInv BY BoundAssumption DEF CashInit, Init, CountInv, Saved
  <1>2. RowsInv /\ CountInv /\ [CashNext]_vars => CountInv'
    <2> SUFFICES ASSUME RowsInv, CountInv, [CashNext]_vars PROVE CountInv'
      OBVIOUS
    <2>1. CountStep BY CountIsKept
    <2>2. made' \in 0 .. MaxEntries BY <2>1, BoundAssumption DEF CountStep, CountInv
    <2> QED BY <2>1, <2>2 DEF CountStep, CountInv, Saved, Ids
  <1> QED BY <1>1, <1>2, RowsInit, RowsAreKept, PTL DEF CashSpec

-----------------------------------------------------------------------------
(* Types *)

(* A definition is in the table of its kind, and a bill links to an id     *)
(* that was given out.                                                     *)
KindInv ==
    /\ skips \subseteq Definitions \X Months
    /\ \A i \in Definitions : Live(i) => defs[i].kind = KindOf(i)

BillRows == bills \in [Bill -> {NoBill} \cup [paid : BOOLEAN, expense : 0 .. made]]

LEMMA DefinitionKeepsKinds ==
    ASSUME RowsInv, KindInv, NEW i \in Definitions, DefinitionNext(i)
    PROVE  KindInv'
  <1> USE DEF KindInv, Live
  <1>1. ASSUME NEW d \in Templates, d.kind = KindOf(i), CreateDefinition(i, d) PROVE KindInv'
    BY <1>1 DEF CreateDefinition, RowsInv, Definitions, KindOf
  <1>2. ASSUME NEW d \in Templates, d.kind = KindOf(i), UpdateDefinition(i, d) PROVE KindInv'
    <2> DEFINE end == IF d.end = NoDate THEN defs[i].end ELSE d.end
               row == [d EXCEPT !.end = end]
    <2>1. d \in Definition BY CalendarAssumption
    <2>2. row.kind = KindOf(i)
      <3> HIDE DEF end
      <3> QED BY <1>2, <2>1 DEF Definition
    <2>3. defs' = [defs EXCEPT ![i] = row] /\ skips' = skips BY <1>2 DEF UpdateDefinition
    <2> HIDE DEF row
    <2> QED BY <2>2, <2>3 DEF RowsInv, Definitions, KindOf
  <1>3. CASE DeleteDefinition(i)
    BY <1>3 DEF DeleteDefinition, RowsInv, Definitions, KindOf
  <1>4. ASSUME defs' = defs, skips' \subseteq Definitions \X Months PROVE KindInv'
    BY <1>4 DEF Definitions, KindOf
  <1>5. CASE RealizePast(i) BY <1>4, <1>5 DEF RealizePast, RealizeAll
  <1>6. ASSUME NEW t \in Months, Realize(i, t) \/ Unrealize(i, t) \/ CreateSkip(i, t) \/ DeleteSkip(i, t)
        PROVE  KindInv'
    BY <1>4, <1>6 DEF Realize, RealizeAll, Unrealize, CreateSkip, DeleteSkip
  <1> QED BY <1>1, <1>2, <1>3, <1>5, <1>6 DEF DefinitionNext

LEMMA KindsAreKept == RowsInv /\ KindInv /\ [CashNext]_vars => KindInv'
  <1> SUFFICES ASSUME RowsInv, KindInv, [CashNext]_vars PROVE KindInv'
    OBVIOUS
  <1>1. ASSUME defs' = defs, skips' = skips PROVE KindInv'
    BY <1>1 DEF KindInv, Live, Definitions, KindOf
  <1>2. ASSUME NEW i \in Definitions, DefinitionNext(i) PROVE KindInv'
    BY <1>2, DefinitionKeepsKinds
  <1>3. CASE EntryNext(EntryKinds)
    BY <1>1, <1>3 DEF EntryNext, CreateEntry, UpdateEntry, NextDay
  <1>4. CASE BillsNext
    BY <1>1, <1>4 DEF BillsNext, CreateSubscription, UpdateSubscription, DeleteSubscription,
       IssueBill, ImportBill, UnpayBill, DeleteBill, PayReads, PayCommits, PayFails, cashVars
  <1>5. ASSUME NEW e \in Ids, DeleteLinkedEntry(e) PROVE KindInv'
    BY <1>1, <1>5 DEF DeleteLinkedEntry, DeleteEntry
  <1>6. CASE UNCHANGED vars BY <1>1, <1>6 DEF vars, cashVars
  <1> QED BY <1>2, <1>3, <1>4, <1>5, <1>6 DEF CashNext

LEMMA BillRowsAreKept == RowsInv /\ CountInv /\ BillRows /\ [CashNext]_vars => BillRows'
  <1> SUFFICES ASSUME RowsInv, CountInv, BillRows, [CashNext]_vars PROVE BillRows'
    OBVIOUS
  <1> DEFINE Row1 == [paid : BOOLEAN, expense : 0 .. made']
  <1>0. /\ made \in Nat /\ made' \in Nat /\ made <= made'
        /\ bills \in [Bill -> {NoBill} \cup Row1]
        /\ [paid |-> FALSE, expense |-> 0] \in Row1
    <2>1. made' \in made .. MaxEntries BY CountIsKept DEF CountStep
    <2>2. made \in Nat /\ made' \in Nat /\ made <= made'
      BY <2>1, BoundAssumption DEF CountInv
    <2>3. 0 .. made \subseteq 0 .. made' /\ 0 \in 0 .. made' BY <2>2
    <2>4. [paid : BOOLEAN, expense : 0 .. made] \subseteq Row1 BY <2>3
    <2> QED BY <2>2, <2>3, <2>4 DEF BillRows
  <1>1. ASSUME bills' \in [Bill -> {NoBill} \cup Row1] PROVE BillRows'
    BY <1>1 DEF BillRows, Bill
  <1> HIDE DEF Row1
  <1>2. ASSUME bills' = bills PROVE BillRows' BY <1>0, <1>1, <1>2
  <1>3. ASSUME NEW b \in Bill, NEW row \in {NoBill} \cup Row1, bills' = [bills EXCEPT ![b] = row]
        PROVE  BillRows'
    BY <1>0, <1>1, <1>3
  <1>4. CASE BillsNext
    <2>1. ASSUME NEW s \in Subscriptions,
                 \/ \E t \in BillMonths : CreateSubscription(s, FirstDay(t))
                 \/ \E t \in BillMonths, active \in BOOLEAN :
                       UpdateSubscription(s, active, FirstDay(t))
          PROVE  BillRows'
      BY <1>2, <2>1 DEF CreateSubscription, UpdateSubscription
    <2>2. ASSUME NEW s \in Subscriptions, DeleteSubscription(s) PROVE BillRows'
      BY <1>0, <1>1, <2>2 DEF DeleteSubscription
    <2>3. ASSUME NEW b \in Bill, IssueBill(b) \/ ImportBill(b) PROVE BillRows'
      <3> DEFINE row == IF Issued(b) THEN bills[b] ELSE [paid |-> FALSE, expense |-> 0]
      <3>1. row \in {NoBill} \cup Row1 BY <1>0
      <3>2. bills' = [bills EXCEPT ![b] = row] BY <2>3 DEF IssueBill, ImportBill, Upsert
      <3> HIDE DEF row
      <3> QED BY <1>3, <3>1, <3>2
    <2>4. ASSUME NEW b \in Bill, UnpayBill(b) \/ DeleteBill(b) PROVE BillRows'
      BY <1>0, <1>3, <2>4 DEF UnpayBill, DeleteBill
    <2>5. ASSUME NEW c \in Payers, NEW date \in EntryDates, PayCommits(c, date) PROVE BillRows'
      <3>1. paying[c].bill \in Bill BY <2>5 DEF PayCommits, RowsInv, Quiet, Payment
      <3>2. made' \in 0 .. made' BY <1>0
      <3>3. [paid |-> TRUE, expense |-> made'] \in Row1 BY <3>2 DEF Row1
      <3> QED BY <1>3, <2>5, <3>1, <3>3 DEF PayCommits
    <2>6. ASSUME NEW c \in Payers,
                 PayFails(c) \/ \E b \in Bill, card \in BOOLEAN : PayReads(c, b, card)
          PROVE  BillRows'
      BY <1>2, <2>6 DEF PayFails, PayReads
    <2> QED BY <1>4, <2>1, <2>2, <2>3, <2>4, <2>5, <2>6 DEF BillsNext
  <1>5. ASSUME NEW e \in Ids, DeleteLinkedEntry(e) PROVE BillRows'
    <2>1. ASSUME NEW b \in Bill, Issued(b) PROVE [paid |-> bills[b].paid, expense |-> 0] \in Row1
      <3>1. bills[b] \in Row1 BY <1>0, <2>1 DEF Issued
      <3>2. 0 \in 0 .. made' BY <1>0
      <3> QED BY <3>1, <3>2 DEF Row1
    <2> QED BY <1>0, <1>1, <1>5, <2>1 DEF DeleteLinkedEntry
  <1>6. CASE \/ UNCHANGED vars
             \/ ((\E i \in Definitions : DefinitionNext(i)) \/ EntryNext(EntryKinds))
                /\ UNCHANGED billVars
    BY <1>2, <1>6 DEF vars, billVars
  <1> QED BY <1>4, <1>5, <1>6 DEF CashNext

-----------------------------------------------------------------------------
(* The reports *)

(* The query by the days of a month and the one by the days of its year,   *)
(* of which the month is picked, find the same entries.                    *)
LEMMA SameEntries ==
    ASSUME RowsInv, NEW t \in Int, NEW kind
    PROVE  EntriesOf(kind, t) = {e \in OfYear(kind, YearOf(t)) : MonthOf(entries[e].date) = t}
  <1>1. ASSUME NEW e \in Ids, Saved(e) PROVE IsDate(entries[e].date)
    BY <1>1 DEF RowsInv, EntryRow, Saved
  <1>2. ASSUME NEW e \in Ids, Saved(e)
        PROVE  /\ FirstDay(t) <= entries[e].date /\ entries[e].date <= LastDay(t)
                    <=> MonthOf(entries[e].date) = t
               /\ MonthOf(entries[e].date) = t
                    => /\ Date(YearOf(t), 1, 1) <= entries[e].date
                       /\ entries[e].date <= Date(YearOf(t), 12, 31)
    <2>1. IsDate(entries[e].date) BY <1>1, <1>2
    <2> QED BY <2>1, DateInMonth
  <1> QED BY <1>2 DEF EntriesOf, OfYear

LEMMA SameActuals ==
    ASSUME RowsInv, NEW t \in Int
    PROVE  /\ ActualIncome(t) = EntriesOf("income", t)
           /\ ActualExpense(t) = {e \in EntriesOf("expense", t) : NotDoubleCounted(e)}
  BY SameEntries DEF ActualIncome, ActualExpense

LEMMA NowIsMonth == RowsInv => Now \in Int
  BY CalendarAssumption DEF RowsInv, Now, MonthOf

(* What is expected of this month: the detail leaves out what it finds     *)
(* realised or skipped, the table asks for each definition.                *)
LEMMA SameExpected ==
    ASSUME NEW kind \in {"income", "expense"}, NEW S \in SUBSET Definitions,
           \A i \in S : KindOf(i) = kind
    PROVE  S \ RealizedOrSkipped(kind, Now) = {i \in S : StillExpected(i, Now)}
  <1>1. RealizedOrSkipped(kind, Now)
          = {entries[e].of : e \in EntriesOf(kind, Now)} \cup {i \in Definitions : <<i, Now>> \in skips}
    BY DEF RealizedOrSkipped, IsCurrent
  <1>2. ASSUME NEW i \in S
        PROVE  i \notin RealizedOrSkipped(kind, Now) <=> StillExpected(i, Now)
    BY <1>1 DEF StillExpected, RealizedIn
  <1> QED BY <1>2

LEMMA Kinds ==
    /\ \A i \in RecurringIncomes : i \in Definitions /\ KindOf(i) = "income"
    /\ \A i \in PlannedExpenses : i \in Definitions /\ KindOf(i) = "expense"
  BY IdAssumption DEF Definitions, KindOf

LEMMA NoneLeftOut ==
    ASSUME NEW t, ~IsCurrent(t), NEW kind
    PROVE  RealizedOrSkipped(kind, t) = {}
  BY DEF RealizedOrSkipped

-----------------------------------------------------------------------------
(* The theorems *)

(* Every variable keeps its type, for any numbers of definitions, entries, *)
(* bills and overlapping payments.                                         *)
THEOREM TypeCorrect == CashSpec => []TypeOK
  <1>1. CashInit => KindInv /\ BillRows
    BY BoundAssumption DEF CashInit, Init, BillsInit, KindInv, BillRows, Live
  <1>2. CashSpec => [](RowsInv /\ CountInv /\ KindInv /\ BillRows)
    BY <1>1, CountAlways, KindsAreKept, BillRowsAreKept, PTL DEF CashSpec
  <1>3. RowsInv /\ CountInv /\ KindInv /\ BillRows => TypeOK
    <2> SUFFICES ASSUME RowsInv, CountInv, KindInv, BillRows PROVE TypeOK
      OBVIOUS
    <2>1. today \in Days /\ made \in 0 .. MaxEntries BY DEF RowsInv, CountInv
    <2>2. \A e \in Ids : Saved(e) =>
             /\ e <= made /\ entries[e].of \in Definitions \cup Bill \cup {None}
             /\ entries[e].of \in Definitions => entries[e].kind = KindOf(entries[e].of)
      BY DEF RowsInv, CountInv, EntryRow, Saved
    <2>3. \A b \in Bill : Issued(b) => bills[b].expense \in 0 .. made
      BY DEF BillRows, Issued
    <2> QED BY <2>1, <2>2, <2>3 DEF KindInv, TypeOK
  <1> QED BY <1>2, <1>3, PTL

(* As long as one payment is under way at a time, an expense that a bill's *)
(* payment made is there once, its bill knows it, and unpaying takes it    *)
(* back.                                                                   *)
THEOREM BillsKnowTheirExpense ==
    ASSUME OnePayer
    PROVE  CashSpec => []BillExpensesLinked
  <1>1. CashSpec => [](RowsInv /\ BillsInv)
    BY RowsInit, BillsInitially, RowsAreKept, BillsAreKept, PTL DEF CashSpec
  <1>2. BillsInv => BillExpensesLinked
    BY DEF BillsInv, BillExpensesLinked, PaidBy
  <1> QED BY <1>1, <1>2, PTL

(* The detail of a month adds up to the month's row in the year's table.   *)
THEOREM DetailIsTheRow == CashSpec => []DetailAgreesWithYear
  <1>1. RowsInv => DetailAgreesWithYear
    <2> SUFFICES ASSUME RowsInv, NEW t \in Months PROVE Detail(t) = Row(t)
      BY DEF DetailAgreesWithYear
    <2>0. t \in Int BY CalendarAssumption
    <2>1. ActualIncome(t) = EntriesOf("income", t)
          /\ ActualExpense(t) = {e \in EntriesOf("expense", t) : NotDoubleCounted(e)}
      BY <2>0, SameActuals
    <2> DEFINE incomes == {i \in RecurringIncomes : AppliesRecurringIncome(i, t)}
               plans == {i \in PlannedExpenses : Eligible(i) /\ AppliesPlanned(i, t)}
    <2>2. RecurringIncomeOf(t) = incomes /\ PlannedOf(t) = plans
      BY DEF RecurringIncomeOf, PlannedOf
    <2>3. incomes \in SUBSET Definitions /\ \A i \in incomes : KindOf(i) = "income"
      BY Kinds
    <2>4. plans \in SUBSET Definitions /\ \A i \in plans : KindOf(i) = "expense"
      BY Kinds
    <2>5. SubscriptionItems(t) = SubscriptionsOf(t)
      BY DEF SubscriptionItems, SubscriptionsOf, BillExpected
    <2>6. InstallmentItems(t) = InstalmentsOf(t) /\ StatementsOf(t) = {s \in Statements : s.due = t}
      BY DEF InstallmentItems, InstalmentsOf, StatementsOf
    <2>7. PlannedItems(t) = plans \ RealizedOrSkipped("expense", t) BY DEF PlannedItems
    <2>8. CASE IsCurrent(t)
      <3>1. t = Now /\ IsPast(t) BY <2>0, <2>8 DEF IsCurrent, IsPast
      <3>2. incomes \ RealizedOrSkipped("income", t) = PendingIncome
        <4>1. incomes \ RealizedOrSkipped("income", Now) = {i \in incomes : StillExpected(i, Now)}
          BY <2>3, SameExpected
        <4> QED BY <2>2, <3>1, <4>1 DEF PendingIncome
      <3>3. plans \ RealizedOrSkipped("expense", t) = PendingPlanned
        <4>1. plans \ RealizedOrSkipped("expense", Now) = {i \in plans : StillExpected(i, Now)}
          BY <2>4, SameExpected
        <4> QED BY <2>2, <3>1, <4>1 DEF PendingPlanned
      <3> HIDE DEF incomes, plans
      <3>4. IncomeItems(t) = Items("entry", EntriesOf("income", t)) \cup Items("recurring", PendingIncome)
        BY <2>8, <3>2 DEF IncomeItems, incomes
      <3>5. ExpenseItems(t)
              = Items("entry", ActualExpense(t)) \cup Items("statement", StatementsOf(t))
                \cup (Items("planned", PendingPlanned) \cup Items("instalment", InstalmentsOf(t))
                      \cup Items("bill", SubscriptionsOf(t)))
        BY <2>1, <2>5, <2>6, <2>7, <2>8, <3>3 DEF ExpenseItems
      <3>6. IncomeForecast(t) = Items("recurring", PendingIncome)
        BY <2>8 DEF IncomeForecast
      <3>7. ExpenseForecast(t)
              = Items("planned", PendingPlanned) \cup Items("instalment", InstalmentsOf(t))
                \cup Items("bill", SubscriptionsOf(t))
        BY <2>8 DEF ExpenseForecast
      <3> QED BY <2>1, <3>4, <3>5, <3>6, <3>7 DEF Detail, Row
    <2>9. CASE ~IsCurrent(t) /\ IsPast(t)
      <3>1. IncomeItems(t) = Items("entry", EntriesOf("income", t)) BY <2>9 DEF IncomeItems
      <3>2. ExpenseItems(t) = Items("entry", ActualExpense(t)) \cup Items("statement", StatementsOf(t))
        BY <2>1, <2>6, <2>9 DEF ExpenseItems
      <3>3. IncomeForecast(t) = {} BY <2>9 DEF IncomeForecast, Items
      <3>4. ExpenseForecast(t) = {} BY <2>9 DEF ExpenseForecast
      <3> QED BY <2>1, <3>1, <3>2, <3>3, <3>4 DEF Detail, Row
    <2>10. CASE ~IsCurrent(t) /\ ~IsPast(t)
      <3>1. \A kind : RealizedOrSkipped(kind, t) = {} BY <2>10, NoneLeftOut
      <3>2. incomes \ RealizedOrSkipped("income", t) = RecurringIncomeOf(t) BY <2>2, <3>1
      <3>3. PlannedItems(t) = PlannedOf(t) BY <2>2, <2>7, <3>1
      <3> HIDE DEF incomes, plans
      <3>4. IncomeItems(t)
              = Items("entry", EntriesOf("income", t)) \cup Items("recurring", RecurringIncomeOf(t))
        BY <2>10, <3>2 DEF IncomeItems, incomes
      <3>5. ExpenseItems(t)
              = Items("entry", ActualExpense(t)) \cup Items("statement", StatementsOf(t))
                \cup (Items("planned", PlannedOf(t)) \cup Items("instalment", InstalmentsOf(t))
                      \cup Items("bill", SubscriptionsOf(t)))
        BY <2>1, <2>5, <2>6, <2>10, <3>3 DEF ExpenseItems
      <3>6. IncomeForecast(t) = Items("recurring", RecurringIncomeOf(t))
        BY <2>10 DEF IncomeForecast
      <3>7. ExpenseForecast(t)
              = Items("planned", PlannedOf(t)) \cup Items("instalment", InstalmentsOf(t))
                \cup Items("bill", SubscriptionsOf(t))
        BY <2>10 DEF ExpenseForecast
      <3> QED BY <2>1, <3>4, <3>5, <3>6, <3>7 DEF Detail, Row
    <2> QED BY <2>8, <2>9, <2>10
  <1> QED BY <1>1, RowsAlways, PTL

(* No definition is both what happened this month and what is expected.    *)
THEOREM NothingCountedTwice == CashSpec => []CountedOnceNow
  <1>1. RowsInv => CountedOnceNow
    <2> SUFFICES ASSUME RowsInv, NEW i \in Definitions,
                        Item(IF i \in PlannedExpenses THEN "planned" ELSE "recurring", i)
                          \in Row(Now).expense \cup Row(Now).income,
                        NEW e \in ActualIncome(Now) \cup ActualExpense(Now), entries[e].of = i
                 PROVE  FALSE
      BY DEF CountedOnceNow
    <2>0. Now \in Int BY NowIsMonth
    <2>1. IsCurrent(Now) /\ IsPast(Now) BY <2>0 DEF IsCurrent, IsPast
    <2>2. \/ i \in PlannedExpenses /\ i \in PendingPlanned
          \/ i \notin PlannedExpenses /\ i \in PendingIncome
      <3> DEFINE what == IF i \in PlannedExpenses THEN "planned" ELSE "recurring"
      <3>1. Row(Now).income
              = Items("entry", ActualIncome(Now)) \cup Items("recurring", PendingIncome)
        BY <2>1 DEF Row, IncomeForecast
      <3>2. Row(Now).expense
              = Items("entry", ActualExpense(Now)) \cup Items("statement", StatementsOf(Now))
                \cup Items("planned", PendingPlanned) \cup Items("instalment", InstalmentsOf(Now))
                \cup Items("bill", SubscriptionsOf(Now))
        BY <2>1 DEF Row, ExpenseForecast
      <3>3. ASSUME NEW a, NEW S, Item(what, i) \in Items(a, S) PROVE a = what /\ i \in S
        <4>1. PICK x \in S : Item(what, i) = Item(a, x) BY <3>3 DEF Items
        <4> HIDE DEF what
        <4>2. what = a /\ i = x
          <5>1. Item(what, i).what = what /\ Item(what, i).id = i BY DEF Item
          <5>2. Item(a, x).what = a /\ Item(a, x).id = x BY DEF Item
          <5> QED BY <4>1, <5>1, <5>2
        <4> QED BY <4>2
      <3>4. \/ Item(what, i) \in Items("recurring", PendingIncome)
            \/ Item(what, i) \in Items("planned", PendingPlanned)
        <4>1. what \notin {"entry", "statement", "instalment", "bill"} OBVIOUS
        <4> HIDE DEF what
        <4>2. Item(what, i) \in Row(Now).expense \cup Row(Now).income BY DEF what
        <4> QED BY <3>1, <3>2, <3>3, <4>1, <4>2
      <3>5. CASE Item(what, i) \in Items("recurring", PendingIncome)
        BY <3>3, <3>5
      <3>6. CASE Item(what, i) \in Items("planned", PendingPlanned)
        BY <3>3, <3>6
      <3> QED BY <3>4, <3>5, <3>6
    <2>3. StillExpected(i, Now) BY <2>2 DEF PendingPlanned, PendingIncome
    <2>4. e \in EntriesOf("income", Now) \cup EntriesOf("expense", Now)
      BY <2>0, SameActuals
    <2>5. Saved(e) /\ entries[e] \in EntryRow /\ e \in EntriesOf(entries[e].kind, Now)
      BY <2>4 DEF EntriesOf, RowsInv, Saved
    <2>6. entries[e].kind = KindOf(i) BY <2>5 DEF EntryRow
    <2> QED BY <2>3, <2>5, <2>6 DEF StillExpected, RealizedIn
  <1> QED BY <1>1, RowsAlways, PTL

(* Of a forecast, the items of a kind are those put in as that kind.       *)
LEMMA OfOneKind ==
    ASSUME NEW what, NEW S, NEW T, \A y \in T : y.what # what
    PROVE  Forecast(what, Items(what, S) \cup T) = S
  <1>1. ASSUME NEW x \in S PROVE x \in Forecast(what, Items(what, S) \cup T)
    <2>1. Item(what, x) \in Items(what, S) BY DEF Items
    <2>2. Item(what, x).what = what /\ Item(what, x).id = x BY DEF Item
    <2> QED BY <2>1, <2>2 DEF Forecast
  <1>2. ASSUME NEW x \in Forecast(what, Items(what, S) \cup T) PROVE x \in S
    <2>1. PICK y \in Items(what, S) \cup T : y.what = what /\ x = y.id
      BY <1>2 DEF Forecast
    <2>2. PICK z \in S : y = Item(what, z) BY <2>1 DEF Items
    <2> QED BY <2>1, <2>2 DEF Item
  <1> QED BY <1>1, <1>2

LEMMA ItemsAreOfKind ==
    ASSUME NEW what, NEW S, NEW y \in Items(what, S)
    PROVE  y.what = what
  BY DEF Items, Item

(* What the cash flow forecasts of this month and of those to come.        *)
LEMMA WhatIsForecast ==
    ASSUME NEW t \in Int, Now \in Int, t >= Now
    PROVE  /\ Forecast("planned", ExpenseForecast(t)) = IF t = Now THEN PendingPlanned ELSE PlannedOf(t)
           /\ Forecast("bill", ExpenseForecast(t)) = SubscriptionsOf(t)
           /\ t > Now => Forecast("recurring", IncomeForecast(t)) = RecurringIncomeOf(t)
  <1> DEFINE plans == IF t = Now THEN PendingPlanned ELSE PlannedOf(t)
             P == Items("planned", plans)
             Q == Items("instalment", InstalmentsOf(t))
             B == Items("bill", SubscriptionsOf(t))
  <1>1. ExpenseForecast(t) = P \cup Q \cup B
    BY DEF ExpenseForecast, IsPast, IsCurrent
  <1>2. /\ \A y \in P : y.what = "planned"
        /\ \A y \in Q : y.what = "instalment"
        /\ \A y \in B : y.what = "bill"
    BY ItemsAreOfKind
  <1>3. Forecast("planned", P \cup (Q \cup B)) = plans
    <2>1. \A y \in Q \cup B : y.what # "planned" BY <1>2
    <2> HIDE DEF plans, Q, B
    <2> QED BY <2>1, OfOneKind
  <1>4. Forecast("bill", B \cup (P \cup Q)) = SubscriptionsOf(t)
    <2>1. \A y \in P \cup Q : y.what # "bill" BY <1>2
    <2> HIDE DEF P, Q
    <2> QED BY <2>1, OfOneKind
  <1>5. ASSUME t > Now PROVE Forecast("recurring", IncomeForecast(t)) = RecurringIncomeOf(t)
    <2>1. IncomeForecast(t) = Items("recurring", RecurringIncomeOf(t)) \cup {}
      BY <1>5 DEF IncomeForecast, IsPast, IsCurrent
    <2> DEFINE S == RecurringIncomeOf(t)
               T == {}
    <2>2. \A y \in T : y.what # "recurring" OBVIOUS
    <2>3. IncomeForecast(t) = Items("recurring", S) \cup T BY <2>1
    <2> HIDE DEF S, T
    <2>4. Forecast("recurring", Items("recurring", S) \cup T) = S BY <2>2, OfOneKind
    <2> QED BY <2>3, <2>4 DEF S
  <1>6. P \cup Q \cup B = P \cup (Q \cup B) /\ P \cup Q \cup B = B \cup (P \cup Q)
    <2> HIDE DEF P, Q, B
    <2> QED OBVIOUS
  <1> HIDE DEF P, Q, B
  <1> QED BY <1>1, <1>3, <1>4, <1>5, <1>6

(* The summaries and the forecasts count what the cash flow counts.        *)
THEOREM ReportsTellTheSame == CashSpec => []ReportsAgree
  <1>1. RowsInv => SummariesAgree
    <2> SUFFICES ASSUME RowsInv, NEW t \in Months
                 PROVE  /\ ExpenseSummary(t) = ActualExpense(t)
                        /\ Grid(t) = ActualExpense(t)
                        /\ IncomeSummary(t) = ActualIncome(t)
      BY DEF SummariesAgree
    <2>1. t \in Int BY CalendarAssumption
    <2> QED BY <2>1, SameActuals DEF ExpenseSummary, Grid, IncomeSummary, ActualExpense
  <1>2. RowsInv => ForecastsAgree
    <2> SUFFICES ASSUME RowsInv PROVE ForecastsAgree
      OBVIOUS
    <2>0. Now \in Int /\ Months \subseteq Int BY NowIsMonth, CalendarAssumption
    <2>1. \A t : PlannedForecast(t) = PlannedOf(t)
      BY DEF PlannedForecast, PlannedOf, AppliesPlanned, Eligible
    <2>2. \A t \in Months : t > Now => PlannedForecast(t) = Forecast("planned", ExpenseForecast(t))
      BY <2>0, <2>1, WhatIsForecast
    <2>3. {i \in PlannedForecast(Now) : StillExpected(i, Now)}
            = Forecast("planned", ExpenseForecast(Now))
      <3>1. Forecast("planned", ExpenseForecast(Now)) = PendingPlanned
        BY <2>0, WhatIsForecast
      <3> QED BY <2>1, <3>1 DEF PendingPlanned
    <2>4. ASSUME NEW t \in MonthsOf(YearOf(Now)), t >= Now
          PROVE  {s \in Subscriptions : <<s, t>> \in SummaryBills}
                   = {x.of : x \in Forecast("bill", ExpenseForecast(t))}
      <3>1. t \in Int BY <2>0 DEF MonthsOf, YearOf
      <3>2. Forecast("bill", ExpenseForecast(t)) = SubscriptionsOf(t)
        BY <2>0, <2>4, <3>1, WhatIsForecast
      <3>3. {x.of : x \in SubscriptionsOf(t)} = {s \in Subscriptions : BillExpected(s, t)}
        <4>1. \A s : Charge(s, t).of = s BY DEF Charge
        <4> QED BY <4>1 DEF SubscriptionsOf
      <3>4. ASSUME NEW s \in Subscriptions
            PROVE  <<s, t>> \in SummaryBills <=> BillExpected(s, t)
        <4>1. <<s, t>> \in SummaryBills
                <=> /\ Has(s) /\ subs[s].active /\ t >= Now /\ t >= MonthOf(subs[s].start)
                    /\ ~(t \in BillMonths /\ Paid(<<s, t>>))
          BY DEF SummaryBills
        <4> QED BY <2>4, <4>1 DEF BillExpected
      <3> QED BY <3>2, <3>3, <3>4
    <2>5. ASSUME NEW t \in MonthsOf(YearOf(Now)), t > Now
          PROVE  {i \in RecurringIncomes : <<i, t>> \in RemainingRecurring(Now)}
                   = Forecast("recurring", IncomeForecast(t))
      <3>1. t \in Int BY <2>0 DEF MonthsOf, YearOf
      <3>2. t >= Now BY <2>0, <2>5, <3>1
      <3>3. Forecast("recurring", IncomeForecast(t)) = RecurringIncomeOf(t)
        BY <2>0, <2>5, <3>1, <3>2, WhatIsForecast
      <3>4. \A i \in RecurringIncomes :
              <<i, t>> \in RemainingRecurring(Now) <=> AppliesRecurringIncome(i, t)
        BY <2>5 DEF RemainingRecurring, AppliesRecurringIncome
      <3> QED BY <3>3, <3>4 DEF RecurringIncomeOf
    <2> QED BY <2>2, <2>3, <2>4, <2>5 DEF ForecastsAgree
  <1>3. PendingAgrees
    <2> SUFFICES ASSUME NEW i \in Definitions, Live(i),
                        NEW t \in DuePeriods(defs[i], today) \cap Months
                 PROVE  <<i, t>> \in Pending <=> Status(i, t) = "pending"
      BY DEF PendingAgrees
    <2>1. <<i, t>> \in Pending
            <=> ~OccursOn(i, DateFor(defs[i], t)) /\ <<i, t>> \notin skips
      BY DEF Pending
    <2> QED BY <2>1 DEF Status
  <1>4. RowsInv => ReportsAgree BY <1>1, <1>2, <1>3 DEF ReportsAgree
  <1> QED BY <1>4, RowsAlways, PTL

(* Realising the past leaves nothing to ask: every period that is due gets *)
(* its occurrence, and none of them another's id.                          *)
THEOREM PastGetsSettled == CashSpec => PastIsSettled
  <1>1. RowsInv /\ CountInv =>
          \A i \in Definitions : RealizePast(i) => {p \in Pending' : p[1] = i} = {}
    <2> SUFFICES ASSUME RowsInv, CountInv, NEW i \in Definitions, RealizePast(i),
                        NEW p \in Pending', p[1] = i
                 PROVE  FALSE
      OBVIOUS
    <2>1. Live(i) /\ RealizeAll(i, PastMonths(i)) BY DEF RealizePast
    <2>2. defs[i] \in Definition BY <2>1 DEF RowsInv, Live
    <2>3. MonthOf(defs[i].start) \in Int BY <2>2 DEF Definition, MonthOf
    <2>4. PastMonths(i) \in SUBSET Int /\ \A t \in PastMonths(i) : MonthOf(defs[i].start) <= t
      BY <2>3 DEF PastMonths
    <2>5. today' = today /\ defs' = defs BY <2>1 DEF RealizeAll
    <2>6. p[2] \in DuePeriods(defs[i], today)
          /\ ~\E e \in Ids : /\ entries'[e] # Nothing /\ entries'[e].of = i
                             /\ entries'[e].date = DateFor(defs[i], p[2])
      BY <2>5 DEF Pending, OccursOn, Saved, Ids
    <2>7. p[2] \in PastMonths(i) /\ Due(i, p[2])
      BY <2>6 DEF DuePeriods, PastMonths, Due
    <2>8. \A t \in PastMonths(i) : Due(i, t) =>
             \E e \in Ids : /\ entries'[e] # Nothing /\ entries'[e].of = i
                            /\ entries'[e].date = DateFor(defs[i], t)
      BY <2>1, <2>3, <2>4, RealizeSettles
    <2> QED BY <2>6, <2>7, <2>8
  <1>2. RowsInv /\ CountInv /\ [CashNext]_vars =>
          [\A i \in Definitions : RealizePast(i) => {p \in Pending' : p[1] = i} = {}]_vars
    BY <1>1
  <1> QED BY <1>2, CountAlways, PTL DEF CashSpec, PastIsSettled
=============================================================================
