--------------------------------- MODULE Bills ---------------------------------
(***************************************************************************)
(* The subscriptions of the user of Cashbook and their bills               *)
(* (api/v1/subscriptions.py): budget (no row), issued, paid. A bill that   *)
(* is paid has an expense, which its row links to. A payment reads the     *)
(* bill, may wait for exchange rates, and commits.                         *)
(***************************************************************************)
EXTENDS Cashbook

CONSTANTS
  Subscriptions,   \* ids; also what import_bill_commit matches a bill with
  BillMonths,      \* bound: the periods of bills
  Currencies,      \* bound: of subscriptions
  Payers           \* payments that may be under way at once

VARIABLES
  subs,     \* subscriptions, by id
  bills,    \* subscription_bills: unique by subscription and period
  currency, \* the currency columns of both tables
  paying    \* the payment of each client

billVars == <<subs, bills, currency, paying>>

Bill == Subscriptions \X BillMonths
\* An entry's link is a definition, a bill or nothing, and tells which.
ASSUME LinkAssumption == (Definitions \cup {None}) \cap Bill = {}

NoBill == [state |-> "none"]
Quiet == [step |-> "quiet"]

BillsInit ==
  /\ subs = [s \in Subscriptions |-> NotYet]
  /\ bills = [b \in Bill |-> NoBill] /\ paying = [c \in Payers |-> Quiet]
  /\ currency = [x \in Subscriptions \cup Bill |-> NotYet]

Has(s) == subs[s] \notin {NotYet, Gone}
Issued(b) == bills[b] # NoBill
Paid(b) == Issued(b) /\ bills[b].paid

-----------------------------------------------------------------------------
(* The subscriptions *)

\* The currency of a subscription is that of its budget, and of the bills to come.
SetCurrency(s) == \E c \in Currencies : currency' = [currency EXCEPT ![s] = c]

CreateSubscription(s, start) ==
  /\ subs[s] = NotYet /\ subs' = [subs EXCEPT ![s] = [active |-> TRUE, start |-> start]]
  /\ SetCurrency(s)
  /\ UNCHANGED <<cashVars, bills, paying>>

UpdateSubscription(s, active, start) ==
  /\ Has(s) /\ subs' = [subs EXCEPT ![s] = [active |-> active, start |-> start]]
  /\ SetCurrency(s)
  /\ UNCHANGED <<cashVars, bills, paying>>

\* A payment under way of a bill that is deleted has lost its row.
Lose(gone) ==
  [c \in Payers |-> IF paying[c] # Quiet /\ paying[c].bill \in gone
                    THEN [paying[c] EXCEPT !.step = "lost"] ELSE paying[c]]

\* The bills go with the subscription; their expenses stay.
DeleteSubscription(s) ==
  /\ Has(s) /\ subs' = [subs EXCEPT ![s] = Gone]
  /\ bills' = [b \in Bill |-> IF b[1] = s THEN NoBill ELSE bills[b]]
  /\ paying' = Lose({s} \X BillMonths)
  /\ UNCHANGED <<cashVars, currency>>

-----------------------------------------------------------------------------
(* The bills *)

\* _upsert_bill: the amounts and dates are written, whether the bill is new, issued
\* or paid; the payment and the currency of a bill that is there are left alone.
Upsert(b) ==
  [bills EXCEPT ![b] = IF Issued(b) THEN @ ELSE [paid |-> FALSE, expense |-> 0]]
UpsertCurrency(b, c) == [currency EXCEPT ![b] = IF Issued(b) THEN @ ELSE c]

IssueBill(b) ==
  /\ Has(b[1]) /\ bills' = Upsert(b)
  /\ currency' = UpsertCurrency(b, currency[b[1]]) /\ UNCHANGED <<cashVars, subs, paying>>

\* import_bill_commit: the subscription is found, or made to begin with the period.
ImportBill(b) ==
  /\ subs[b[1]] # Gone
  /\ subs' = [subs EXCEPT ![b[1]] = IF Has(b[1]) THEN @
                                    ELSE [active |-> TRUE, start |-> FirstDay(b[2])]]
  /\ \E c \in Currencies :
       LET of == IF Has(b[1]) THEN currency[b[1]] ELSE c
       IN  currency' = [UpsertCurrency(b, of) EXCEPT ![b[1]] = of]
  /\ bills' = Upsert(b) /\ UNCHANGED <<cashVars, paying>>

\* pay_bill: 409 for a bill that is paid.
PayReads(c, b, card) ==
  /\ paying[c] = Quiet /\ Issued(b) /\ ~Paid(b)
  /\ paying' = [paying EXCEPT ![c] = [step |-> "read", bill |-> b, card |-> card]]
  /\ UNCHANGED <<cashVars, subs, bills, currency>>

\* The expense is inserted, and the bill written with its id.
PayCommits(c, date) ==
  /\ paying[c].step = "read"
  /\ made < MaxEntries /\ made' = made + 1
  /\ entries' = Add([e \in {made'} |->
                      [kind |-> "expense", of |-> paying[c].bill, date |-> date,
                       card |-> paying[c].card, paid |-> TRUE]])
  /\ bills' = [bills EXCEPT ![paying[c].bill] = [paid |-> TRUE, expense |-> made']]
  /\ paying' = [paying EXCEPT ![c] = Quiet]
  /\ UNCHANGED <<today, defs, skips, subs, currency>>

\* The bill was deleted meanwhile: the UPDATE finds no row, and all is rolled back.
PayFails(c) ==
  /\ paying[c].step = "lost"
  /\ paying' = [paying EXCEPT ![c] = Quiet] /\ UNCHANGED <<cashVars, subs, bills, currency>>

\* mutant: the expense stays
Unpaid_kept(b) == entries
Unpaid(b) == [e \in Ids |-> IF e = bills[b].expense THEN Nothing ELSE entries[e]]

\* unpay_bill: the linked expense is deleted, the link and the payment are cleared.
UnpayBill(b) ==
  /\ Issued(b) /\ entries' = Unpaid(b)
  /\ bills' = [bills EXCEPT ![b] = [paid |-> FALSE, expense |-> 0]]
  /\ UNCHANGED <<today, defs, skips, made, subs, currency, paying>>

\* delete_bill: 409 for a bill that is paid.
DeleteBill(b) ==
  /\ Issued(b) /\ ~Paid(b) /\ bills' = [bills EXCEPT ![b] = NoBill]
  /\ paying' = Lose({b}) /\ UNCHANGED <<cashVars, subs, currency>>

\* delete_expense, with its ON DELETE SET NULL.
DeleteLinkedEntry(e) ==
  /\ DeleteEntry(e)
  /\ bills' = [b \in Bill |-> IF Issued(b) /\ bills[b].expense = e
                              THEN [paid |-> bills[b].paid, expense |-> 0] ELSE bills[b]]
  /\ UNCHANGED <<subs, currency, paying>>

BillsNext ==
  \/ \E s \in Subscriptions :
       \/ \E t \in BillMonths : CreateSubscription(s, FirstDay(t))
       \/ \E t \in BillMonths, active \in BOOLEAN : UpdateSubscription(s, active, FirstDay(t))
       \/ DeleteSubscription(s)
  \/ \E b \in Bill : IssueBill(b) \/ ImportBill(b) \/ UnpayBill(b) \/ DeleteBill(b)
  \/ \E c \in Payers :
       \/ \E b \in Bill, card \in BOOLEAN : PayReads(c, b, card)
       \/ \E date \in EntryDates : PayCommits(c, date)
       \/ PayFails(c)

-----------------------------------------------------------------------------
(* Properties *)

\* An expense that a bill's payment made is there once, and its bill knows it: unpaying
\* takes it back, so that no bill is both an expense and still to be paid ("bağlı
\* Expense'i sil"; "ödenmiş → 0 (actual'da)").
BillExpensesLinked ==
  \A e \in Ids :
    LET b == entries[e].of
    IN  Saved(e) /\ b \in Bill /\ Issued(b) => bills[b] = [paid |-> TRUE, expense |-> e]
=============================================================================
