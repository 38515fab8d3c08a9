---------------------------- MODULE CardPayments -----------------------------
(***************************************************************************)
(* Paying the statements of one credit card (api/v1/credit_cards.py): a    *)
(* payment that does not cover a statement leaves a remainder, which goes  *)
(* into the card's debt of the current period.                             *)
(*                                                                         *)
(* Amounts are abstract: the debt is what it is made of, the figure the    *)
(* user last typed and, for each statement, how often its remainder was    *)
(* added.                                                                  *)
(***************************************************************************)
EXTENDS Naturals

CONSTANTS
  Clients,      \* payments that may be under way at once
  MaxRows,      \* bound: statements saved
  MaxEdits      \* bound: times the user types a debt

VARIABLES
  rows,      \* credit_card_statements, by id
  debt,      \* current_period_debt
  paying,    \* the payment of each client
  made       \* the id given out last

vars == <<rows, debt, paying, made>>

Ids == 1 .. MaxRows
RowStates == {"none", "unpaid", "paid"}
Quiet == [step |-> "quiet"]

Init ==
  /\ rows = [i \in Ids |-> "none"] /\ made = 0
  /\ debt = [typed |-> 0, carried |-> [i \in Ids |-> 0]]
  /\ paying = [c \in Clients |-> Quiet]

Saved(i) == rows[i] # "none"

\* create_statement, and an import of a period that is new.
CreateStatement ==
  /\ made < MaxRows /\ made' = made + 1
  /\ rows' = [rows EXCEPT ![made'] = "unpaid"]
  /\ UNCHANGED <<debt, paying>>

\* update_statement can set paid_at, and never clears it: a null is "unchanged". An
\* import of a period that is there leaves paid_at alone.
UpdateStatement(i) ==
  Saved(i) /\ rows' = [rows EXCEPT ![i] = "paid"] /\ UNCHANGED <<debt, paying, made>>

DeleteStatement(i) ==
  Saved(i) /\ rows' = [rows EXCEPT ![i] = "none"] /\ UNCHANGED <<debt, paying, made>>

\* update_credit_card, with a debt.
TypeDebt ==
  /\ debt.typed < MaxEdits
  /\ debt' = [typed |-> debt.typed + 1, carried |-> [i \in Ids |-> 0]]
  /\ UNCHANGED <<rows, paying, made>>

-----------------------------------------------------------------------------
(* pay_statement: it reads the card, then the statement, then writes both *)

Reads(step) == IF step = 1 THEN "card" ELSE "statement"

Read(what, i) == IF what = "card" THEN [debt |-> debt] ELSE [paid |-> rows[i] = "paid"]
Join(f, g) == [k \in DOMAIN f \cup DOMAIN g |-> IF k \in DOMAIN f THEN f[k] ELSE g[k]]

\* `part' says that the payment leaves a remainder. More than the statement's
\* amount is refused (422).
PayReadsCard(c, i, part) ==
  /\ paying[c] = Quiet /\ Saved(i)
  /\ paying' = [paying EXCEPT ![c] = [step |-> "one", id |-> i, part |-> part,
                                      copy |-> Read(Reads(1), i)]]
  /\ UNCHANGED <<rows, debt, made>>

PayReadsStatement(c) ==
  /\ paying[c] # Quiet /\ paying[c].step = "one" /\ Saved(paying[c].id)
  /\ LET r == paying[c]
     IN  paying' = [paying EXCEPT ![c] = [step |-> "two", id |-> r.id, part |-> r.part,
                                          copy |-> Join(r.copy, Read(Reads(2), r.id))]]
  /\ UNCHANGED <<rows, debt, made>>

\* mutant: every payment carries its remainder, not the first only
Carries_always(r) == r.part
Carries(r) == r.part /\ ~r.copy.paid

\* The commit writes paid_at, and the debt of the copy with the remainder added.
PayCommits(c) ==
  /\ paying[c] # Quiet /\ paying[c].step = "two"
  /\ LET r == paying[c]
     IN  /\ Saved(r.id)
         /\ rows' = [rows EXCEPT ![r.id] = "paid"]
         /\ debt' = IF Carries(r) THEN [r.copy.debt EXCEPT !.carried[r.id] = @ + 1] ELSE debt
  /\ paying' = [paying EXCEPT ![c] = Quiet]
  /\ UNCHANGED made

\* The statement was deleted meanwhile: 404, or an UPDATE that finds no row.
PayFails(c) ==
  /\ paying[c] # Quiet /\ ~Saved(paying[c].id)
  /\ paying' = [paying EXCEPT ![c] = Quiet]
  /\ UNCHANGED <<rows, debt, made>>

Next ==
  \/ CreateStatement \/ TypeDebt
  \/ \E i \in Ids : UpdateStatement(i) \/ DeleteStatement(i)
  \/ \E c \in Clients :
       \/ \E i \in Ids, part \in BOOLEAN : PayReadsCard(c, i, part)
       \/ PayReadsStatement(c) \/ PayCommits(c) \/ PayFails(c)

Spec == Init /\ [][Next]_vars

-----------------------------------------------------------------------------
(* Properties *)

Debt == [typed : 0 .. MaxEdits, carried : [Ids -> Nat]]

\* Type invariant.
TypeOK == rows \in [Ids -> RowStates] /\ debt \in Debt /\ made \in 0 .. MaxRows

\* A statement is owed once: it is unpaid, or its remainder is in the current
\* period's debt, and that once, however many payments of it overlap or are
\* repeated ("tekrar cagrida cift eklenmez"; "cift-carry onle").
OwedOnce ==
  \A i \in Ids : /\ debt.carried[i] <= 1
                 /\ debt.carried[i] = 1 /\ Saved(i) => rows[i] = "paid"

\* A first payment's remainder is in the debt until the user types another figure.
CarryKept ==
  [][\A i \in Ids : debt.carried[i] = 1 /\ debt'.typed = debt.typed => debt'.carried[i] = 1]_vars
=============================================================================
