----------------------------- MODULE Instalments -----------------------------
(***************************************************************************)
(* The instalment plans of one credit card (api/v1/credit_cards.py), which *)
(* its statements keep up to date: credit_card_installments says what of a *)
(* plan is still to come, for the cash-flow projection and the total debt. *)
(*                                                                         *)
(* A plan's slices are the months they fall in; the plan itself, as the    *)
(* bank knows it, is a constant, and the statement that falls due in month *)
(* m contains the slices of month m. Amounts are left out.                 *)
(***************************************************************************)
EXTENDS Recurrence

CONSTANTS
  Plans,        \* instalment plans, by their normalised description
  Start,        \* for each plan the month of its first slice ...
  Count,        \* ... and how many there are
  AnyOrder,     \* TRUE: a statement may be imported after a later one
  MaxMonth      \* bound: months

VARIABLES
  month,     \* the current month
  due,       \* credit_card_statements: the months they fall due in
  plans,     \* credit_card_installments, by plan; since and edited are history
  latest     \* history: the latest due month of a statement saved so far

vars == <<month, due, plans, latest>>

Months == 1 .. MaxMonth
NoPlan == [first |-> 0, left |-> -1, since |-> 0, edited |-> FALSE]
End(p) == Start[p] + Count[p]          \* the month after the last slice

Init == month = 1 /\ due = {} /\ plans = [p \in Plans |-> NoPlan] /\ latest = 0

Known(p) == plans[p] # NoPlan

-----------------------------------------------------------------------------
(* The plans *)

\* The latest statement a plan has met.
Met(q, m) == IF q.since > m THEN q.since ELSE m

\* mutant: the slice of the due month itself is not counted as covered
Covered_short(q, m) == m - q.first
Covered(q, m) == m - q.first + 1

\* _reconcile_card_installments: the statement's total contains every slice up to
\* its due month. A plan that has begun moves on to the month after; one with
\* nothing left is deleted.
Reconcile(q, m) ==
  IF q = NoPlan THEN NoPlan
  ELSE IF q.first > m THEN [q EXCEPT !.since = Met(q, m)]
  ELSE IF q.left <= Covered(q, m) THEN NoPlan
  ELSE [first |-> m + 1, left |-> q.left - Covered(q, m), since |-> Met(q, m), edited |-> q.edited]

\* mutant: the first slice to come is put in the due month itself
Upsert_same(p, q, m) ==
  LET left == End(p) - m - 1
  IN  IF left <= 0 THEN NoPlan
      ELSE [first |-> m, left |-> left, since |-> Met(q, m), edited |-> FALSE]

\* _upsert_installments: slice k of n is in the statement, so n - k are to come, from
\* the next month on; written as they are, whatever the row said.
Upsert(p, q, m) ==
  LET left == End(p) - m - 1
  IN  IF left <= 0 THEN NoPlan
      ELSE [first |-> m + 1, left |-> left, since |-> Met(q, m), edited |-> FALSE]

\* _calc_remaining: slices that fall after the current month, or all, if the day of the
\* first is still to come (early).
Remaining(first, n, early) ==
  IF month < first \/ (month = first /\ early) THEN n ELSE IF n <= month - first + 1 THEN 0 ELSE n - (month - first + 1)

\* create_installment, of a plan that may have begun. The row begins on the first of a month.
CreateInstallment(p, early) ==
  /\ ~Known(p)
  /\ LET left == Remaining(Start[p], Count[p], early)
     IN  plans' = [plans EXCEPT ![p] = [first |-> End(p) - left, left |-> left,
                                        since |-> 0, edited |-> FALSE]]
  /\ UNCHANGED <<month, due, latest>>

\* update_installment, with nothing but a note: what is left is computed anew from
\* the first slice to come, as if that were the first of the plan.
UpdateInstallment(p) ==
  /\ Known(p)
  /\ plans' = [plans EXCEPT ![p] = [first |-> @.first, left |-> Remaining(@.first, Count[p], FALSE),
                                     since |-> @.since, edited |-> TRUE]]
  /\ UNCHANGED <<month, due, latest>>

DeleteInstallment(p) ==
  /\ Known(p) /\ plans' = [plans EXCEPT ![p] = NoPlan]
  /\ UNCHANGED <<month, due, latest>>

-----------------------------------------------------------------------------
(* The statements *)

InOrder(m) == AnyOrder \/ m >= latest
Later(m) == IF m > latest THEN m ELSE latest

\* create_statement: 409 for a month that has one; the unique index decides races.
CreateStatement(m) ==
  /\ InOrder(m) /\ m \notin due
  /\ due' = due \cup {m} /\ latest' = Later(m)
  /\ plans' = [p \in Plans |-> Reconcile(plans[p], m)]
  /\ UNCHANGED month

\* commit_statement_import, in one transaction: the statement is updated or inserted,
\* every plan is reconciled, and the plans the parser found on it are set. It may
\* miss some.
Import(m, listed) ==
  /\ InOrder(m)
  /\ listed \subseteq {p \in Plans : Start[p] <= m /\ m < End(p)}
  /\ due' = due \cup {m} /\ latest' = Later(m)
  /\ plans' = [p \in Plans |-> LET q == Reconcile(plans[p], m)
                               IN  IF p \in listed THEN Upsert(p, q, m) ELSE q]
  /\ UNCHANGED month

DeleteStatement(m) ==
  m \in due /\ due' = due \ {m} /\ UNCHANGED <<month, plans, latest>>

NextMonth == month < MaxMonth /\ month' = month + 1 /\ UNCHANGED <<due, plans, latest>>

Next ==
  \/ \E p \in Plans : UpdateInstallment(p) \/ DeleteInstallment(p)
  \/ \E p \in Plans, early \in BOOLEAN : CreateInstallment(p, early)
  \/ \E m \in Months : CreateStatement(m) \/ DeleteStatement(m)
  \/ \E m \in Months, listed \in SUBSET Plans : Import(m, listed)
  \/ NextMonth

Spec == Init /\ [][Next]_vars

-----------------------------------------------------------------------------
(* Properties *)

Plan == [first : Nat, left : Int, since : 0 .. MaxMonth, edited : BOOLEAN]

\* Type invariant.
TypeOK ==
  /\ month \in Nat /\ latest \in 0 .. MaxMonth
  /\ due \subseteq Months /\ plans \in [Plans -> Plan]
  /\ \A p \in Plans : Known(p) => plans[p].left >= 0

\* A slice that a statement's total contains is not projected by the cash flow as well:
\* no plan falls in a month up to the due month of the latest statement saved since the
\* plan was entered (_upsert_installments: "cift sayimsiz").
SlicesCountedOnce ==
  \A p \in Plans, m \in Months : m <= plans[p].since => ~InstallmentApplies(plans[p], m)

\* What is left of a plan ends when the bank's plan ends, whichever statements were
\* imported, typed in or skipped, and whichever of them the parser read it from
\* (create_installment: installments_remaining is the number of slices to come).
PlansEndOnTime ==
  \A p \in Plans : Known(p) /\ ~plans[p].edited => plans[p].first + plans[p].left = End(p)

\* The same of a plan whose row was edited, its first month and its count left alone.
EditsKeepPlans == \A p \in Plans : Known(p) => plans[p].first + plans[p].left = End(p)
=============================================================================
