---------------------------- MODULE HouseholdProofs ----------------------------
(***************************************************************************)
(* The parts of MC_Household, for any number of plans, statements,         *)
(* payments, days, reports, requests and rows: first each by itself, by an *)
(* invariant of its own, then together.                                    *)
(***************************************************************************)
EXTENDS MC_Household, Integers, FiniteSetTheorems, FunctionTheorems, WellFoundedInduction, TLAPS

-----------------------------------------------------------------------------
(* Payments of statements. OwedOnce is not inductive: a payment writes the *)
(* debt of a copy of the card, with its remainder added if its copy of the *)
(* statement said unpaid. The copies have to be in order too, and it       *)
(* matters that the card's is the older one.                               *)

Bounds == MaxRows \in Nat /\ MaxEdits \in Nat

(* A payment under way, when it has read the card, and both.               *)
ReadCard == [step : {"one"}, id : Ids, part : BOOLEAN, copy : [debt : Debt]]
ReadBoth == [step : {"two"}, id : Ids, part : BOOLEAN, copy : [debt : Debt, paid : BOOLEAN]]

PaysTyped == TypeOK /\ paying \in [Clients -> {Quiet} \cup ReadCard \cup ReadBoth]

(* Ids are given once.                                                     *)
FreshIds == \A i \in Ids : Saved(i) => i <= made

(* A debt owes each statement at most once, and only one that is paid or   *)
(* gone.                                                                   *)
Fits(d) ==
  \A i \in Ids : /\ d.carried[i] <= 1
                 /\ d.carried[i] = 1 => i <= made /\ rows[i] # "unpaid"

CopiesFit == \A c \in Clients : paying[c] # Quiet => Fits(paying[c].copy.debt)

(* A payment that found its statement unpaid has a card that does not owe  *)
(* it yet.                                                                 *)
CardIsOlder ==
  \A c \in Clients : paying[c] \in ReadBoth /\ ~paying[c].copy.paid =>
    paying[c].copy.debt.carried[paying[c].id] = 0

Known == \A c \in Clients : paying[c] # Quiet => paying[c].id <= made

PaymentsInv == PaysTyped /\ FreshIds /\ Fits(debt) /\ CopiesFit /\ CardIsOlder /\ Known

LEMMA Steps ==
  ASSUME PaysTyped, NEW c \in Clients, paying[c] # Quiet
  PROVE  /\ paying[c].step = "one" => paying[c] \in ReadCard
         /\ paying[c].step = "two" => paying[c] \in ReadBoth
         /\ paying[c].copy.debt \in Debt /\ paying[c].id \in Ids
  BY DEF PaysTyped, ReadCard, ReadBoth, Quiet

LEMMA PaymentsInit == Bounds /\ Init => PaymentsInv
  BY DEF Bounds, Init, PaymentsInv, PaysTyped, TypeOK, FreshIds, Fits, CopiesFit, CardIsOlder, Known,
         Debt, RowStates, Saved, Quiet, ReadBoth, Ids

LEMMA RowsMove ==
  ASSUME Bounds, PaymentsInv, UNCHANGED <<debt, paying>>,
         made' \in 0 .. MaxRows, made <= made', rows' \in [Ids -> RowStates],
         \A i \in Ids : i <= made /\ rows[i] # "unpaid" => rows'[i] # "unpaid",
         \A i \in Ids : rows'[i] # "none" => i <= made'
  PROVE  PaymentsInv'
  <1>1. PaysTyped' BY DEF PaymentsInv, PaysTyped, TypeOK
  <1>2. FreshIds' BY DEF FreshIds, Saved
  <1>3. made' \in Nat /\ made \in Nat BY DEF Bounds, PaymentsInv, PaysTyped, TypeOK
  <1>4. Fits(debt)'
    <2>1. debt \in Debt /\ Fits(debt) /\ TypeOK BY DEF PaymentsInv, PaysTyped, TypeOK
    <2>2. debt' = debt OBVIOUS
    <2> QED BY <1>3, <2>1, <2>2 DEF Fits, Bounds, Debt, Ids
  <1>5. CopiesFit'
    <2> SUFFICES ASSUME NEW c \in Clients, paying[c] # Quiet
                 PROVE  Fits(paying[c].copy.debt)'
      BY DEF CopiesFit
    <2>1. paying[c].copy.debt \in Debt /\ Fits(paying[c].copy.debt)
      BY Steps DEF PaymentsInv, CopiesFit
    <2> QED BY <1>3, <2>1 DEF Fits, Debt, Ids
  <1>6. CardIsOlder' BY DEF PaymentsInv, CardIsOlder
  <1>7. Known'
    <2> SUFFICES ASSUME NEW c \in Clients, paying[c] # Quiet PROVE paying[c].id <= made'
      BY DEF Known
    <2>1. paying[c].id \in Nat /\ paying[c].id <= made BY Steps DEF PaymentsInv, Known, Ids
    <2> QED BY <1>3, <2>1
  <1> QED BY <1>1, <1>2, <1>4, <1>5, <1>6, <1>7 DEF PaymentsInv

(* What a payment knows when it has read the card first, the statement then. *)
LEMMA BothCopies ==
  ASSUME NEW d \in Debt, NEW i \in Ids
  PROVE  Join([debt |-> d], Read(Reads(2), i)) = [debt |-> d, paid |-> (rows[i] = "paid")]
  <1>1. Read(Reads(2), i) = [paid |-> (rows[i] = "paid")] BY DEF Read, Reads
  <1> DEFINE f == [debt |-> d]
  <1> DEFINE g == [paid |-> (rows[i] = "paid")]
  <1>2. DOMAIN f = {"debt"} /\ DOMAIN g = {"paid"} /\ f["debt"] = d
    OBVIOUS
  <1>3. g["paid"] = (rows[i] = "paid") OBVIOUS
  <1>4. Join(f, g) = [k \in {"debt", "paid"} |-> IF k \in {"debt"} THEN f[k] ELSE g[k]]
    BY <1>2 DEF Join
  <1> QED BY <1>1, <1>2, <1>3, <1>4

(* A payment ends, or goes on with a record that is in order.              *)
LEMMA PaymentMoves ==
  ASSUME Bounds, PaymentsInv, NEW c \in Clients, NEW r \in {Quiet} \cup ReadCard \cup ReadBoth,
         UNCHANGED <<rows, debt, made>>, paying' = [paying EXCEPT ![c] = r],
         r # Quiet => Fits(r.copy.debt) /\ r.id <= made,
         r \in ReadBoth /\ ~r.copy.paid => r.copy.debt.carried[r.id] = 0
  PROVE  PaymentsInv'
  <1>1. PaysTyped' BY DEF PaymentsInv, PaysTyped, TypeOK
  <1>2. FreshIds' /\ Fits(debt)' BY DEF PaymentsInv, FreshIds, Saved, Fits
  <1>3. \A d \in Clients : paying'[d] = IF d = c THEN r ELSE paying[d]
    BY DEF PaymentsInv, PaysTyped
  <1>4. CopiesFit' BY <1>3 DEF PaymentsInv, CopiesFit, Fits
  <1>5. CardIsOlder' BY <1>3 DEF PaymentsInv, CardIsOlder
  <1>6. Known' BY <1>3 DEF PaymentsInv, Known
  <1> QED BY <1>1, <1>2, <1>4, <1>5, <1>6 DEF PaymentsInv

LEMMA Commits ==
  ASSUME Bounds, PaymentsInv, NEW c \in Clients, PayCommits(c)
  PROVE  PaymentsInv'
  <1> DEFINE r == paying[c]
  <1>1. /\ r # Quiet /\ r.step = "two" /\ Saved(r.id)
        /\ rows' = [rows EXCEPT ![r.id] = "paid"]
        /\ debt' = IF Carries(r) THEN [r.copy.debt EXCEPT !.carried[r.id] = @ + 1] ELSE debt
        /\ paying' = [paying EXCEPT ![c] = Quiet] /\ made' = made
    BY DEF PayCommits
  <1>2. r \in ReadBoth /\ r.copy.debt \in Debt /\ r.id \in Ids
    BY <1>1, Steps DEF PaymentsInv
  <1>3. Fits(r.copy.debt) /\ r.id <= made BY <1>1 DEF PaymentsInv, CopiesFit, Known
  <1>4. Carries(r) => r.copy.debt.carried[r.id] = 0
    BY <1>2 DEF PaymentsInv, CardIsOlder, Carries
  <1> HIDE DEF r
  <1>5. \A i \in Ids : rows'[i] = IF i = r.id THEN "paid" ELSE rows[i]
    BY <1>1, <1>2 DEF PaymentsInv, PaysTyped, TypeOK
  <1>6. debt' \in Debt /\ Fits(debt)'
    <2>1. CASE Carries(r)
      <3> DEFINE d == r.copy.debt
      <3>1. debt' = [d EXCEPT !.carried[r.id] = @ + 1] BY <1>1, <2>1
      <3>2. d \in Debt /\ d.carried \in [Ids -> Nat] /\ d.carried[r.id] = 0 /\ Fits(d)
        BY <1>2, <1>3, <1>4, <2>1 DEF Debt
      <3> HIDE DEF d
      <3>3. debt' = [d EXCEPT !.carried = [d.carried EXCEPT ![r.id] = 1]]
        BY <1>2, <3>1, <3>2 DEF Debt
      <3>4. debt' \in Debt
        BY <1>2, <3>2, <3>3 DEF Debt
      <3>5. \A i \in Ids : debt'.carried[i] = IF i = r.id THEN 1 ELSE d.carried[i]
        BY <1>2, <3>2, <3>3 DEF Debt
      <3>6. Fits(debt)' BY <1>1, <1>3, <1>5, <3>2, <3>5 DEF Fits
      <3> QED BY <3>4, <3>6
    <2>2. CASE ~Carries(r)
      <3>1. debt' = debt BY <1>1, <2>2
      <3> QED BY <1>1, <1>5, <3>1 DEF PaymentsInv, PaysTyped, TypeOK, Fits
    <2> QED BY <2>1, <2>2
  <1>7. \A d \in Clients : paying'[d] = IF d = c THEN Quiet ELSE paying[d]
    BY <1>1 DEF PaymentsInv, PaysTyped
  <1>8. PaysTyped' BY <1>1, <1>2, <1>6 DEF PaymentsInv, PaysTyped, TypeOK, RowStates
  <1>9. FreshIds' BY <1>1, <1>5 DEF PaymentsInv, FreshIds, Saved
  <1>10. CopiesFit' BY <1>1, <1>5, <1>7 DEF PaymentsInv, CopiesFit, Fits
  <1>11. CardIsOlder' BY <1>7 DEF PaymentsInv, CardIsOlder, ReadBoth, Quiet
  <1>12. Known' BY <1>1, <1>7 DEF PaymentsInv, Known
  <1> QED BY <1>6, <1>8, <1>9, <1>10, <1>11, <1>12 DEF PaymentsInv

LEMMA PaymentsStep == Bounds /\ PaymentsInv /\ [Next]_vars => PaymentsInv'
  <1> SUFFICES ASSUME Bounds, PaymentsInv, [Next]_vars PROVE PaymentsInv'
    OBVIOUS
  <1>0. TypeOK /\ made \in Nat /\ FreshIds BY DEF PaymentsInv, PaysTyped, TypeOK
  <1>1. CASE CreateStatement
    <2>1. /\ made < MaxRows /\ made' = made + 1 /\ made' \in Ids
          /\ rows' = [rows EXCEPT ![made'] = "unpaid"] /\ UNCHANGED <<debt, paying>>
      BY <1>0, <1>1 DEF CreateStatement, Bounds, Ids
    <2>2. \A i \in Ids : i <= made => i # made' BY <1>0, <2>1 DEF Ids
    <2> QED
      BY <1>0, <2>1, <2>2, RowsMove DEF TypeOK, RowStates, FreshIds, Saved, Ids, Bounds
  <1>2. ASSUME NEW i \in Ids, UpdateStatement(i) \/ DeleteStatement(i) PROVE PaymentsInv'
    <2>1. \E s \in {"paid", "none"} : rows' = [rows EXCEPT ![i] = s]
      BY <1>2 DEF UpdateStatement, DeleteStatement
    <2>2. UNCHANGED <<debt, paying, made>> /\ Saved(i)
      BY <1>2 DEF UpdateStatement, DeleteStatement
    <2> QED
      BY <1>0, <2>1, <2>2, RowsMove DEF TypeOK, RowStates, FreshIds, Saved
  <1>3. CASE TypeDebt
    <2>1. /\ debt' = [typed |-> debt.typed + 1, carried |-> [i \in Ids |-> 0]]
          /\ debt.typed < MaxEdits /\ UNCHANGED <<rows, paying, made>>
      BY <1>3 DEF TypeDebt
    <2>2. debt' \in Debt BY <1>0, <2>1 DEF TypeOK, Debt, Bounds
    <2>3. Fits(debt)' BY <2>1 DEF Fits
    <2>4. PaysTyped' BY <2>1, <2>2 DEF PaymentsInv, PaysTyped, TypeOK
    <2>5. FreshIds' /\ CopiesFit' /\ CardIsOlder' /\ Known'
      BY <2>1 DEF PaymentsInv, FreshIds, Saved, CopiesFit, Fits, CardIsOlder, Known
    <2> QED BY <2>3, <2>4, <2>5 DEF PaymentsInv
  <1>4. ASSUME NEW c \in Clients, NEW i \in Ids, NEW rest \in BOOLEAN, PayReadsCard(c, i, rest)
        PROVE  PaymentsInv'
    <2> DEFINE r == [step |-> "one", id |-> i, part |-> rest, copy |-> [debt |-> debt]]
    <2>1. paying' = [paying EXCEPT ![c] = r] /\ UNCHANGED <<rows, debt, made>> /\ Saved(i)
      BY <1>4 DEF PayReadsCard, Read, Reads
    <2>2. debt \in Debt /\ Fits(debt) /\ i <= made BY <1>0, <2>1 DEF PaymentsInv, TypeOK, FreshIds
    <2>3. r \in ReadCard /\ r \notin ReadBoth BY <2>2 DEF ReadCard, ReadBoth
    <2>4. r.copy.debt = debt /\ r.id = i OBVIOUS
    <2> HIDE DEF r
    <2> QED BY <2>1, <2>2, <2>3, <2>4, PaymentMoves
  <1>5. ASSUME NEW c \in Clients, PayReadsStatement(c) PROVE PaymentsInv'
    <2> DEFINE r == paying[c]
    <2>1. /\ r # Quiet /\ r.step = "one" /\ Saved(r.id) /\ UNCHANGED <<rows, debt, made>>
          /\ paying' = [paying EXCEPT ![c] = [step |-> "two", id |-> r.id, part |-> r.part,
                                               copy |-> Join(r.copy, Read(Reads(2), r.id))]]
      BY <1>5 DEF PayReadsStatement
    <2>2. r \in ReadCard /\ r.copy.debt \in Debt /\ r.id \in Ids BY <2>1, Steps DEF PaymentsInv
    <2> DEFINE d == r.copy.debt
    <2> DEFINE paid == (rows[r.id] = "paid")
    <2>3. Fits(d) /\ r.id <= made BY <2>1 DEF PaymentsInv, CopiesFit, Known
    <2>4. r.copy = [debt |-> d] BY <2>2 DEF ReadCard
    <2>5. Join(r.copy, Read(Reads(2), r.id)) = [debt |-> d, paid |-> paid]
      BY <2>2, <2>4, BothCopies
    <2> DEFINE s == [step |-> "two", id |-> r.id, part |-> r.part, copy |-> [debt |-> d, paid |-> paid]]
    <2>6. s \in ReadBoth BY <2>2 DEF ReadBoth, ReadCard
    <2>7. s.copy.debt = d /\ s.copy.paid = paid /\ s.id = r.id OBVIOUS
    <2>8. ~paid => d.carried[r.id] = 0
      <3>1. rows[r.id] \in RowStates BY <1>0, <2>2 DEF TypeOK
      <3>2. ~paid => rows[r.id] = "unpaid" BY <2>1, <3>1 DEF Saved, RowStates
      <3>3. d.carried[r.id] \in Nat BY <2>2 DEF Debt
      <3> QED BY <2>2, <2>3, <3>2, <3>3 DEF Fits
    <2>9. paying' = [paying EXCEPT ![c] = s] BY <2>1, <2>5
    <2> HIDE DEF r, d, s, paid
    <2> QED BY <2>1, <2>3, <2>6, <2>7, <2>8, <2>9, PaymentMoves
  <1>6. ASSUME NEW c \in Clients, PayCommits(c) PROVE PaymentsInv'
    BY <1>6, Commits
  <1>7. ASSUME NEW c \in Clients, PayFails(c) PROVE PaymentsInv'
    <2>1. Quiet \notin ReadBoth BY DEF Quiet, ReadBoth
    <2> QED BY <1>7, <2>1, PaymentMoves DEF PayFails
  <1>8. CASE UNCHANGED vars
    BY <1>8 DEF vars, PaymentsInv, PaysTyped, TypeOK, FreshIds, Saved, Fits, CopiesFit, CardIsOlder, Known
  <1> QED BY <1>1, <1>2, <1>3, <1>4, <1>5, <1>6, <1>7, <1>8 DEF Next

LEMMA PaymentsRun ==
  ASSUME MaxRows \in Nat, MaxEdits \in Nat
  PROVE  Spec => []PaymentsInv
  <1>1. Bounds BY DEF Bounds
  <1>2. Init => PaymentsInv BY <1>1, PaymentsInit
  <1>3. PaymentsInv /\ [Next]_vars => PaymentsInv' BY <1>1, PaymentsStep
  <1> QED BY <1>2, <1>3, PTL DEF Spec

(* However many payments of a statement overlap or are repeated, it is owed *)
(* once: by itself, or in the debt of the current period.                  *)
THEOREM EveryStatementOwedOnce ==
  ASSUME MaxRows \in Nat, MaxEdits \in Nat
  PROVE  Spec => []OwedOnce
  <1>1. PaymentsInv => OwedOnce
    BY DEF PaymentsInv, PaysTyped, TypeOK, Fits, OwedOnce, Saved, RowStates
  <1> QED BY <1>1, PaymentsRun, PTL

-----------------------------------------------------------------------------
(* Sets of numbers that are bounded have a least and a greatest element: there is *)
(* no infinite descent in the natural numbers.                                   *)

LEMMA LeastNatural ==
  ASSUME NEW T, T \subseteq Nat, T # {}
  PROVE  \E x \in T : \A y \in T : x <= y
  <1> DEFINE Less == OpToRel(<, Nat)
  <1>1. IsWellFoundedOn(Less, Nat) BY NatLessThanWellFounded
  <1>2. \A x, y \in Nat : y < x => <<y, x>> \in Less BY DEF OpToRel
  <1> HIDE DEF Less
  <1>3. PICK x \in T : \A y \in T : ~ (<<y, x>> \in Less) BY <1>1, WFMin
  <1>4. ASSUME NEW y \in T PROVE x <= y
    <2>1. x \in Nat /\ y \in Nat OBVIOUS
    <2>2. ~(y < x) BY <1>2, <1>3, <2>1
    <2> QED BY <2>1, <2>2
  <1> QED BY <1>4

LEMMA GreatestInteger ==
  ASSUME NEW T, NEW a \in Int, NEW b \in Int, T \subseteq a .. b, T # {}
  PROVE  \E x \in T : \A y \in T : y <= x
  <1> DEFINE D == {n \in Nat : b - n \in T}
  <1>1. \A y \in T : y \in Int /\ y <= b /\ b - y \in Nat /\ b - (b - y) = y OBVIOUS
  <1>2. D # {} BY <1>1
  <1>3. PICK n \in D : \A k \in D : n <= k BY <1>2, LeastNatural
  <1>4. b - n \in T /\ n \in Nat BY <1>3
  <1>5. \A y \in T : b - y \in D BY <1>1
  <1>6. ASSUME NEW y \in T PROVE y <= b - n
    <2>1. n <= b - y BY <1>3, <1>5
    <2> QED BY <1>1, <1>4, <2>1
  <1> QED BY <1>4, <1>6

LEMMA SmallestInteger ==
  ASSUME NEW T, NEW a \in Int, NEW b \in Int, T \subseteq a .. b, T # {}
  PROVE  \E x \in T : \A y \in T : x <= y
  <1> DEFINE D == {n \in Nat : a + n \in T}
  <1>1. \A y \in T : y \in Int /\ a <= y /\ y - a \in Nat /\ a + (y - a) = y OBVIOUS
  <1>2. D # {} BY <1>1
  <1>3. PICK n \in D : \A k \in D : n <= k BY <1>2, LeastNatural
  <1>4. a + n \in T /\ n \in Nat BY <1>3
  <1>5. \A y \in T : y - a \in D BY <1>1
  <1>6. ASSUME NEW y \in T PROVE a + n <= y
    <2>1. n <= y - a BY <1>3, <1>5
    <2> QED BY <1>1, <1>4, <2>1
  <1> QED BY <1>4, <1>6

-----------------------------------------------------------------------------
(* Instalment plans (I). A plan of p that is well formed, whose rest ends with  *)
(* the bank's plan, and whose first slice to come is after every statement it   *)
(* has met.                                                                     *)

WellFormed(q) == q \in I!Plan /\ (q # I!NoPlan => q.left >= 0)
EndsWith(p, q) == q # I!NoPlan /\ ~q.edited => q.first + q.left = I!End(p)
AheadBy(q, m) == q # I!NoPlan => q.since < q.first /\ q.since <= m

LEMMA NoPlanType == I!NoPlan \in I!Plan /\ I!NoPlan.since = 0 /\ I!NoPlan.left = -1
  BY PlansAssumption DEF I!NoPlan, I!Plan

LEMMA PlanFields ==
  ASSUME NEW p \in Plans, NEW q, WellFormed(q), NEW m \in I!Months
  PROVE  /\ q.since \in 0 .. MaxMonth /\ q.first \in Nat /\ q.left \in Int /\ q.edited \in BOOLEAN
         /\ I!Met(q, m) \in 0 .. MaxMonth /\ I!End(p) \in Nat /\ m \in Nat /\ MaxMonth \in Nat
  BY PlansAssumption DEF I!Months, I!Plan, WellFormed, I!Met, I!End

(* A statement of month m, and of no earlier month than those before it, keeps  *)
(* all three.                                                                   *)
LEMMA Reconciled ==
  ASSUME NEW p \in Plans, NEW q, WellFormed(q), EndsWith(p, q), NEW m \in I!Months
  PROVE  LET r == I!Reconcile(q, m)
         IN  /\ WellFormed(r) /\ EndsWith(p, r)
             /\ \A n \in Nat : AheadBy(q, n) /\ n <= m => AheadBy(r, m)
  <1> DEFINE r == I!Reconcile(q, m)
             Goal == /\ WellFormed(r) /\ EndsWith(p, r)
                     /\ \A n \in Nat : AheadBy(q, n) /\ n <= m => AheadBy(r, m)
  <1>1. CASE q = I!NoPlan BY <1>1 DEF I!Reconcile, WellFormed, EndsWith, AheadBy
  <1> SUFFICES ASSUME q # I!NoPlan PROVE Goal
    BY <1>1
  <1>2. q \in I!Plan /\ q.left >= 0 BY DEF WellFormed
  <1>5. CASE q.first > m
    <2>1. r = [q EXCEPT !.since = I!Met(q, m)] BY <1>5 DEF I!Reconcile
    <2>2. r.first = q.first /\ r.left = q.left /\ r.edited = q.edited /\ r.since = I!Met(q, m)
      BY <1>2, <2>1 DEF I!Plan
    <2>3. r \in I!Plan BY <1>2, <2>1, PlanFields DEF I!Plan
    <2>4. WellFormed(r) /\ EndsWith(p, r) BY <1>2, <2>2, <2>3 DEF WellFormed, EndsWith
    <2>5. ASSUME NEW n \in Nat, AheadBy(q, n), n <= m PROVE AheadBy(r, m)
      BY <1>5, <2>2, <2>5, PlanFields DEF AheadBy, I!Met
    <2> QED BY <2>4, <2>5
  <1>6. CASE ~(q.first > m) /\ q.left <= I!Covered(q, m)
    <2>1. r = I!NoPlan BY <1>6 DEF I!Reconcile
    <2> QED BY <2>1, NoPlanType DEF WellFormed, EndsWith, AheadBy
  <1>7. CASE ~(q.first > m) /\ ~(q.left <= I!Covered(q, m))
    <2>1. r = [first |-> m + 1, left |-> q.left - I!Covered(q, m), since |-> I!Met(q, m), edited |-> q.edited]
      BY <1>7 DEF I!Reconcile
    <2>2. /\ r.first = m + 1 /\ r.left = q.left - I!Covered(q, m)
          /\ r.edited = q.edited /\ r.since = I!Met(q, m)
      BY <2>1
    <2>3. I!Covered(q, m) = m - q.first + 1 BY DEF I!Covered
    <2>4. q.left - I!Covered(q, m) \in Nat BY <1>7, <2>3, PlanFields
    <2>5. r \in I!Plan BY <2>1, <2>4, PlanFields DEF I!Plan
    <2>6. WellFormed(r) BY <2>2, <2>4, <2>5 DEF WellFormed
    <2>7. EndsWith(p, r) BY <1>7, <2>2, <2>3, PlanFields DEF EndsWith
    <2>8. ASSUME NEW n \in Nat, AheadBy(q, n), n <= m PROVE AheadBy(r, m)
      BY <2>2, <2>8, PlanFields DEF AheadBy, I!Met
    <2> QED BY <2>6, <2>7, <2>8
  <1> QED BY <1>5, <1>6, <1>7

LEMMA Upserted ==
  ASSUME NEW p \in Plans, NEW q, WellFormed(q), NEW m \in I!Months
  PROVE  LET r == I!Upsert(p, q, m)
         IN  /\ WellFormed(r) /\ EndsWith(p, r)
             /\ \A n \in Nat : AheadBy(q, n) /\ n <= m => AheadBy(r, m)
  <1> DEFINE r == I!Upsert(p, q, m)
             left == I!End(p) - m - 1
  <1>1. CASE left <= 0
    <2>1. r = I!NoPlan BY <1>1 DEF I!Upsert
    <2> QED BY <2>1, NoPlanType DEF WellFormed, EndsWith, AheadBy
  <1>2. CASE ~(left <= 0)
    <2>1. r = [first |-> m + 1, left |-> left, since |-> I!Met(q, m), edited |-> FALSE]
      BY <1>2 DEF I!Upsert
    <2>2. r.first = m + 1 /\ r.left = left /\ r.since = I!Met(q, m) BY <2>1
    <2>3. left \in Nat BY <1>2, PlanFields
    <2>4. r \in I!Plan BY <2>1, <2>3, PlanFields DEF I!Plan
    <2>5. WellFormed(r) BY <2>2, <2>3, <2>4 DEF WellFormed
    <2>6. EndsWith(p, r) BY <2>2, PlanFields DEF EndsWith
    <2>7. ASSUME NEW n \in Nat, AheadBy(q, n), n <= m PROVE AheadBy(r, m)
      <3>1. I!NoPlan.since = 0 BY NoPlanType
      <3>2. q.since <= m BY <2>7, <3>1, PlanFields DEF AheadBy
      <3> QED BY <2>2, <3>2, PlanFields DEF AheadBy, I!Met
    <2> QED BY <2>5, <2>6, <2>7
  <1> QED BY <1>1, <1>2

(* What is left at any month, of a plan that had n slices to come at first.     *)
LEMMA RemainingBounds ==
  ASSUME NEW first \in Nat, NEW n \in Nat, NEW early, month \in Nat
  PROVE  I!Remaining(first, n, early) \in 0 .. n
  BY DEF I!Remaining

(* The invariant. The first two parts hold whatever the order of the statements, *)
(* the last needs them in order.                                                 *)
PlansInv == I!TypeOK /\ I!PlansEndOnTime
PlansAhead == \A p \in Plans : AheadBy(plans[p], latest)

LEMMA PlansInvParts ==
  ASSUME PlansInv, NEW p \in Plans
  PROVE  WellFormed(plans[p]) /\ EndsWith(p, plans[p])
  BY DEF PlansInv, I!TypeOK, I!PlansEndOnTime, I!Known, WellFormed, EndsWith

LEMMA PlansInvIntro ==
  ASSUME month' \in Nat, latest' \in 0 .. MaxMonth, due' \subseteq I!Months,
         DOMAIN plans' = Plans, plans' = [p \in Plans |-> plans'[p]],
         \A p \in Plans : WellFormed(plans'[p]) /\ EndsWith(p, plans'[p])
  PROVE  PlansInv'
  BY DEF PlansInv, I!TypeOK, I!PlansEndOnTime, I!Known, WellFormed, EndsWith

LEMMA PlansInit == I!Init => PlansInv /\ PlansAhead
  <1> SUFFICES ASSUME I!Init PROVE PlansInv /\ PlansAhead OBVIOUS
  <1>1. \A p \in Plans : plans[p] = I!NoPlan BY DEF I!Init
  <1>2. I!TypeOK BY <1>1, NoPlanType, PlansAssumption DEF I!Init, I!TypeOK, I!Known
  <1> QED BY <1>1, <1>2 DEF PlansInv, PlansAhead, I!PlansEndOnTime, I!Known, AheadBy

(* One row of the table is written.                                              *)
LEMMA RowWritten ==
  ASSUME PlansInv, NEW p \in Plans, NEW q, plans' = [plans EXCEPT ![p] = q],
         UNCHANGED <<month, due, latest>>, WellFormed(q), EndsWith(p, q)
  PROVE  /\ PlansInv'
         /\ PlansAhead /\ AheadBy(q, latest) => PlansAhead'
  <1>1. plans \in [Plans -> I!Plan] BY DEF PlansInv, I!TypeOK
  <1>2. \A x \in Plans : plans'[x] = IF x = p THEN q ELSE plans[x] BY <1>1
  <1>3. DOMAIN plans' = Plans /\ plans' = [x \in Plans |-> plans'[x]] BY <1>1
  <1>4. \A x \in Plans : WellFormed(plans'[x]) /\ EndsWith(x, plans'[x])
    BY <1>2, PlansInvParts
  <1>5. month' \in Nat /\ latest' \in 0 .. MaxMonth /\ due' \subseteq I!Months
    BY DEF PlansInv, I!TypeOK
  <1>6. PlansInv' BY <1>3, <1>4, <1>5, PlansInvIntro
  <1>7. PlansAhead /\ AheadBy(q, latest) => PlansAhead' BY <1>2 DEF PlansAhead, AheadBy
  <1> QED BY <1>6, <1>7

(* A statement changes the whole table.                                          *)
LEMMA StatementSaved ==
  ASSUME PlansInv, NEW m \in I!Months, DOMAIN plans' = Plans, plans' = [p \in Plans |-> plans'[p]],
         due' = due \cup {m}, latest' = I!Later(m), month' = month,
         \A p \in Plans :
           /\ WellFormed(plans'[p]) /\ EndsWith(p, plans'[p])
           /\ \A n \in Nat : AheadBy(plans[p], n) /\ n <= m => AheadBy(plans'[p], m)
  PROVE  /\ PlansInv'
         /\ PlansAhead /\ latest <= m => PlansAhead'
  <1>1. latest \in 0 .. MaxMonth /\ m \in 1 .. MaxMonth /\ MaxMonth \in Nat
    BY PlansAssumption DEF PlansInv, I!TypeOK, I!Months
  <1>2. latest' \in 0 .. MaxMonth /\ (latest <= m => latest' = m) BY <1>1 DEF I!Later
  <1>4. month' \in Nat /\ due' \subseteq I!Months BY DEF PlansInv, I!TypeOK
  <1>5. PlansInv' BY <1>2, <1>4, PlansInvIntro
  <1>6. ASSUME PlansAhead, latest <= m PROVE PlansAhead'
    <2>1. latest \in Nat BY <1>1
    <2> QED BY <1>2, <1>6, <2>1 DEF PlansAhead, AheadBy
  <1> QED BY <1>5, <1>6

PlansKept == PlansInv' /\ (PlansAhead /\ ~AnyOrder => PlansAhead')

LEMMA CreateInstallmentKept ==
  ASSUME PlansInv, NEW p \in Plans, NEW early, I!CreateInstallment(p, early)
  PROVE  PlansKept
  <1> DEFINE left == I!Remaining(Start[p], Count[p], early)
             q == [first |-> I!End(p) - left, left |-> left, since |-> 0, edited |-> FALSE]
  <1>1. plans' = [plans EXCEPT ![p] = q] /\ UNCHANGED <<month, due, latest>>
    BY DEF I!CreateInstallment
  <1>2. Start[p] \in Nat \ {0} /\ Count[p] \in Nat /\ MaxMonth \in Nat BY PlansAssumption
  <1>3. month \in Nat /\ latest \in Nat BY <1>2 DEF PlansInv, I!TypeOK
  <1>4. left \in 0 .. Count[p] BY <1>2, <1>3, RemainingBounds
  <1>5. I!End(p) - left \in Nat \ {0} BY <1>2, <1>4 DEF I!End
  <1>6. I!End(p) \in Nat BY <1>2 DEF I!End
  <1> HIDE DEF left
  <1>7. WellFormed(q) BY <1>2, <1>4, <1>5 DEF WellFormed, I!Plan
  <1>8. EndsWith(p, q) BY <1>2, <1>4, <1>6 DEF EndsWith
  <1>9. AheadBy(q, latest) BY <1>3, <1>5 DEF AheadBy
  <1> HIDE DEF q
  <1> QED BY <1>1, <1>7, <1>8, <1>9, RowWritten DEF PlansKept

LEMMA UpdateInstallmentKept ==
  ASSUME PlansInv, NEW p \in Plans, I!UpdateInstallment(p)
  PROVE  PlansKept
  <1> DEFINE left == I!Remaining(plans[p].first, Count[p], FALSE)
             q == [first |-> plans[p].first, left |-> left, since |-> plans[p].since, edited |-> TRUE]
  <1>1. plans[p] # I!NoPlan /\ WellFormed(plans[p]) /\ plans \in [Plans -> I!Plan]
    BY PlansInvParts DEF I!UpdateInstallment, I!Known, PlansInv, I!TypeOK
  <1>2. plans' = [plans EXCEPT ![p] = q] /\ UNCHANGED <<month, due, latest>>
    BY <1>1 DEF I!UpdateInstallment
  <1>3. plans[p].first \in Nat /\ plans[p].since \in 0 .. MaxMonth BY <1>1 DEF I!Plan
  <1>4. month \in Nat /\ Count[p] \in Nat BY PlansAssumption DEF PlansInv, I!TypeOK
  <1>5. left \in 0 .. Count[p] BY <1>3, <1>4, RemainingBounds
  <1> HIDE DEF left
  <1>6. q \in I!Plan BY <1>3, <1>4, <1>5 DEF I!Plan
  <1>7. WellFormed(q) BY <1>4, <1>5, <1>6 DEF WellFormed
  <1>8. EndsWith(p, q) BY DEF EndsWith
  <1>9. PlansAhead => AheadBy(q, latest) BY <1>1 DEF PlansAhead, AheadBy
  <1> HIDE DEF q
  <1> QED BY <1>2, <1>7, <1>8, <1>9, RowWritten DEF PlansKept

LEMMA DeleteInstallmentKept ==
  ASSUME PlansInv, NEW p \in Plans, I!DeleteInstallment(p)
  PROVE  PlansKept
  <1>1. plans' = [plans EXCEPT ![p] = I!NoPlan] /\ UNCHANGED <<month, due, latest>>
    BY DEF I!DeleteInstallment
  <1>2. WellFormed(I!NoPlan) /\ EndsWith(p, I!NoPlan) /\ AheadBy(I!NoPlan, latest)
    BY NoPlanType DEF WellFormed, EndsWith, AheadBy
  <1> QED BY <1>1, <1>2, RowWritten DEF PlansKept

LEMMA CreateStatementKept ==
  ASSUME PlansInv, NEW m \in I!Months, I!CreateStatement(m)
  PROVE  PlansKept
  <1>1. plans' = [p \in Plans |-> I!Reconcile(plans[p], m)] BY DEF I!CreateStatement
  <1>2. due' = due \cup {m} /\ latest' = I!Later(m) /\ month' = month BY DEF I!CreateStatement
  <1>3. ASSUME NEW p \in Plans
        PROVE  /\ WellFormed(plans'[p]) /\ EndsWith(p, plans'[p])
               /\ \A n \in Nat : AheadBy(plans[p], n) /\ n <= m => AheadBy(plans'[p], m)
    BY <1>1, PlansInvParts, Reconciled
  <1>4. ~AnyOrder => latest <= m BY DEF I!CreateStatement, I!InOrder
  <1>5. DOMAIN plans' = Plans /\ plans' = [p \in Plans |-> plans'[p]] BY <1>1
  <1>6. PlansInv' /\ (PlansAhead /\ latest <= m => PlansAhead') BY <1>2, <1>3, <1>5, StatementSaved
  <1> QED BY <1>4, <1>6 DEF PlansKept

LEMMA ImportKept ==
  ASSUME PlansInv, NEW m \in I!Months, NEW listed \in SUBSET Plans, I!Import(m, listed)
  PROVE  PlansKept
  <1>1. plans' = [p \in Plans |-> LET q == I!Reconcile(plans[p], m)
                                  IN  IF p \in listed THEN I!Upsert(p, q, m) ELSE q]
    BY DEF I!Import
  <1>2. due' = due \cup {m} /\ latest' = I!Later(m) /\ month' = month BY DEF I!Import
  <1>3. ASSUME NEW p \in Plans
        PROVE  /\ WellFormed(plans'[p]) /\ EndsWith(p, plans'[p])
               /\ \A n \in Nat : AheadBy(plans[p], n) /\ n <= m => AheadBy(plans'[p], m)
    <2> DEFINE q == I!Reconcile(plans[p], m)
    <2>1. /\ WellFormed(q) /\ EndsWith(p, q)
          /\ \A n \in Nat : AheadBy(plans[p], n) /\ n <= m => AheadBy(q, m)
      BY PlansInvParts, Reconciled
    <2> HIDE DEF q
    <2>2. m \in Nat /\ m <= m BY PlansAssumption DEF I!Months
    <2>3. /\ WellFormed(I!Upsert(p, q, m)) /\ EndsWith(p, I!Upsert(p, q, m))
          /\ (AheadBy(q, m) => AheadBy(I!Upsert(p, q, m), m))
      BY <2>1, <2>2, Upserted
    <2>4. plans'[p] = IF p \in listed THEN I!Upsert(p, q, m) ELSE q BY <1>1 DEF q
    <2>5. CASE p \in listed
      <3>1. plans'[p] = I!Upsert(p, q, m) BY <2>4, <2>5
      <3> QED BY <2>1, <2>3, <3>1
    <2>6. CASE p \notin listed
      <3>1. plans'[p] = q BY <2>4, <2>6
      <3> QED BY <2>1, <3>1
    <2> QED BY <2>5, <2>6
  <1>4. ~AnyOrder => latest <= m BY DEF I!Import, I!InOrder
  <1>5. DOMAIN plans' = Plans /\ plans' = [p \in Plans |-> plans'[p]] BY <1>1
  <1>6. PlansInv' /\ (PlansAhead /\ latest <= m => PlansAhead') BY <1>2, <1>3, <1>5, StatementSaved
  <1> QED BY <1>4, <1>6 DEF PlansKept

LEMMA PlansStep ==
  ASSUME PlansInv, [I!Next]_I!vars
  PROVE  PlansKept
  <1> USE DEF PlansInv, I!TypeOK, PlansKept
  <1>1. CASE UNCHANGED I!vars
    BY <1>1 DEF I!vars, I!PlansEndOnTime, I!Known, PlansAhead, AheadBy
  <1>2. ASSUME NEW m \in I!Months, I!DeleteStatement(m) PROVE PlansKept
    BY <1>2 DEF I!DeleteStatement, I!PlansEndOnTime, I!Known, PlansAhead, AheadBy
  <1>3. CASE I!NextMonth
    BY <1>3 DEF I!NextMonth, I!PlansEndOnTime, I!Known, PlansAhead, AheadBy
  <1> HIDE DEF PlansInv, I!TypeOK, PlansKept
  <1> QED BY <1>1, <1>2, <1>3, CreateInstallmentKept, UpdateInstallmentKept, DeleteInstallmentKept,
             CreateStatementKept, ImportKept DEF I!Next

(* What is left of a plan ends when the bank's plan does, in whatever order the  *)
(* statements come, as long as nobody edits its row.                             *)
LEMMA InstalmentsEndOnTime == I!Spec => []PlansInv
  <1>1. PlansInv /\ [I!Next]_I!vars => PlansInv' BY PlansStep DEF PlansKept
  <1> QED BY <1>1, PlansInit, PTL DEF I!Spec

(* A plan's slices are all after the statements it has met, ...                  *)
LEMMA AheadMeansOnce ==
  ASSUME PlansInv, PlansAhead
  PROVE  I!SlicesCountedOnce
  <1> SUFFICES ASSUME NEW p \in Plans, NEW m \in I!Months, m <= plans[p].since
               PROVE  ~I!InstallmentApplies(plans[p], m)
    BY DEF I!SlicesCountedOnce
  <1>1. WellFormed(plans[p]) /\ AheadBy(plans[p], latest) BY PlansInvParts DEF PlansAhead
  <1>2. CASE plans[p] = I!NoPlan BY <1>2, NoPlanType DEF I!InstallmentApplies
  <1>3. CASE plans[p] # I!NoPlan
    BY <1>1, <1>3, PlanFields, PlansAssumption DEF I!InstallmentApplies, AheadBy, I!Months
  <1> QED BY <1>2, <1>3

(* ... if they come in order.                                                    *)
LEMMA InstalmentsCountedOnce ==
  ASSUME ~AnyOrder PROVE I!Spec => []I!SlicesCountedOnce
  <1>1. PlansInv /\ PlansAhead /\ [I!Next]_I!vars => PlansInv' /\ PlansAhead'
    BY PlansStep DEF PlansKept
  <1> QED BY <1>1, PlansInit, AheadMeansOnce, PTL DEF I!Spec

-----------------------------------------------------------------------------
(* Exchange rates (R). *)

CacheInv ==
  /\ today \in R!Days /\ cached \subseteq R!Days \X Currencies
  /\ R!CachedWhole

(* What a record of a report is valued at.                                       *)
RightRate(q, x) ==
  /\ x[3] <= x[1] /\ (x[3] # 0 => \E e \in q.dates : x[3] >= e - Lookback)
  /\ x[2] \in Quoted[x[1]] /\ x[1] \notin q.missed => x[3] = x[1]

(* While a report caches its dates, a day is still to do, or was missed, or is    *)
(* there with all that is quoted on it.                                          *)
ReportFits(q, have) ==
  q # R!Quiet =>
    /\ q.dates \subseteq R!Days /\ q.dates # {}
    /\ q.step = "caching" =>
         \A d \in q.dates : \A c \in Quoted[d] : d \in q.todo \/ d \in q.missed \/ <<d, c>> \in have
    /\ \A x \in q.rates : RightRate(q, x)

ReportsFit == \A r \in Requests : ReportFits(asking[r], cached)

RatesInv == CacheInv /\ DOMAIN asking = Requests /\ ReportsFit

(* The least and the greatest of a bounded set, as the code chooses them.        *)
LEMMA LatestOf ==
  ASSUME NEW S, NEW a \in Int, NEW b \in Int, S \subseteq a .. b
  PROVE  /\ S = {} => R!Latest(S) = 0
         /\ S # {} => R!Latest(S) \in S /\ \A y \in S : y <= R!Latest(S)
  <1>1. S = {} => R!Latest(S) = 0 BY DEF R!Latest
  <1>2. ASSUME S # {} PROVE R!Latest(S) \in S /\ \A y \in S : y <= R!Latest(S)
    <2>1. \E x \in S : \A y \in S : y <= x BY <1>2, GreatestInteger
    <2>2. R!Latest(S) = CHOOSE x \in S : \A y \in S : y <= x BY <1>2 DEF R!Latest
    <2> QED BY <2>1, <2>2
  <1> QED BY <1>1, <1>2

LEMMA EarliestOf ==
  ASSUME NEW dates \in SUBSET R!Days, dates # {}
  PROVE  LET m == CHOOSE x \in dates : \A y \in dates : x <= y
         IN  m \in dates /\ \A y \in dates : m <= y
  <1>1. 1 \in Int /\ MaxDay \in Int /\ dates \subseteq 1 .. MaxDay
    BY RatesAssumption DEF R!Days
  <1>2. \E x \in dates : \A y \in dates : x <= y BY <1>1, SmallestInteger
  <1> QED BY <1>2

LEMMA PublishedAll == \A d \in R!Days : R!Published(d) = {} \/ R!Published(d) = Quoted[d]
  BY DEF R!Published

(* Whatever days are written, each as the bank publishes it, a cached day stays   *)
(* whole.                                                                        *)
LEMMA DaysWritten ==
  ASSUME CacheInv, NEW S \in SUBSET R!Days, today' \in R!Days,
         cached' = cached \cup UNION {{d} \X R!Published(d) : d \in S}
  PROVE  CacheInv' /\ cached \subseteq cached'
  <1>1. \A d \in S : R!Published(d) \subseteq Currencies
    BY PublishedAll, RatesAssumption DEF R!Days
  <1>2. cached' \subseteq R!Days \X Currencies BY <1>1 DEF CacheInv
  <1>3. ASSUME NEW d \in R!Days, R!HasDay(d)'
        PROVE  {c \in Currencies : <<d, c>> \in cached'} = Quoted[d]
    <2>1. {c \in Currencies : <<d, c>> \in cached} \subseteq Quoted[d]
      BY DEF CacheInv, R!CachedWhole, R!HasDay
    <2>2. \A c \in Currencies : <<d, c>> \in cached' <=> <<d, c>> \in cached \/ (d \in S /\ c \in R!Published(d))
      OBVIOUS
    <2>3. CASE d \in S /\ R!Published(d) # {}
      <3>1. R!Published(d) = Quoted[d] /\ Quoted[d] \subseteq Currencies
        BY <2>3, PublishedAll, RatesAssumption DEF R!Days
      <3> QED BY <2>1, <2>2, <2>3, <3>1
    <2>4. CASE ~(d \in S /\ R!Published(d) # {})
      <3>1. \A c \in Currencies : <<d, c>> \in cached' <=> <<d, c>> \in cached BY <2>2, <2>4
      <3>2. R!HasDay(d) BY <1>3, <3>1 DEF R!HasDay
      <3> QED BY <3>1, <3>2 DEF CacheInv, R!CachedWhole
    <2> QED BY <2>3, <2>4
  <1>4. R!CachedWhole' BY <1>3 DEF R!CachedWhole
  <1> QED BY <1>2, <1>4 DEF CacheInv

LEMMA DayEnsured ==
  ASSUME CacheInv, NEW d \in R!Days, today' = today, NEW answered \in BOOLEAN,
         cached' = R!Ensured(d, answered)
  PROVE  /\ CacheInv' /\ cached \subseteq cached'
         /\ answered /\ R!Published(d) = Quoted[d] => \A c \in Quoted[d] : <<d, c>> \in cached'
  <1>0. today' \in R!Days /\ {} \in SUBSET R!Days /\ {d} \in SUBSET R!Days BY DEF CacheInv
  <1>1. CASE R!HasDay(d) \/ ~answered
    <2>1. cached' = cached BY <1>1 DEF R!Ensured
    <2>2. cached' = cached \cup UNION {{e} \X R!Published(e) : e \in {}} BY <2>1
    <2>3. CacheInv' BY <1>0, <2>2, DaysWritten
    <2>4. ASSUME answered, NEW c \in Quoted[d] PROVE <<d, c>> \in cached'
      <3>1. {x \in Currencies : <<d, x>> \in cached} = Quoted[d]
        BY <1>1, <2>4 DEF CacheInv, R!CachedWhole
      <3> QED BY <2>1, <3>1
    <2> QED BY <2>1, <2>3, <2>4
  <1>2. CASE ~(R!HasDay(d) \/ ~answered)
    <2>1. cached' = cached \cup ({d} \X R!Published(d)) BY <1>2 DEF R!Ensured, R!Upserted
    <2>2. cached' = cached \cup UNION {{e} \X R!Published(e) : e \in {d}} BY <2>1
    <2>3. CacheInv' /\ cached \subseteq cached' BY <1>0, <2>2, DaysWritten
    <2> QED BY <2>1, <2>3
  <1> QED BY <1>1, <1>2

(* The cache in every step.                                                      *)
CacheStep ==
  /\ CacheInv' /\ cached \subseteq cached'

LEMMA LookUpKept ==
  ASSUME CacheInv, NEW c \in Currencies, NEW d \in 1 .. today, R!LookUp(c, d)
  PROVE  CacheStep
  <1> DEFINE x == R!Probed(c, d)
             S == IF x = 0 THEN {} ELSE {x}
  <1>1. today \in 1 .. MaxDay /\ today' = today /\ MaxDay \in Nat /\ Lookback \in Nat
    BY RatesAssumption DEF CacheInv, R!LookUp, R!Days
  <1>2. x = 0 \/ x \in R!Days
    <2> DEFINE T == {y \in (d - Lookback) .. d : y >= 1 /\ R!Published(y) # {}}
    <2>1. d - Lookback \in Int /\ d \in Int /\ T \subseteq (d - Lookback) .. d BY <1>1
    <2>2. R!Latest(T) = 0 \/ R!Latest(T) \in T BY <2>1, LatestOf
    <2>3. T \subseteq R!Days BY <1>1 DEF R!Days
    <2>4. x = 0 \/ x = R!Latest(T) BY DEF R!Probed
    <2> QED BY <2>2, <2>3, <2>4
  <1>3. cached' = IF x = 0 THEN cached ELSE cached \cup ({x} \X R!Published(x))
    BY DEF R!LookUp, R!Upserted
  <1> HIDE DEF x
  <1>4. S \in SUBSET R!Days /\ cached' = cached \cup UNION {{e} \X R!Published(e) : e \in S}
    BY <1>2, <1>3
  <1>5. today' \in R!Days BY <1>1 DEF R!Days
  <1> QED BY <1>4, <1>5, DaysWritten DEF CacheStep

LEMMA FillKept ==
  ASSUME CacheInv, NEW dates \in SUBSET R!Days, R!Fill(dates)
  PROVE  CacheStep
  <1>1. today' \in R!Days BY DEF R!Fill, CacheInv
  <1>2. cached' = cached \cup UNION {{d} \X R!Published(d) : d \in dates} BY DEF R!Fill
  <1> QED BY <1>1, <1>2, DaysWritten DEF CacheStep

LEMMA DailyJobKept ==
  ASSUME CacheInv, R!DailyJob
  PROVE  CacheStep
  <1>1. today \in R!Days /\ today' = today /\ cached' = R!Ensured(today, TRUE)
    BY DEF R!DailyJob, CacheInv
  <1> QED BY <1>1, DayEnsured DEF CacheStep

LEMMA CacheSame ==
  ASSUME CacheInv, today' \in R!Days, cached' = cached
  PROVE  CacheStep
  BY DEF CacheInv, CacheStep, R!CachedWhole, R!HasDay

(* A report that is left alone.                                                  *)
LEMMA ReportKept ==
  ASSUME NEW q, NEW had, NEW have, ReportFits(q, had), had \subseteq have
  PROVE  ReportFits(q, have)
  BY DEF ReportFits

LEMMA ReportsKept ==
  ASSUME RatesInv, CacheStep, asking' = asking
  PROVE  RatesInv'
  <1>1. \A r \in Requests : ReportFits(asking'[r], cached')
    BY ReportKept DEF RatesInv, CacheStep, ReportsFit
  <1> QED BY <1>1 DEF RatesInv, ReportsFit, CacheStep

(* The report of one request changes.                                            *)
LEMMA ReportChanged ==
  ASSUME RatesInv, CacheStep, NEW r \in Requests, NEW q, asking' = [asking EXCEPT ![r] = q],
         ReportFits(q, cached')
  PROVE  RatesInv'
  <1>1. \A s \in Requests : asking'[s] = IF s = r THEN q ELSE asking[s] BY DEF RatesInv
  <1>2. \A s \in Requests : ReportFits(asking'[s], cached')
    BY <1>1, ReportKept DEF RatesInv, CacheStep, ReportsFit
  <1>3. DOMAIN asking' = Requests BY DEF RatesInv
  <1> QED BY <1>2, <1>3 DEF RatesInv, ReportsFit, CacheStep

LEMMA AskKept ==
  ASSUME RatesInv, NEW r \in Requests, NEW dates \in R!Past, R!Ask(r, dates)
  PROVE  RatesInv'
  <1> DEFINE q == [step |-> "caching", dates |-> dates, todo |-> dates, missed |-> {}, rates |-> {}]
  <1>1. asking' = [asking EXCEPT ![r] = q] /\ cached' = cached /\ today' = today /\ dates # {}
    BY DEF R!Ask
  <1>2. CacheStep BY <1>1, CacheSame DEF RatesInv, CacheInv
  <1>3. dates \subseteq R!Days BY RatesAssumption DEF R!Past, R!Days, RatesInv, CacheInv
  <1>4. ReportFits(q, cached') BY <1>1, <1>3 DEF ReportFits
  <1> HIDE DEF q
  <1> QED BY <1>1, <1>2, <1>4, ReportChanged

LEMMA EnsureKept ==
  ASSUME RatesInv, NEW r \in Requests, NEW d \in R!Days, NEW answered \in BOOLEAN,
         R!Ensure(r, d, answered)
  PROVE  RatesInv'
  <1> DEFINE p == asking[r]
             had == answered /\ R!Published(d) = Quoted[d]
             q == [step |-> "caching", dates |-> p.dates, todo |-> p.todo \ {d},
                   missed |-> p.missed \cup IF had THEN {} ELSE {d}, rates |-> {}]
  <1>1. asking' = [asking EXCEPT ![r] = q] BY DEF R!Ensure, RatesInv
  <1>2. cached' = R!Ensured(d, answered) /\ today' = today /\ p.step = "caching" BY DEF R!Ensure
  <1>3. CacheInv BY DEF RatesInv
  <1>4. /\ CacheInv' /\ cached \subseteq cached'
        /\ had => \A c \in Quoted[d] : <<d, c>> \in cached'
    BY <1>2, <1>3, DayEnsured
  <1>5. p # R!Quiet BY <1>2 DEF R!Quiet
  <1>6. ReportFits(p, cached') BY <1>4, ReportKept DEF RatesInv, ReportsFit
  <1> HIDE DEF had, p
  <1>7. \A e \in q.dates : \A c \in Quoted[e] : e \in q.todo \/ e \in q.missed \/ <<e, c>> \in cached'
    <2> SUFFICES ASSUME NEW e \in p.dates, NEW c \in Quoted[e]
                 PROVE  e \in p.todo \ {d} \/ e \in p.missed \cup (IF had THEN {} ELSE {d}) \/ <<e, c>> \in cached'
      OBVIOUS
    <2>1. e \in p.todo \/ e \in p.missed \/ <<e, c>> \in cached' BY <1>2, <1>5, <1>6 DEF ReportFits
    <2>2. CASE e = d BY <1>4, <2>1, <2>2
    <2>3. CASE e # d BY <2>1, <2>3
    <2> QED BY <2>2, <2>3
  <1>8. ReportFits(q, cached') BY <1>5, <1>6, <1>7 DEF ReportFits
  <1>9. CacheStep BY <1>4 DEF CacheStep
  <1> HIDE DEF q
  <1> QED BY <1>1, <1>8, <1>9, ReportChanged

(* The rates a report reads: of the day, if the bank quoted the currency on it and *)
(* its answer came, or of the last day before it that is in reach.                *)
LEMMA MatrixRight ==
  ASSUME CacheInv, NEW q, q # R!Quiet, ReportFits(q, cached), q.step = "caching", q.todo = {},
         NEW x \in R!Matrix(q.dates)
  PROVE  RightRate(q, x)
  <1> DEFINE m == CHOOSE e \in q.dates : \A y \in q.dates : e <= y
             lower == m - Lookback
  <1>1. q.dates \in SUBSET R!Days /\ q.dates # {} BY DEF ReportFits
  <1>2. m \in q.dates /\ \A y \in q.dates : m <= y BY <1>1, EarliestOf
  <1>3. PICK d \in q.dates, c \in Currencies : x = <<d, c, R!Latest(R!DaysOf(c, lower, d))>>
    BY DEF R!Matrix
  <1> HIDE DEF m
  <1> DEFINE D == R!DaysOf(c, lower, d)
             of == R!Latest(D)
  <1>4. m \in Int /\ d \in Int /\ d >= 1 /\ m <= d /\ lower \in Int /\ lower <= d
    BY <1>1, <1>2, RatesAssumption DEF R!Days
  <1>5. D \subseteq lower .. d BY DEF R!DaysOf
  <1>6. /\ D = {} => of = 0
        /\ D # {} => of \in D /\ \A y \in D : y <= of
    BY <1>4, <1>5, LatestOf
  <1>7. x[1] = d /\ x[2] = c /\ x[3] = of BY <1>3
  <1>8. c \in Quoted[d] /\ d \notin q.missed => d \in D
    <2> SUFFICES ASSUME c \in Quoted[d], d \notin q.missed PROVE d \in D OBVIOUS
    <2>1. <<d, c>> \in cached BY DEF ReportFits
    <2> QED BY <1>4, <2>1 DEF R!DaysOf
  <1> HIDE DEF D, of
  <1>9. of = 0 \/ of \in lower .. d BY <1>5, <1>6
  <1>10. of <= d /\ (of # 0 => of >= m - Lookback) BY <1>4, <1>9
  <1>11. c \in Quoted[d] /\ d \notin q.missed => of = d
    <2> SUFFICES ASSUME d \in D PROVE of = d BY <1>8
    <2>1. of \in D /\ d <= of BY <1>6
    <2> QED BY <1>4, <1>5, <1>10, <2>1
  <1> QED BY <1>2, <1>7, <1>10, <1>11 DEF RightRate

LEMMA ShowKept ==
  ASSUME RatesInv, NEW r \in Requests, R!Show(r)
  PROVE  RatesInv'
  <1> DEFINE p == asking[r]
             q == [step |-> "shown", dates |-> p.dates, todo |-> {}, missed |-> p.missed,
                   rates |-> R!Matrix(p.dates)]
  <1>1. asking' = [asking EXCEPT ![r] = q] BY DEF R!Show, RatesInv
  <1>2. cached' = cached /\ today' = today /\ p.step = "caching" /\ p.todo = {} BY DEF R!Show
  <1>3. CacheInv /\ ReportFits(p, cached) BY DEF RatesInv, ReportsFit
  <1>4. p # R!Quiet BY <1>2 DEF R!Quiet
  <1> HIDE DEF p
  <1>5. \A x \in R!Matrix(p.dates) : RightRate(p, x) BY <1>2, <1>3, <1>4, MatrixRight
  <1>6. \A x \in q.rates : RightRate(q, x) BY <1>5 DEF RightRate
  <1>7. ReportFits(q, cached') BY <1>2, <1>3, <1>4, <1>6 DEF ReportFits
  <1>8. CacheStep BY <1>2, <1>3, CacheSame DEF CacheInv
  <1> HIDE DEF q
  <1> QED BY <1>1, <1>7, <1>8, ReportChanged

LEMMA DoneKept ==
  ASSUME RatesInv, NEW r \in Requests, R!Done(r)
  PROVE  RatesInv'
  <1>1. asking' = [asking EXCEPT ![r] = R!Quiet] /\ cached' = cached /\ today' = today BY DEF R!Done
  <1>2. CacheStep BY <1>1, CacheSame DEF RatesInv, CacheInv
  <1>3. ReportFits(R!Quiet, cached') BY DEF ReportFits
  <1> QED BY <1>1, <1>2, <1>3, ReportChanged

LEMMA RatesInit == R!Init => RatesInv
  BY RatesAssumption DEF R!Init, RatesInv, CacheInv, R!CachedWhole, R!HasDay, R!Days, ReportsFit, ReportFits

LEMMA RatesStep ==
  ASSUME RatesInv, [R!Next]_R!vars
  PROVE  RatesInv'
  <1>0. CacheInv /\ today \in R!Days BY DEF RatesInv, CacheInv
  <1>1. CASE UNCHANGED R!vars \/ R!Publish \/ \E given \in SUBSET Currencies, usd \in BOOLEAN : R!FetchRates(given, usd)
    <2>1. cached' = cached /\ today' = today /\ asking' = asking
      BY <1>1 DEF R!vars, R!Publish, R!FetchRates
    <2> QED BY <1>0, <2>1, CacheSame, ReportsKept
  <1>2. CASE R!NextDay
    <2>1. cached' = cached /\ asking' = asking BY <1>2 DEF R!NextDay
    <2>2. today' \in R!Days BY <1>0, <1>2, RatesAssumption DEF R!NextDay, R!Days
    <2> QED BY <1>0, <2>1, <2>2, CacheSame, ReportsKept
  <1>3. CASE R!DailyJob
    <2>1. asking' = asking BY <1>3 DEF R!DailyJob
    <2> QED BY <1>0, <1>3, <2>1, DailyJobKept, ReportsKept
  <1>4. ASSUME NEW c \in Currencies, NEW d \in 1 .. today, R!LookUp(c, d) PROVE RatesInv'
    <2>1. asking' = asking BY <1>4 DEF R!LookUp
    <2> QED BY <1>0, <1>4, <2>1, LookUpKept, ReportsKept
  <1>5. ASSUME NEW dates \in SUBSET R!Days, R!Fill(dates) PROVE RatesInv'
    <2>1. asking' = asking BY <1>5 DEF R!Fill
    <2> QED BY <1>0, <1>5, <2>1, FillKept, ReportsKept
  <1>6. R!Past \subseteq SUBSET R!Days BY <1>0, RatesAssumption DEF R!Past, R!Days
  <1>7. ASSUME NEW c \in Currencies, NEW dates \in R!Past, R!Bulk(c, dates) PROVE RatesInv'
    <2>1. R!Unfilled(c, dates) \in SUBSET R!Days BY <1>6 DEF R!Unfilled
    <2> QED BY <1>5, <1>7, <2>1 DEF R!Bulk
  <1>8. ASSUME NEW dates \in R!Past, R!Backfill(dates) PROVE RatesInv'
    <2>1. {d \in dates : ~R!HasDay(d)} \in SUBSET R!Days BY <1>6
    <2> QED BY <1>5, <1>8, <2>1 DEF R!Backfill
  <1> QED BY <1>1, <1>2, <1>3, <1>4, <1>7, <1>8, AskKept, EnsureKept, ShowKept, DoneKept DEF R!Next

LEMMA RatesInvMeans ==
  ASSUME RatesInv PROVE R!CachedWhole /\ R!ShownAtItsDay /\ R!FallbacksAgree
  <1>1. R!CachedWhole BY DEF RatesInv, CacheInv
  <1>2. R!ShownAtItsDay BY DEF RatesInv, ReportsFit, ReportFits, RightRate, R!ShownAtItsDay
  <1>3. R!FallbacksAgree
    BY DEF R!FallbacksAgree, R!Forecast, R!ThroughTl, R!ForecastRate, R!ToTlRate
  <1> QED BY <1>1, <1>2, <1>3

LEMMA RatesSafe == R!Spec => [](R!CachedWhole /\ R!ShownAtItsDay /\ R!FallbacksAgree)
  BY RatesInit, RatesStep, RatesInvMeans, PTL DEF R!Spec

-----------------------------------------------------------------------------
(* The tables of holdings (H). *)

(* The library counts what the instance counts.                                  *)
LEMMA SameCounting ==
  \A S : H!Cardinality(S) = Cardinality(S) /\ H!IsFiniteSet(S) = IsFiniteSet(S)
  BY DEF H!Cardinality, Cardinality, H!IsFiniteSet, IsFiniteSet

LEMMA InjectionExists ==
  ASSUME NEW S, NEW T, IsFiniteSet(S), IsFiniteSet(T), Cardinality(S) <= Cardinality(T)
  PROVE  \E f \in [S -> T] : \A x, y \in S : f[x] = f[y] => x = y
  <1> DEFINE n == Cardinality(S)
             m == Cardinality(T)
  <1>1. n \in Nat /\ m \in Nat /\ ExistsBijection(1 .. n, S) /\ ExistsBijection(1 .. m, T)
    BY FS_CardinalityType
  <1> HIDE DEF n, m
  <1>2. ExistsBijection(S, 1 .. n) BY <1>1, Fun_ExistsBijSymmetric
  <1>3. ExistsInjection(S, 1 .. n) /\ ExistsInjection(1 .. m, T)
    BY <1>1, <1>2, Fun_ExistsBijEquiv
  <1>4. ExistsInjection(1 .. n, 1 .. m) BY <1>1, Fun_NatInjLeq DEF n, m
  <1>5. ExistsInjection(S, T) BY <1>3, <1>4, Fun_ExistsInjTransitive
  <1>6. PICK f \in Injection(S, T) : TRUE BY <1>5 DEF ExistsInjection
  <1>7. f \in [S -> T] /\ \A x, y \in S : f[x] = f[y] => x = y
    BY <1>6 DEF Injection, IsInjective
  <1> QED BY <1>7

(* What a request under way knows. The keys it found are those the rows still     *)
(* have, if they are still there.                                                *)
JobFits(j) ==
  /\ IsFiniteSet(j.list)
  /\ kind = "wallet" => \A h \in j.list : h.text = "whole"
  /\ kind = "exchange" => \A i \in DOMAIN j.seen \cap DOMAIN holdings : j.seen[i] = holdings[i].key

HeldInv ==
  /\ H!TypeOK /\ H!AddressesWhole
  /\ DOMAIN work = Clients
  /\ \A c \in H!Busy : JobFits(work[c])

(* A table that may follow the one there is.                                     *)
TableFits(t) ==
  /\ DOMAIN t \subseteq H!Ids /\ \A i \in DOMAIN t : t[i] \in H!Holding
  /\ kind = "wallet" => \A i, j \in DOMAIN t : t[i].text = "whole" /\ (t[i] = t[j] => i = j)
  /\ kind = "exchange" => \A i \in DOMAIN t : i \notin DOMAIN holdings => i \in H!Spare
  /\ kind = "exchange" => \A i \in DOMAIN t \cap DOMAIN holdings : t[i].key = holdings[i].key

HeldStep ==
  /\ HeldInv' /\ TableFits(holdings')
  /\ kind' = kind
  /\ kind = "exchange" =>
       DOMAIN holdings \subseteq DOMAIN holdings' \/ \E key \in Keys : H!RemoveKey(key)

LEMMA TableIsFit == ASSUME HeldInv PROVE TableFits(holdings)
  BY DEF HeldInv, H!TypeOK, H!AddressesWhole, TableFits

LEMMA TableWithout ==
  ASSUME HeldInv, NEW ids
  PROVE  TableFits(H!Without(ids)) /\ DOMAIN H!Without(ids) = DOMAIN holdings \ ids
  <1>1. DOMAIN H!Without(ids) = DOMAIN holdings \ ids BY DEF H!Without
  <1>2. \A i \in DOMAIN holdings \ ids : H!Without(ids)[i] = holdings[i] BY DEF H!Without
  <1> QED BY <1>1, <1>2, TableIsFit DEF TableFits

(* The table moves on; the jobs go on as they are, or end.                       *)
LEMMA TableMoves ==
  ASSUME HeldInv, kind' = kind, TableFits(holdings'), DOMAIN work' = Clients,
         \A c \in Clients : work'[c] # H!Idle =>
           /\ work[c] # H!Idle /\ work'[c].list = work[c].list /\ work'[c].seen = work[c].seen
           /\ work'[c].after \subseteq {d \in Clients : work'[d] # H!Idle} \ {c}
  PROVE  HeldInv'
  <1>1. H!Busy' = {d \in Clients : work'[d] # H!Idle} /\ H!Idle' = H!Idle
    BY DEF H!Busy, H!Idle
  <1>2. \A c \in H!Busy' : c \in H!Busy /\ c \in Clients BY <1>1 DEF H!Busy
  <1>3. H!Holding' = H!Holding /\ H!Ids' = H!Ids
    BY DEF H!Holding, H!Ids
  <1>4. H!TypeOK'
    <2>1. \A c \in H!Busy' : work'[c].list \subseteq H!Holding
      BY <1>1, <1>2 DEF HeldInv, H!TypeOK
    <2>2. \A c \in H!Busy' : work'[c].after \subseteq H!Busy' \ {c} BY <1>1, <1>2
    <2>3. kind \in Kinds BY DEF HeldInv, H!TypeOK
    <2> QED BY <1>3, <2>1, <2>2, <2>3 DEF H!TypeOK, TableFits
  <1>5. H!AddressesWhole' BY DEF H!AddressesWhole, TableFits
  <1>6. ASSUME NEW c \in H!Busy' PROVE JobFits(work[c])'
    <2>1. c \in H!Busy /\ work'[c].list = work[c].list /\ work'[c].seen = work[c].seen
      BY <1>1, <1>2
    <2>2. JobFits(work[c]) BY <2>1 DEF HeldInv
    <2>3. ASSUME kind = "exchange", NEW i \in DOMAIN work'[c].seen \cap DOMAIN holdings'
          PROVE  work'[c].seen[i] = holdings'[i].key
      <3>1. i \in DOMAIN work[c].seen BY <2>1, <2>3
      <3>2. i \notin H!Spare BY <2>1, <3>1 DEF H!Spare, H!Seen
      <3>3. i \in DOMAIN holdings /\ holdings'[i].key = holdings[i].key
        BY <2>3, <3>2 DEF TableFits
      <3> QED BY <2>1, <2>2, <2>3, <3>1, <3>3 DEF JobFits
    <2> QED BY <2>1, <2>2, <2>3 DEF JobFits
  <1> QED BY <1>4, <1>5, <1>6 DEF HeldInv

LEMMA TableMovesAlone ==
  ASSUME HeldInv, UNCHANGED <<kind, work>>, TableFits(holdings'),
         kind = "exchange" =>
           DOMAIN holdings \subseteq DOMAIN holdings' \/ \E key \in Keys : H!RemoveKey(key)
  PROVE  HeldStep
  <1>1. \A c \in Clients : work[c] # H!Idle => work[c].after \subseteq {d \in Clients : work[d] # H!Idle} \ {c}
    BY DEF HeldInv, H!TypeOK, H!Busy
  <1>2. DOMAIN work = Clients BY DEF HeldInv
  <1>3. HeldInv' BY <1>1, <1>2, TableMoves
  <1> QED BY <1>3 DEF HeldStep

(* Fresh ids, one for each of the rows of a list, if there is room for them.     *)
LEMMA FreshIdsGiven ==
  ASSUME HeldInv, NEW list, IsFiniteSet(list), H!Room(list)
  PROVE  /\ H!Fresh(list) \in [list -> H!Spare]
         /\ \A x, y \in list : H!Fresh(list)[x] = H!Fresh(list)[y] => x = y
  <1>1. kind \in Kinds /\ MaxHoldings[kind] \in Int
    BY HoldingsAssumption DEF HeldInv, H!TypeOK
  <1>2. IsFiniteSet(1 .. MaxHoldings[kind]) BY <1>1, FS_Interval
  <1>3. H!Spare \in SUBSET (1 .. MaxHoldings[kind]) BY DEF H!Spare, H!Ids
  <1>4. IsFiniteSet(H!Spare) BY <1>2, <1>3, FS_Subset
  <1>5. Cardinality(list) <= Cardinality(H!Spare) BY SameCounting DEF H!Room
  <1> DEFINE S == H!Spare
             Good(f) == \A x, y \in list : f[x] = f[y] => x = y
  <1>6. \E f \in [list -> S] : Good(f) BY <1>4, <1>5, InjectionExists
  <1>7. H!Fresh(list) = CHOOSE f \in [list -> S] : Good(f) BY DEF H!Fresh
  <1> HIDE DEF S, Good
  <1>8. H!Fresh(list) \in [list -> S] /\ Good(H!Fresh(list)) BY <1>6, <1>7
  <1> QED BY <1>8 DEF S, Good

LEMMA WithRows ==
  ASSUME NEW old, NEW f, \A x, y \in DOMAIN f : f[x] = f[y] => x = y,
         \A h \in DOMAIN f : f[h] \notin DOMAIN old
  PROVE  /\ DOMAIN H!With(old, f) = DOMAIN old \cup {f[h] : h \in DOMAIN f}
         /\ \A i \in DOMAIN old : H!With(old, f)[i] = old[i]
         /\ \A h \in DOMAIN f : H!With(old, f)[f[h]] = h
  <1>1. ASSUME NEW h \in DOMAIN f PROVE H!With(old, f)[f[h]] = h
    <2>1. H!With(old, f)[f[h]] = CHOOSE g \in DOMAIN f : f[g] = f[h] BY DEF H!With
    <2>2. (CHOOSE g \in DOMAIN f : f[g] = f[h]) = h OBVIOUS
    <2> QED BY <2>1, <2>2
  <1> QED BY <1>1 DEF H!With

(* Rows are added to a table of which every row is one there was.                *)
LEMMA RowsAdded ==
  ASSUME HeldInv, NEW old, TableFits(old), DOMAIN old \subseteq DOMAIN holdings,
         NEW list, list \subseteq H!Holding, IsFiniteSet(list), H!Room(list),
         kind = "wallet" => \A h \in list : h.text = "whole" /\ \A i \in DOMAIN old : old[i] # h,
         holdings' = H!With(old, H!Fresh(list))
  PROVE  TableFits(holdings') /\ DOMAIN old \subseteq DOMAIN holdings'
  <1> DEFINE f == H!Fresh(list)
             t == H!With(old, f)
  <1>1. f \in [list -> H!Spare] /\ \A x, y \in list : f[x] = f[y] => x = y
    BY FreshIdsGiven
  <1>2. DOMAIN holdings \cap H!Spare = {} /\ H!Spare \subseteq H!Ids BY DEF H!Spare
  <1> HIDE DEF f
  <1>3. /\ DOMAIN t = DOMAIN old \cup {f[h] : h \in list}
        /\ \A i \in DOMAIN old : t[i] = old[i]
        /\ \A h \in list : t[f[h]] = h
    <2>1. DOMAIN f = list BY <1>1
    <2>2. \A h \in DOMAIN f : f[h] \notin DOMAIN old BY <1>1, <1>2
    <2> QED BY <1>1, <2>1, <2>2, WithRows
  <1>4. holdings' = t BY DEF f
  <1> HIDE DEF t
  <1>5. \A i \in DOMAIN t : i \in DOMAIN old \/ \E h \in list : i = f[h] BY <1>3
  <1>6. \A h \in list : f[h] \in H!Spare /\ t[f[h]] = h
    <2> SUFFICES ASSUME NEW h \in list PROVE f[h] \in H!Spare /\ t[f[h]] = h OBVIOUS
    <2> QED BY <1>1, <1>3
  <1>7. DOMAIN t \subseteq H!Ids /\ \A i \in DOMAIN t : t[i] \in H!Holding
    <2> SUFFICES ASSUME NEW i \in DOMAIN t PROVE i \in H!Ids /\ t[i] \in H!Holding OBVIOUS
    <2>1. CASE i \in DOMAIN old BY <1>3, <2>1 DEF TableFits
    <2>2. CASE \E h \in list : i = f[h] BY <1>2, <1>6, <2>2
    <2> QED BY <1>5, <2>1, <2>2
  <1>8. ASSUME kind = "wallet", NEW i \in DOMAIN t, NEW j \in DOMAIN t
        PROVE  t[i].text = "whole" /\ (t[i] = t[j] => i = j)
    <2>1. CASE i \in DOMAIN old /\ j \in DOMAIN old BY <1>3, <1>8, <2>1 DEF TableFits
    <2>2. CASE i \in DOMAIN old /\ \E h \in list : j = f[h]
      <3>1. PICK h \in list : j = f[h] BY <2>2
      <3>2. t[j] = h /\ t[i] = old[i] BY <1>3, <1>6, <2>2, <3>1
      <3> QED BY <1>8, <2>2, <3>2 DEF TableFits
    <2>3. CASE (\E h \in list : i = f[h]) /\ j \in DOMAIN old
      <3>1. PICK h \in list : i = f[h] BY <2>3
      <3>2. t[i] = h /\ t[j] = old[j] BY <1>3, <1>6, <2>3, <3>1
      <3> QED BY <1>8, <2>3, <3>2
    <2>4. CASE (\E h \in list : i = f[h]) /\ (\E h \in list : j = f[h])
      BY <1>6, <1>8, <2>4
    <2> QED BY <1>5, <2>1, <2>2, <2>3, <2>4
  <1>9. ASSUME kind = "exchange", NEW i \in DOMAIN t
        PROVE  IF i \in DOMAIN holdings THEN t[i].key = holdings[i].key ELSE i \in H!Spare
    <2>1. CASE i \in DOMAIN old BY <1>3, <1>9, <2>1 DEF TableFits
    <2>2. CASE \E h \in list : i = f[h] BY <1>2, <1>6, <2>2
    <2> QED BY <1>5, <2>1, <2>2
  <1>10. TableFits(t) BY <1>7, <1>8, <1>9 DEF TableFits
  <1>11. DOMAIN old \subseteq DOMAIN t BY <1>3
  <1> QED BY <1>4, <1>10, <1>11

(* Rows of each kind, and of what a table of that kind is filled with.           *)
LEMMA KindRows ==
  /\ kind \in {"fund", "stock"} => H!Holding = H!Priced
  /\ kind = "coin" => H!Holding = H!HeldCoins
  /\ kind = "pension" => H!Holding = H!PensionPlans
  /\ kind = "wallet" => H!Holding = H!Addresses
  /\ kind = "exchange" => H!Holding = H!ApiKeys
  /\ kind = "metal" => H!Holding = H!Metals
  /\ kind = "cash" => H!Holding = H!Balances
  BY DEF H!Holding

LEMMA CoinFields ==
  ASSUME NEW x \in H!CoinCells
  PROVE  /\ x.key \in Keys /\ x.source \in {"auto", "manual", "linked"}
         /\ x.price \in {"none", "zero", "typed"} /\ x.via \in {"none", "source"} /\ x.to \in {"none", "asset"}
  BY DEF H!CoinCells

LEMMA CoinSourced == \A x \in H!CoinCells : H!Sourced(x) \in H!HeldCoins
  <1> TAKE x \in H!CoinCells
  <1> DEFINE p == IF x.source = "manual" THEN x.price ELSE "none"
             v == IF x.source = "linked" THEN x.via ELSE "none"
             t == IF x.source = "linked" THEN x.to ELSE "none"
  <1>1. H!Sourced(x) = [key |-> x.key, source |-> x.source, price |-> p, via |-> v, to |-> t]
    BY DEF H!Sourced
  <1>2. /\ p \in {"none", "zero", "typed"} /\ (x.source # "manual" => p = "none")
        /\ v \in {"none", "source"} /\ t \in {"none", "asset"}
        /\ (x.source # "linked" => v = "none" /\ t = "none")
    BY CoinFields
  <1> HIDE DEF p, v, t
  <1> QED BY <1>1, <1>2, CoinFields DEF H!HeldCoins, H!CoinCells

LEMMA CoinRepriced ==
  ASSUME NEW h \in H!HeldCoins, NEW source \in {"none", "auto", "manual", "linked"},
         NEW price \in {"none", "zero", "typed"},
         NEW via \in {"none", "source"}, NEW to \in {"none", "asset"}
  PROVE  H!Repriced(h, source, price, via, to) \in H!HeldCoins
  <1> DEFINE now == IF source = "none" THEN h.source ELSE source
             cell(of, given, old) ==
               IF now = of THEN IF given # "none" THEN given ELSE old
               ELSE IF source # "none" THEN "none" ELSE old
             p == cell("manual", price, h.price)
             v == cell("linked", via, h.via)
             t == cell("linked", to, h.to)
  <1>1. /\ h \in H!CoinCells /\ (h.source # "manual" => h.price = "none")
        /\ (h.source # "linked" => h.via = "none" /\ h.to = "none")
    BY DEF H!HeldCoins
  <1>2. now \in {"auto", "manual", "linked"} BY <1>1, CoinFields
  <1>3. p \in {"none", "zero", "typed"} /\ (now # "manual" => p = "none") BY <1>1, CoinFields
  <1>4. v \in {"none", "source"} /\ (now # "linked" => v = "none") BY <1>1, CoinFields
  <1>5. t \in {"none", "asset"} /\ (now # "linked" => t = "none") BY <1>1, CoinFields
  <1>6. H!Repriced(h, source, price, via, to) =
          [key |-> h.key, source |-> now, price |-> p, via |-> v, to |-> t]
    BY DEF H!Repriced
  <1> HIDE DEF now, p, v, t
  <1> QED BY <1>1, <1>2, <1>3, <1>4, <1>5, <1>6, CoinFields DEF H!HeldCoins, H!CoinCells

(* What is read of a coin's row: the cells that say what it is worth.            *)
ReadAs(x) ==
  [key |-> x.key, source |-> x.source,
   price |-> IF x.source = "manual" /\ x.price # "zero" THEN x.price ELSE "none",
   via |-> IF x.source = "linked" /\ H!Whole(x) THEN x.via ELSE "none",
   to |-> IF x.source = "linked" /\ H!Whole(x) THEN x.to ELSE "none"]

LEMMA CoinRead ==
  ASSUME NEW x \in H!CoinCells
  PROVE  H!ReadCoin(x) = {ReadAs(x)} /\ ReadAs(x) \in H!HeldCoins
  <1> DEFINE y == [x EXCEPT !.price = IF @ = "zero" THEN "none" ELSE @]
             z == H!WithLink(y, H!Whole(x))
  <1>1. /\ y.key = x.key /\ y.source = x.source /\ y.via = x.via /\ y.to = x.to
        /\ y.price = IF x.price = "zero" THEN "none" ELSE x.price
        /\ y \in H!CoinCells
    BY DEF H!CoinCells
  <1>2. H!ReadCoin(x) = {H!Sourced(z)} BY DEF H!ReadCoin
  <1> HIDE DEF y
  <1>3. /\ z.key = y.key /\ z.source = y.source /\ z.price = y.price
        /\ z.via = IF H!Whole(x) THEN y.via ELSE "none"
        /\ z.to = IF H!Whole(x) THEN y.to ELSE "none"
        /\ z \in H!CoinCells
    BY <1>1 DEF H!WithLink, H!CoinCells
  <1> HIDE DEF z
  <1>4. H!Sourced(z) = ReadAs(x) BY <1>1, <1>3 DEF H!Sourced, ReadAs
  <1> QED BY <1>2, <1>3, <1>4, CoinSourced

LEMMA CoinRestored ==
  ASSUME NEW h \in H!HeldCoins
  PROVE  LET x == [h EXCEPT !.price = IF @ = "zero" THEN "none" ELSE @]
         IN  x \in H!CoinCells /\ H!CoinWorth(ReadAs(x)) = H!CoinWorth(h)
  <1> DEFINE x == [h EXCEPT !.price = IF @ = "zero" THEN "none" ELSE @]
             w == ReadAs(x)
  <1>1. h \in H!CoinCells BY DEF H!HeldCoins
  <1>2. /\ x.key = h.key /\ x.source = h.source /\ x.via = h.via /\ x.to = h.to
        /\ x.price = IF h.price = "zero" THEN "none" ELSE h.price
        /\ x \in H!CoinCells
    BY <1>1 DEF H!CoinCells
  <1> HIDE DEF x
  <1>3. /\ w.key = h.key /\ w.source = h.source
        /\ w.source = "manual" => w.price = x.price
        /\ w.source = "linked" => (w.via # "none" /\ w.to # "none" <=> h.via # "none" /\ h.to # "none")
    BY <1>2 DEF ReadAs, H!Whole
  <1> HIDE DEF w
  <1>4. H!HasPrice(w) <=> H!HasPrice(h) BY <1>2, <1>3 DEF H!HasPrice, H!Whole
  <1>5. H!HasPrice(w) = H!HasPrice(h) BY <1>4 DEF H!HasPrice
  <1>6. H!CoinWorth(w) = H!CoinWorth(h) BY <1>3, <1>5 DEF H!CoinWorth
  <1> QED BY <1>2, <1>6 DEF w, x

(* What is read of a metal's row.                                                *)
LEMMA MetalRead ==
  ASSUME NEW x \in H!MetalCells
  PROVE  /\ H!ReadMetal(x) \subseteq H!Metals /\ IsFiniteSet(H!ReadMetal(x))
         /\ x \in H!Metals =>
              \E y \in H!Metals : H!ReadMetal(x) = {y} /\ H!MetalWorth(y) = H!MetalWorth(x)
  <1> DEFINE y == [x EXCEPT !.biga = IF x.unit = "biga" THEN @ ELSE "none",
                            !.coin = IF x.unit = "coin" THEN @ ELSE "none"]
  <1>1. H!ReadMetal(x) = IF x \in H!Metals THEN {y} ELSE {} BY DEF H!ReadMetal
  <1>2. /\ x.unit \in {"gram", "biga", "coin"} /\ y \in H!MetalCells
        /\ y.key = x.key /\ y.unit = x.unit /\ y.amount = x.amount
        /\ y.biga = IF x.unit = "biga" THEN x.biga ELSE "none"
        /\ y.coin = IF x.unit = "coin" THEN x.coin ELSE "none"
    BY DEF H!MetalCells
  <1> HIDE DEF y
  <1>3. ASSUME x \in H!Metals PROVE y \in H!Metals BY <1>2, <1>3 DEF H!Metals
  <1>4. H!MetalWorth(y) = H!MetalWorth(x)
    <2>1. CASE x.unit = "gram" BY <1>2, <2>1 DEF H!MetalWorth
    <2>2. CASE x.unit = "biga" BY <1>2, <2>2 DEF H!MetalWorth
    <2>3. CASE x.unit = "coin" BY <1>2, <2>3 DEF H!MetalWorth
    <2> QED BY <1>2, <2>1, <2>2, <2>3
  <1>5. IsFiniteSet({y}) /\ IsFiniteSet({}) BY FS_Singleton, FS_EmptySet
  <1>6. CASE x \in H!Metals BY <1>1, <1>3, <1>4, <1>5, <1>6
  <1>7. CASE x \notin H!Metals BY <1>1, <1>5, <1>7
  <1> QED BY <1>6, <1>7

(* Lists have none, one or two rows.                                             *)
LEMMA ListParts ==
  ASSUME NEW S, NEW list \in H!Lists(S)
  PROVE  list \subseteq S /\ IsFiniteSet(list) /\ (list = {} \/ \E a, b \in S : list = {a, b})
  <1>1. list = {} \/ \E a, b \in S : list = {a, b}
    <2>1. CASE \E x \in S : list = {x}
      <3>1. PICK x \in S : list = {x} BY <2>1
      <3>2. list = {x, x} BY <3>1
      <3> QED BY <3>2
    <2>2. list = {} \/ (\E x \in S : list = {x}) \/ \E a, b \in S : list = {a, b}
      BY DEF H!Lists
    <2> QED BY <2>1, <2>2
  <1>2. \A a, b : IsFiniteSet({a, b})
    <2> TAKE a, b
    <2>1. IsFiniteSet({a}) BY FS_Singleton
    <2>2. IsFiniteSet({a} \cup {b}) BY <2>1, FS_AddElement
    <2>3. {a} \cup {b} = {a, b} OBVIOUS
    <2> QED BY <2>2, <2>3
  <1>3. IsFiniteSet(list)
    <2>1. CASE list = {} BY <2>1, FS_EmptySet
    <2>2. CASE \E a, b \in S : list = {a, b} BY <1>2, <2>2
    <2> QED BY <1>1, <2>1, <2>2
  <1>4. list \subseteq S BY <1>1
  <1> QED BY <1>1, <1>3, <1>4

(* A list of rows that a table may be filled with.                               *)
ListFits(list) ==
  /\ list \subseteq H!Holding /\ IsFiniteSet(list)
  /\ kind = "wallet" => \A h \in list : h.text = "whole"

LEMMA TwoRead == ASSUME NEW A, NEW B, ListFits(A), ListFits(B) PROVE ListFits(A \cup B)
  BY FS_Union DEF ListFits

LEMMA NoneRead == ListFits({})
  BY FS_EmptySet DEF ListFits

LEMMA OneRead == ASSUME NEW h \in H!Holding, kind = "wallet" => h.text = "whole" PROVE ListFits({h})
  BY FS_Singleton DEF ListFits

LEMMA FundsRead ==
  ASSUME kind = "fund", NEW file \in H!Lists(H!PricedRows)
  PROVE  ListFits(UNION {H!ReadFund(x) : x \in file})
  <1>1. \A x \in H!PricedRows : ListFits(H!ReadFund(x))
    <2> TAKE x \in H!PricedRows
    <2> DEFINE r == [key |-> x.key, cost |-> x.quote, agency |-> "none"]
    <2>1. r \in H!Holding BY KindRows DEF H!PricedRows, H!Priced
    <2>2. H!ReadFund(x) = {r} BY DEF H!ReadFund
    <2> HIDE DEF r
    <2> QED BY <2>1, <2>2, OneRead
  <1>2. CASE file = {} BY <1>2, NoneRead
  <1>3. ASSUME NEW a \in H!PricedRows, NEW b \in H!PricedRows, file = {a, b}
        PROVE  ListFits(UNION {H!ReadFund(x) : x \in file})
    <2>1. UNION {H!ReadFund(x) : x \in file} = H!ReadFund(a) \cup H!ReadFund(b) BY <1>3
    <2> QED BY <1>1, <2>1, TwoRead
  <1> QED BY <1>2, <1>3, ListParts

LEMMA StocksRead ==
  ASSUME kind = "stock", NEW file \in H!Lists(H!PricedRows)
  PROVE  ListFits(UNION {H!ReadStock(x) : x \in file})
  <1>1. \A x \in H!PricedRows : ListFits(H!ReadStock(x))
    <2> TAKE x \in H!PricedRows
    <2> DEFINE r == [key |-> x.key, cost |-> x.quote, agency |-> x.agency]
    <2>1. r \in H!Holding BY KindRows DEF H!PricedRows, H!Priced
    <2>2. H!ReadStock(x) = {r} BY DEF H!ReadStock
    <2> HIDE DEF r
    <2> QED BY <2>1, <2>2, OneRead
  <1>2. CASE file = {} BY <1>2, NoneRead
  <1>3. ASSUME NEW a \in H!PricedRows, NEW b \in H!PricedRows, file = {a, b}
        PROVE  ListFits(UNION {H!ReadStock(x) : x \in file})
    <2>1. UNION {H!ReadStock(x) : x \in file} = H!ReadStock(a) \cup H!ReadStock(b) BY <1>3
    <2> QED BY <1>1, <2>1, TwoRead
  <1> QED BY <1>2, <1>3, ListParts

LEMMA CoinsRead ==
  ASSUME kind = "coin", NEW file \in H!Lists(H!CoinRows)
  PROVE  ListFits(UNION {H!ReadCoin(x) : x \in file})
  <1>1. \A x \in H!CoinRows : ListFits(H!ReadCoin(x))
    <2> TAKE x \in H!CoinRows
    <2>1. H!ReadCoin(x) = {ReadAs(x)} /\ ReadAs(x) \in H!Holding BY KindRows, CoinRead DEF H!CoinRows
    <2> QED BY <2>1, OneRead
  <1>2. CASE file = {} BY <1>2, NoneRead
  <1>3. ASSUME NEW a \in H!CoinRows, NEW b \in H!CoinRows, file = {a, b}
        PROVE  ListFits(UNION {H!ReadCoin(x) : x \in file})
    <2>1. UNION {H!ReadCoin(x) : x \in file} = H!ReadCoin(a) \cup H!ReadCoin(b) BY <1>3
    <2> QED BY <1>1, <2>1, TwoRead
  <1> QED BY <1>2, <1>3, ListParts

LEMMA PensionsRead ==
  ASSUME kind = "pension", NEW file \in H!Lists(H!Holding)
  PROVE  ListFits(UNION {H!ReadPension(x) : x \in file})
  <1>1. \A x \in H!Holding : ListFits(H!ReadPension(x))
    BY NoneRead, OneRead DEF H!ReadPension
  <1>2. CASE file = {} BY <1>2, NoneRead
  <1>3. ASSUME NEW a \in H!Holding, NEW b \in H!Holding, file = {a, b}
        PROVE  ListFits(UNION {H!ReadPension(x) : x \in file})
    <2>1. UNION {H!ReadPension(x) : x \in file} = H!ReadPension(a) \cup H!ReadPension(b) BY <1>3
    <2> QED BY <1>1, <2>1, TwoRead
  <1> QED BY <1>2, <1>3, ListParts

LEMMA MetalsRead ==
  ASSUME kind = "metal", NEW file \in H!Lists(H!MetalRows)
  PROVE  ListFits(UNION {H!ReadMetal(x) : x \in file})
  <1>1. \A x \in H!MetalRows : ListFits(H!ReadMetal(x))
    BY MetalRead, KindRows DEF H!MetalRows, ListFits
  <1>2. CASE file = {} BY <1>2, NoneRead
  <1>3. ASSUME NEW a \in H!MetalRows, NEW b \in H!MetalRows, file = {a, b}
        PROVE  ListFits(UNION {H!ReadMetal(x) : x \in file})
    <2>1. UNION {H!ReadMetal(x) : x \in file} = H!ReadMetal(a) \cup H!ReadMetal(b) BY <1>3
    <2> QED BY <1>1, <2>1, TwoRead
  <1> QED BY <1>2, <1>3, ListParts

(* What is read as it stands.                                                    *)
LEMMA RowsRead ==
  ASSUME NEW file \in H!Lists(H!Holding), kind = "wallet" => \A x \in file : x.text # "masked"
  PROVE  /\ ListFits(UNION {H!ReadWallet(x) : x \in file})
         /\ ListFits(UNION {H!ReadKey(x) : x \in file})
  <1>1. file \subseteq H!Holding /\ IsFiniteSet(file) BY ListParts
  <1>2. ListFits(file) BY <1>1, KindRows DEF ListFits, H!Addresses
  <1>3. /\ UNION {H!ReadWallet(x) : x \in file} = file
        /\ UNION {H!ReadKey(x) : x \in file} = file
    BY DEF H!ReadWallet, H!ReadKey
  <1> QED BY <1>2, <1>3

LEMMA RowsTyped ==
  ASSUME NEW list \in H!Lists(H!Typed)
  PROVE  ListFits(list)
  BY ListParts DEF ListFits, H!Typed

LEMMA ReportRead ==
  ASSUME kind \in {"fund", "stock"}, NEW list \in H!Lists(H!Report)
  PROVE  ListFits(list)
  <1>1. H!Report \subseteq H!Priced BY DEF H!Report, H!Priced
  <1> QED BY <1>1, ListParts, KindRows DEF ListFits

-----------------------------------------------------------------------------
(* The steps. *)

LEMMA BeginKept ==
  ASSUME HeldInv, NEW c \in Clients, NEW list, ListFits(list), H!Begin(c, list)
  PROVE  HeldStep
  <1> DEFINE after == {d \in H!Busy : kind # "exchange" /\ DOMAIN work[d].seen \cap DOMAIN holdings # {}}
             seen == [i \in DOMAIN holdings |-> holdings[i].key]
             j == [list |-> list, seen |-> seen, after |-> after]
  <1>1. c \notin H!Busy /\ work' = [work EXCEPT ![c] = j] /\ UNCHANGED <<kind, holdings>>
    BY DEF H!Begin
  <1>2. DOMAIN work = Clients /\ H!TypeOK /\ H!AddressesWhole BY DEF HeldInv
  <1>3. \A d \in Clients : work'[d] = IF d = c THEN j ELSE work[d] BY <1>1, <1>2
  <1>4. j # H!Idle BY DEF H!Idle
  <1>5. j.list = list /\ j.seen = seen /\ j.after = after OBVIOUS
  <1>6. after \subseteq H!Busy OBVIOUS
  <1> HIDE DEF j, after
  <1>7. H!Busy' = H!Busy \cup {c} BY <1>3, <1>4 DEF H!Busy, H!Idle
  <1>8. H!TypeOK'
    <2>1. H!Holding' = H!Holding /\ H!Ids' = H!Ids BY <1>1 DEF H!Holding, H!Ids
    <2>2. \A d \in H!Busy' : work'[d].list \subseteq H!Holding
      BY <1>2, <1>3, <1>5, <1>7 DEF H!TypeOK, ListFits, H!Busy
    <2>3. \A d \in H!Busy' : work'[d].after \subseteq H!Busy' \ {d}
      BY <1>1, <1>2, <1>3, <1>5, <1>6, <1>7 DEF H!TypeOK, H!Busy
    <2> QED BY <1>1, <1>2, <2>1, <2>2, <2>3 DEF H!TypeOK
  <1>9. ASSUME NEW d \in H!Busy' PROVE JobFits(work[d])'
    <2>1. CASE d = c BY <1>1, <1>3, <1>5, <2>1 DEF JobFits, ListFits
    <2>2. CASE d # c
      <3>1. d \in H!Busy /\ work'[d] = work[d] BY <1>3, <1>7, <2>2 DEF H!Busy
      <3> QED BY <1>1, <3>1 DEF JobFits, HeldInv
    <2> QED BY <2>1, <2>2
  <1>10. H!AddressesWhole' BY <1>1, <1>2 DEF H!AddressesWhole
  <1>11. HeldInv' BY <1>1, <1>2, <1>8, <1>9, <1>10 DEF HeldInv
  <1> QED BY <1>1, <1>11, TableIsFit DEF HeldStep

LEMMA AddKept ==
  ASSUME HeldInv, NEW h \in H!Holding, kind = "wallet" => h.text = "whole" /\ ~H!Taken(h, holdings),
         H!Add(h)
  PROVE  HeldStep
  <1>1. H!Room({h}) /\ holdings' = H!With(holdings, H!Fresh({h})) /\ UNCHANGED <<kind, work>>
    BY DEF H!Add
  <1>2. ListFits({h}) BY OneRead
  <1>3. kind = "wallet" => \A i \in DOMAIN holdings : holdings[i] # h BY DEF H!Taken
  <1>4. TableFits(holdings') /\ DOMAIN holdings \subseteq DOMAIN holdings'
    BY <1>1, <1>2, <1>3, TableIsFit, RowsAdded DEF ListFits
  <1> QED BY <1>1, <1>4, TableMovesAlone

LEMMA ImportMetalsKept ==
  ASSUME HeldInv, NEW file \in H!Lists(H!MetalRows), H!ImportMetals(file)
  PROVE  HeldStep
  <1> DEFINE list == UNION {H!ReadMetal(x) : x \in file}
  <1>1. /\ kind = "metal" /\ H!Room(list)
        /\ holdings' = H!With(holdings, H!Fresh(list)) /\ UNCHANGED <<kind, work>>
    BY DEF H!ImportMetals
  <1>2. ListFits(list) BY <1>1, MetalsRead
  <1> HIDE DEF list
  <1>3. TableFits(holdings') /\ DOMAIN holdings \subseteq DOMAIN holdings'
    BY <1>1, <1>2, TableIsFit, RowsAdded DEF ListFits
  <1> QED BY <1>1, <1>3, TableMovesAlone

(* One row is written over, where it stays in order.                             *)
LEMMA HoldingWritten ==
  ASSUME HeldInv, NEW i \in DOMAIN holdings, NEW h \in H!Holding, kind # "wallet",
         kind = "exchange" => h.key = holdings[i].key,
         holdings' = [holdings EXCEPT ![i] = h], UNCHANGED <<kind, work>>
  PROVE  HeldStep
  <1>1. DOMAIN holdings' = DOMAIN holdings OBVIOUS
  <1>2. \A k \in DOMAIN holdings : holdings'[k] = IF k = i THEN h ELSE holdings[k] OBVIOUS
  <1>3. TableFits(holdings') BY <1>1, <1>2, TableIsFit DEF TableFits
  <1> QED BY <1>1, <1>3, TableMovesAlone

LEMMA RemoveKept ==
  ASSUME HeldInv, NEW i, kind # "exchange", holdings' = H!Without({i}), UNCHANGED <<kind, work>>
  PROVE  HeldStep
  BY TableWithout, TableMovesAlone

LEMMA KeyKept ==
  ASSUME HeldInv, kind = "exchange",
         \/ \E h \in H!Holding : H!AddKey(h)
         \/ \E key \in Keys : H!RemoveKey(key)
  PROVE  HeldStep
  <1>1. ASSUME NEW h \in H!Holding, H!AddKey(h) PROVE HeldStep
    <2>1. CASE H!Add(h) BY <2>1, AddKept
    <2>2. ASSUME NEW i \in H!RowsOf(h.key), holdings' = [holdings EXCEPT ![i] = h], UNCHANGED <<kind, work>>
          PROVE  HeldStep
      <3>1. i \in DOMAIN holdings /\ holdings[i].key = h.key BY DEF H!RowsOf
      <3> QED BY <2>2, <3>1, HoldingWritten
    <2> QED BY <1>1, <2>1, <2>2 DEF H!AddKey
  <1>2. ASSUME NEW key \in Keys, H!RemoveKey(key) PROVE HeldStep
    <2>1. PICK i : holdings' = H!Without({i}) /\ UNCHANGED <<kind, work>> BY <1>2 DEF H!RemoveKey
    <2>2. TableFits(holdings') BY <2>1, TableWithout
    <2> QED BY <1>2, <2>1, <2>2, TableMovesAlone
  <1> QED BY <1>1, <1>2

LEMMA CoinKept ==
  ASSUME HeldInv, NEW i, NEW source \in {"none", "auto", "manual", "linked"},
         NEW price \in {"none", "zero", "typed"},
         NEW via \in {"none", "source"}, NEW to \in {"none", "asset"},
         H!UpdateCoin(i, source, price, via, to)
  PROVE  HeldStep
  <1>1. /\ kind = "coin" /\ i \in DOMAIN holdings /\ UNCHANGED <<kind, work>>
        /\ holdings' = [holdings EXCEPT ![i] = H!Repriced(holdings[i], source, price, via, to)]
    BY DEF H!UpdateCoin
  <1>2. holdings[i] \in H!HeldCoins BY <1>1, TableIsFit, KindRows DEF TableFits
  <1>3. H!Repriced(holdings[i], source, price, via, to) \in H!Holding BY <1>1, <1>2, CoinRepriced, KindRows
  <1> QED BY <1>1, <1>3, HoldingWritten

LEMMA AmountKept ==
  ASSUME HeldInv, NEW i, NEW amount \in {1, 2}, kind \in {"metal", "cash"}, H!SetAmount(i, amount)
  PROVE  HeldStep
  <1>1. i \in DOMAIN holdings /\ holdings' = [holdings EXCEPT ![i].amount = amount] /\ UNCHANGED <<kind, work>>
    BY DEF H!SetAmount
  <1>2. holdings[i] \in H!Holding BY <1>1, TableIsFit DEF TableFits
  <1> DEFINE h == [holdings[i] EXCEPT !.amount = amount]
  <1>3. h \in H!Holding
    <2>1. CASE kind = "cash"
      <3>1. H!Holding = H!Balances BY <2>1, KindRows
      <3>2. holdings[i] \in H!Balances BY <1>2, <3>1
      <3>3. h \in H!Balances BY <3>2 DEF H!Balances
      <3> QED BY <3>1, <3>3
    <2>2. CASE kind = "metal" BY <1>2, <2>2, KindRows DEF H!Metals, H!MetalCells
    <2> QED BY <2>1, <2>2
  <1>4. holdings' = [holdings EXCEPT ![i] = h] BY <1>1
  <1> HIDE DEF h
  <1> QED BY <1>1, <1>3, <1>4, HoldingWritten

(* A request that ends leaves the others as they are, but not waiting for it.    *)
LEMMA JobsEnd ==
  ASSUME HeldInv, NEW c \in H!Busy,
         work' = [d \in Clients |->
                    IF d = c \/ d \notin H!Busy THEN H!Idle
                    ELSE [list |-> work[d].list, seen |-> work[d].seen, after |-> work[d].after \ {c}]]
  PROVE  /\ DOMAIN work' = Clients
         /\ \A d \in Clients : work'[d] # H!Idle =>
              /\ work[d] # H!Idle /\ work'[d].list = work[d].list /\ work'[d].seen = work[d].seen
              /\ work'[d].after \subseteq {e \in Clients : work'[e] # H!Idle} \ {d}
  <1> DEFINE j(d) == [list |-> work[d].list, seen |-> work[d].seen, after |-> work[d].after \ {c}]
  <1>1. \A d \in Clients : j(d) # H!Idle BY DEF H!Idle
  <1>2. /\ \A d \in Clients : j(d).list = work[d].list
        /\ \A d \in Clients : j(d).seen = work[d].seen
        /\ \A d \in Clients : j(d).after = work[d].after \ {c}
    OBVIOUS
  <1> HIDE DEF j
  <1>3. \A d \in Clients : work'[d] = IF d = c \/ d \notin H!Busy THEN H!Idle ELSE j(d)
    BY DEF j
  <1>4. \A d \in Clients : work'[d] # H!Idle <=> d \in H!Busy /\ d # c
    BY <1>1, <1>3
  <1>5. H!Busy \subseteq Clients /\ \A d \in H!Busy : work[d] # H!Idle BY DEF H!Busy
  <1>6. \A d \in H!Busy : work[d].after \subseteq H!Busy \ {d} BY DEF HeldInv, H!TypeOK
  <1>7. ASSUME NEW d \in Clients, work'[d] # H!Idle
        PROVE  /\ work[d] # H!Idle /\ work'[d].list = work[d].list /\ work'[d].seen = work[d].seen
               /\ work'[d].after \subseteq {e \in Clients : work'[e] # H!Idle} \ {d}
    <2>1. d \in H!Busy /\ d # c /\ work'[d] = j(d) BY <1>3, <1>4, <1>7
    <2>2. work'[d].after = work[d].after \ {c} BY <1>2, <2>1
    <2>3. {e \in Clients : work'[e] # H!Idle} = H!Busy \ {c} BY <1>4, <1>5
    <2>4. work[d].after \subseteq H!Busy \ {d} BY <1>6, <2>1
    <2> QED BY <1>2, <1>5, <2>1, <2>2, <2>3, <2>4
  <1> QED BY <1>7

LEMMA ReplaceFits ==
  ASSUME HeldInv, NEW c \in H!Busy, H!Room(work[c].list), kind # "exchange", H!Replace(c)
  PROVE  TableFits(holdings')
  <1> DEFINE old == H!Without(DOMAIN work[c].seen)
             list == work[c].list
  <1>1. IF \E h \in list : H!Taken(h, old) THEN UNCHANGED holdings
        ELSE holdings' = H!With(old, H!Fresh(list))
    BY DEF H!Replace
  <1>2. TableFits(old) /\ DOMAIN old \subseteq DOMAIN holdings BY TableWithout
  <1>3. list \subseteq H!Holding /\ JobFits(work[c]) BY DEF HeldInv, H!TypeOK
  <1>4. IsFiniteSet(list) /\ (kind = "wallet" => \A h \in list : h.text = "whole")
    BY <1>3 DEF JobFits
  <1> HIDE DEF old, list
  <1>5. H!Room(list) BY DEF list
  <1>6. CASE \E h \in list : H!Taken(h, old) BY <1>1, <1>6, TableIsFit
  <1>7. CASE ~\E h \in list : H!Taken(h, old)
    <2>1. kind = "wallet" => \A h \in list : \A i \in DOMAIN old : old[i] # h
      BY <1>7 DEF H!Taken
    <2> QED BY <1>1, <1>2, <1>3, <1>4, <1>5, <1>7, <2>1, RowsAdded
  <1> QED BY <1>6, <1>7

(* A smaller list needs less room.                                               *)
LEMMA LessRoom ==
  ASSUME HeldInv, NEW list, IsFiniteSet(list), H!Room(list), NEW new \in SUBSET list
  PROVE  IsFiniteSet(new) /\ H!Room(new)
  <1>1. IsFiniteSet(new) /\ Cardinality(new) <= Cardinality(list) BY FS_Subset
  <1>2. Cardinality(new) \in Nat /\ Cardinality(list) \in Nat BY <1>1, FS_CardinalityType
  <1>3. kind \in Kinds /\ MaxHoldings[kind] \in Int
    BY HoldingsAssumption DEF HeldInv, H!TypeOK
  <1>4. IsFiniteSet(1 .. MaxHoldings[kind]) BY <1>3, FS_Interval
  <1>5. H!Spare \in SUBSET (1 .. MaxHoldings[kind]) BY DEF H!Spare, H!Ids
  <1>6. IsFiniteSet(H!Spare) BY <1>4, <1>5, FS_Subset
  <1>7. Cardinality(H!Spare) \in Nat BY <1>6, FS_CardinalityType
  <1>8. Cardinality(list) <= Cardinality(H!Spare) BY SameCounting DEF H!Room
  <1>9. Cardinality(new) <= Cardinality(H!Spare) BY <1>1, <1>2, <1>7, <1>8
  <1> QED BY <1>1, <1>9, SameCounting DEF H!Room

LEMMA UpsertFits ==
  ASSUME HeldInv, NEW c \in H!Busy, H!Room(work[c].list), kind = "exchange", H!Upsert(c)
  PROVE  TableFits(holdings') /\ DOMAIN holdings \subseteq DOMAIN holdings'
  <1> DEFINE list == work[c].list
             seen == work[c].seen
             new == {h \in list : \A i \in DOMAIN seen : seen[i] # h.key}
  <1>1. PICK hit \in [list \ new -> DOMAIN seen] :
          /\ \A h \in list \ new : seen[hit[h]] = h.key
          /\ IF \E h \in list \ new : hit[h] \notin DOMAIN holdings THEN UNCHANGED holdings
             ELSE holdings' = H!With([i \in DOMAIN holdings |->
                                IF \E h \in list \ new : hit[h] = i
                                THEN CHOOSE h \in list \ new : hit[h] = i ELSE holdings[i]], H!Fresh(new))
    BY DEF H!Upsert
  <1> DEFINE old == [i \in DOMAIN holdings |->
                       IF \E h \in list \ new : hit[h] = i
                       THEN CHOOSE h \in list \ new : hit[h] = i ELSE holdings[i]]
  <1>2. list \subseteq H!Holding /\ JobFits(work[c]) BY DEF HeldInv, H!TypeOK
  <1>3. IsFiniteSet(list) /\ \A i \in DOMAIN seen \cap DOMAIN holdings : seen[i] = holdings[i].key
    BY <1>2 DEF JobFits
  <1>4. new \in SUBSET list OBVIOUS
  <1> HIDE DEF new, list, seen
  <1>5. IsFiniteSet(new) /\ H!Room(new) BY <1>3, <1>4, LessRoom DEF list
  <1>6. CASE UNCHANGED holdings BY <1>6, TableIsFit
  <1>7. CASE holdings' = H!With(old, H!Fresh(new))
    <2>1. ASSUME NEW i \in DOMAIN holdings PROVE old[i] \in H!Holding /\ old[i].key = holdings[i].key
      <3>1. CASE \E h \in list \ new : hit[h] = i
        <4>1. old[i] = CHOOSE h \in list \ new : hit[h] = i BY <3>1
        <4>2. PICK h \in list \ new : hit[h] = i /\ old[i] = h BY <3>1, <4>1
        <4>3. i \in DOMAIN seen /\ seen[i] = h.key BY <1>1, <4>2
        <4> QED BY <1>2, <1>3, <4>2, <4>3
      <3>2. CASE ~\E h \in list \ new : hit[h] = i
        <4>1. old[i] = holdings[i] BY <3>2
        <4> QED BY <4>1, TableIsFit DEF TableFits
      <3> QED BY <3>1, <3>2
    <2>2. DOMAIN old = DOMAIN holdings OBVIOUS
    <2> HIDE DEF old
    <2>3. TableFits(old) BY <2>1, <2>2, TableIsFit DEF TableFits
    <2>4. new \subseteq H!Holding BY <1>2, <1>4 DEF list
    <2> QED BY <1>5, <1>7, <2>2, <2>3, <2>4, RowsAdded
  <1> QED BY <1>1, <1>6, <1>7

LEMMA CommitKept ==
  ASSUME HeldInv, NEW c \in Clients, H!Commit(c)
  PROVE  HeldStep
  <1>1. c \in H!Busy /\ H!Room(work[c].list) /\ kind' = kind BY DEF H!Commit
  <1>2. IF kind = "exchange" THEN H!Upsert(c) ELSE H!Replace(c) BY DEF H!Commit
  <1>3. work' = [d \in Clients |->
                   IF d = c \/ d \notin H!Busy THEN H!Idle
                   ELSE [list |-> work[d].list, seen |-> work[d].seen, after |-> work[d].after \ {c}]]
    BY DEF H!Commit
  <1>4. /\ TableFits(holdings')
        /\ kind = "exchange" => DOMAIN holdings \subseteq DOMAIN holdings'
    <2>1. CASE kind = "exchange" BY <1>1, <1>2, <2>1, UpsertFits
    <2>2. CASE kind # "exchange" BY <1>1, <1>2, <2>2, ReplaceFits
    <2> QED BY <2>1, <2>2
  <1>5. HeldInv' BY <1>1, <1>3, <1>4, JobsEnd, TableMoves
  <1> QED BY <1>1, <1>4, <1>5 DEF HeldStep

LEMMA OneRowKept ==
  ASSUME HeldInv, H!NextOne
  PROVE  HeldStep
  <1>1. ASSUME NEW h \in H!Holding, H!CreateMetal(h) \/ H!CreateCash(h) \/ H!AddWallet(h)
        PROVE  HeldStep
    <2>1. H!Add(h) BY <1>1 DEF H!CreateMetal, H!CreateCash, H!AddWallet
    <2>2. kind = "wallet" => h.text = "whole" /\ ~H!Taken(h, holdings)
      BY <1>1 DEF H!CreateMetal, H!CreateCash, H!AddWallet, H!Typed
    <2> QED BY <2>1, <2>2, AddKept
  <1>2. ASSUME NEW h \in H!Holding, H!AddKey(h) PROVE HeldStep
    BY <1>2, KeyKept DEF H!AddKey
  <1>3. ASSUME NEW x \in H!CoinRows, H!CreateCoin(x) PROVE HeldStep
    BY <1>3, AddKept, CoinSourced, KindRows DEF H!CreateCoin, H!CoinRows
  <1>4. ASSUME NEW i \in H!Ids, H!DeleteCoin(i) \/ H!DeleteMetal(i) \/ H!DeleteCash(i) \/ H!RemoveWallet(i)
        PROVE  HeldStep
    <2>1. H!Remove(i) /\ kind # "exchange"
      BY <1>4 DEF H!DeleteCoin, H!DeleteMetal, H!DeleteCash, H!RemoveWallet
    <2> QED BY <2>1, RemoveKept DEF H!Remove
  <1>5. ASSUME NEW i \in H!Ids, NEW amount \in {1, 2}, H!UpdateMetal(i, amount) \/ H!UpdateCash(i, amount)
        PROVE  HeldStep
    BY <1>5, AmountKept DEF H!UpdateMetal, H!UpdateCash
  <1>6. ASSUME NEW i \in H!Ids, NEW source \in {"none", "auto", "manual", "linked"},
               NEW price \in {"none", "zero", "typed"},
               NEW via \in {"none", "source"}, NEW to \in {"none", "asset"},
               H!UpdateCoin(i, source, price, via, to)
        PROVE  HeldStep
    BY <1>6, CoinKept
  <1>7. ASSUME NEW key \in Keys, H!RemoveKey(key) PROVE HeldStep
    BY <1>7, KeyKept DEF H!RemoveKey
  <1>8. ASSUME NEW file \in H!Lists(H!MetalRows), H!ImportMetals(file) PROVE HeldStep
    BY <1>8, ImportMetalsKept
  <1> QED BY <1>1, <1>2, <1>3, <1>4, <1>5, <1>6, <1>7, <1>8 DEF H!NextOne

LEMMA AllRowsKept ==
  ASSUME HeldInv, NEW c \in Clients, H!NextAll(c)
  PROVE  HeldStep
  <1>1. ASSUME NEW list \in H!Lists(H!Typed), H!SaveFunds(c, list) \/ H!SaveStocks(c, list) \/ H!SavePensions(c, list)
        PROVE  HeldStep
    <2>1. H!Begin(c, list) BY <1>1 DEF H!SaveFunds, H!SaveStocks, H!SavePensions
    <2> QED BY <2>1, RowsTyped, BeginKept
  <1>2. ASSUME NEW list \in H!Lists(H!Report), H!ImportFundReport(c, list) \/ H!ImportStockReport(c, list)
        PROVE  HeldStep
    <2>1. H!Begin(c, list) /\ kind \in {"fund", "stock"}
      BY <1>2 DEF H!ImportFundReport, H!ImportStockReport, H!BeginImport
    <2> QED BY <2>1, ReportRead, BeginKept
  <1>3. ASSUME NEW file \in H!Lists(H!PricedRows), H!ImportFunds(c, file) PROVE HeldStep
    <2> DEFINE list == UNION {H!ReadFund(x) : x \in file}
    <2>1. H!Begin(c, list) /\ ListFits(list) BY <1>3, FundsRead DEF H!ImportFunds, H!BeginImport
    <2> HIDE DEF list
    <2> QED BY <2>1, BeginKept
  <1>4. ASSUME NEW file \in H!Lists(H!PricedRows), H!ImportStocks(c, file) PROVE HeldStep
    <2> DEFINE list == UNION {H!ReadStock(x) : x \in file}
    <2>1. H!Begin(c, list) /\ ListFits(list) BY <1>4, StocksRead DEF H!ImportStocks, H!BeginImport
    <2> HIDE DEF list
    <2> QED BY <2>1, BeginKept
  <1>5. ASSUME NEW file \in H!Lists(H!CoinRows), H!ImportCoins(c, file) PROVE HeldStep
    <2> DEFINE list == UNION {H!ReadCoin(x) : x \in file}
    <2>1. H!Begin(c, list) /\ ListFits(list) BY <1>5, CoinsRead DEF H!ImportCoins
    <2> HIDE DEF list
    <2> QED BY <2>1, BeginKept
  <1>6. ASSUME NEW file \in H!Lists(H!Holding), H!ImportPensions(c, file) PROVE HeldStep
    <2> DEFINE list == UNION {H!ReadPension(x) : x \in file}
    <2>1. H!Begin(c, list) /\ ListFits(list) BY <1>6, PensionsRead DEF H!ImportPensions, H!BeginImport
    <2> HIDE DEF list
    <2> QED BY <2>1, BeginKept
  <1>7. ASSUME NEW file \in H!Lists(H!Holding), H!ImportWallets(c, file) PROVE HeldStep
    <2> DEFINE list == UNION {H!ReadWallet(x) : x \in file}
    <2>1. H!Begin(c, list) /\ ListFits(list) BY <1>7, RowsRead DEF H!ImportWallets, H!BeginImport
    <2> HIDE DEF list
    <2> QED BY <2>1, BeginKept
  <1>8. ASSUME NEW file \in H!Lists(H!Holding), H!ImportKeys(c, file) PROVE HeldStep
    <2> DEFINE list == UNION {H!ReadKey(x) : x \in file}
    <2>1. H!Begin(c, list) /\ ListFits(list) BY <1>8, RowsRead DEF H!ImportKeys, H!BeginImport
    <2> HIDE DEF list
    <2> QED BY <2>1, BeginKept
  <1>9. CASE H!Commit(c) BY <1>9, CommitKept
  <1> QED BY <1>1, <1>2, <1>3, <1>4, <1>5, <1>6, <1>7, <1>8, <1>9 DEF H!NextAll

LEMMA HeldInit == H!Init => HeldInv
  <1> SUFFICES ASSUME H!Init PROVE HeldInv OBVIOUS
  <1>1. /\ kind \in Kinds /\ DOMAIN holdings = {} /\ work = [c \in Clients |-> H!Idle]
    BY DEF H!Init
  <1>2. H!Busy = {} BY <1>1 DEF H!Busy
  <1> QED BY <1>1, <1>2 DEF HeldInv, H!TypeOK, H!AddressesWhole

LEMMA HeldNext == ASSUME HeldInv, H!Next PROVE HeldStep
  BY OneRowKept, AllRowsKept DEF H!Next

LEMMA HeldStutter == ASSUME HeldInv, UNCHANGED H!vars PROVE HeldInv'
  <1>1. UNCHANGED <<kind, holdings, work>> BY DEF H!vars
  <1>2. DOMAIN work = Clients /\ \A c \in Clients : work[c] # H!Idle =>
          work[c].after \subseteq {d \in Clients : work[d] # H!Idle} \ {c}
    BY DEF HeldInv, H!TypeOK, H!Busy
  <1> QED BY <1>1, <1>2, TableMoves, TableIsFit

(* A key goes with its removal only.                                             *)
LEMMA KeysStay ==
  ASSUME HeldInv, HeldStep, NEW key \in Keys, kind = "exchange", H!RowsOf(key) # {}
  PROVE  H!RowsOf(key)' # {} \/ H!RemoveKey(key)
  <1>1. PICK i \in DOMAIN holdings : holdings[i].key = key BY DEF H!RowsOf
  <1>2. ASSUME i \in DOMAIN holdings' PROVE H!RowsOf(key)' # {}
    BY <1>1, <1>2 DEF HeldStep, TableFits, H!RowsOf
  <1>3. ASSUME NEW other \in Keys, H!RemoveKey(other), other # key PROVE i \in DOMAIN holdings'
    <2>1. PICK k \in H!RowsOf(other) : holdings' = H!Without({k}) BY <1>3 DEF H!RemoveKey
    <2>2. k # i BY <1>1, <1>3, <2>1 DEF H!RowsOf
    <2> QED BY <2>1, <2>2, TableWithout
  <1> QED BY <1>2, <1>3 DEF HeldStep

(* Whatever the table, the file that leaves nothing out restores it.             *)
LEMMA FilesAlwaysRestore == ASSUME HeldInv PROVE H!FilesRestore
  <1>1. H!Contents \subseteq H!Holding BY TableIsFit DEF H!Contents, TableFits
  <1>2. ASSUME kind = "coin"
        PROVE  {H!CoinWorth(h) : h \in UNION {H!ReadCoin(x) : x \in H!CoinFile}} = {H!CoinWorth(h) : h \in H!Contents}
    <2> DEFINE cell(h) == [h EXCEPT !.price = IF @ = "zero" THEN "none" ELSE @]
    <2>1. \A h \in H!Contents : H!ReadCoin(cell(h)) = {ReadAs(cell(h))} /\ H!CoinWorth(ReadAs(cell(h))) = H!CoinWorth(h)
      BY <1>1, <1>2, KindRows, CoinRestored, CoinRead
    <2>2. H!CoinFile = {cell(h) : h \in H!Contents} BY DEF H!CoinFile
    <2> HIDE DEF cell, H!Contents
    <2> QED BY <2>1, <2>2
  <1>3. ASSUME kind = "metal"
        PROVE  {H!MetalWorth(h) : h \in UNION {H!ReadMetal(x) : x \in H!MetalFile}} = {H!MetalWorth(h) : h \in H!Contents}
    <2>1. \A x \in H!Contents : x \in H!Metals /\ x \in H!MetalCells
      BY <1>1, <1>3, KindRows DEF H!Metals
    <2>2. \A x \in H!Contents : \E y : H!ReadMetal(x) = {y} /\ H!MetalWorth(y) = H!MetalWorth(x)
      BY <2>1, MetalRead
    <2>3. H!MetalFile = H!Contents BY DEF H!MetalFile
    <2> HIDE DEF H!Contents
    <2> QED BY <2>2, <2>3
  <1>4. ASSUME kind = "wallet" PROVE UNION {H!ReadWallet(x) : x \in H!WalletFile(TRUE)} = H!Contents
    <2>1. \A h \in H!Addresses : [h EXCEPT !.text = h.text] = h BY DEF H!Addresses
    <2>2. H!WalletFile(TRUE) = {[h EXCEPT !.text = h.text] : h \in H!Contents} BY DEF H!WalletFile
    <2>3. H!WalletFile(TRUE) = H!Contents BY <1>1, <1>4, <2>1, <2>2, KindRows
    <2> QED BY <2>3 DEF H!ReadWallet
  <1>5. UNION {H!ReadKey(x) : x \in H!KeyFile} = H!Contents
    BY DEF H!ReadKey, H!KeyFile
  <1>6. UNION {H!ReadPension(x) : x \in H!PensionFile} = {h \in H!Contents : h.worth = "something"}
      \/ kind # "pension"
    <2>1. \A h \in H!Contents : kind = "pension" => h.worth \in {"nothing", "something"}
      BY <1>1, KindRows DEF H!PensionPlans
    <2> QED BY <2>1 DEF H!ReadPension, H!PensionFile
  <1> QED BY <1>2, <1>3, <1>4, <1>5, <1>6 DEF H!FilesRestore

LEMMA HoldingsSafe == H!Spec => [](H!TypeOK /\ H!AddressesWhole /\ H!FilesRestore) /\ H!KeysKept
  <1>1. HeldInv /\ [H!Next]_H!vars => HeldInv' BY HeldNext, HeldStutter DEF HeldStep
  <1>2. HeldInv /\ [H!Next]_H!vars =>
          [\A key \in Keys : kind = "exchange" /\ H!RowsOf(key) # {} =>
             H!RowsOf(key)' # {} \/ H!RemoveKey(key)]_H!vars
    BY HeldNext, KeysStay
  <1>3. HeldInv => H!TypeOK /\ H!AddressesWhole /\ H!FilesRestore BY FilesAlwaysRestore DEF HeldInv
  <1> QED BY <1>1, <1>2, <1>3, HeldInit, PTL DEF H!Spec, H!KeysKept

-----------------------------------------------------------------------------
(* What holdings are worth (V). *)

(* Prices of today, or of what is remembered.                                    *)
Fresh(P) == \A p \in P : p.day = day \/ p.of \in Funds \cup Gecko
Dated(l) == Fresh(l.price) \/ "stale_price" \in l.notes
Made(l) == l.on = day /\ Dated(l)

(* The price of a line is of the day it was made on, or said to be old.           *)
Named(l) ==
  \A p \in l.price : p.day < l.on /\ p.of \notin Funds \cup Gecko => "stale_price" \in l.notes
Told(l) == V!Valued(l) \/ l.notes # {} \/ (l.h.kind = "stock" /\ ~l.there)

LEMMA FreshPrices ==
  /\ Fresh({})
  /\ \A w : Fresh(V!Today(w))
  /\ \A w \in Funds \cup Gecko : Fresh(V!Kept(w))
  BY DEF Fresh, V!Today, V!Kept

LEMMA GeckoFresh == \A w \in Gecko : Fresh(V!GeckoPrice(w))
  BY FreshPrices DEF V!GeckoPrice

LEMMA SpotFresh == \A s : Fresh(V!Spot(s))
  <1> TAKE s
  <1>1. CASE "spot" \in failing BY <1>1, FreshPrices DEF V!Spot
  <1>2. CASE "spot" \notin failing /\ s \in Coins BY <1>2, FreshPrices DEF V!Spot
  <1>3. CASE "spot" \notin failing /\ s \notin Coins /\ s \in Gecko BY <1>3, GeckoFresh DEF V!Spot
  <1>4. CASE "spot" \notin failing /\ s \notin Coins /\ s \notin Gecko BY <1>4, FreshPrices DEF V!Spot
  <1> QED BY <1>1, <1>2, <1>3, <1>4

LEMMA FundFresh == \A w \in Funds : Fresh(V!FundPrice(w)) /\ Fresh(V!LinkedFund(w))
  <1> TAKE w \in Funds
  <1>1. CASE "tefas" \in failing BY <1>1, FreshPrices DEF V!FundPrice, V!LinkedFund
  <1>2. CASE "tefas" \notin failing /\ w \in missing BY <1>2, FreshPrices DEF V!FundPrice, V!LinkedFund
  <1>3. CASE "tefas" \notin failing /\ w \notin missing BY <1>3, FreshPrices DEF V!FundPrice, V!LinkedFund
  <1> QED BY <1>1, <1>2, <1>3

LEMMA MetalFresh == \A w : Fresh(V!MetalPrice(w))
  BY FreshPrices DEF V!MetalPrice

LEMMA WholeFresh ==
  ASSUME NEW h, NEW w
  PROVE  /\ Fresh(V!Whole(h, V!Today(w))) /\ V!Whole(h, V!Today(w)) # {}
         /\ Fresh(V!Whole(h, V!MetalPrice(w)))
         /\ V!MetalPrice(w) # {} => V!Whole(h, V!MetalPrice(w)) # {}
  <1>1. Fresh(V!Whole(h, V!Today(w))) BY DEF Fresh, V!Whole, V!Today
  <1>2. V!Whole(h, V!Today(w)) # {} BY DEF V!Whole, V!Today
  <1>3. V!MetalPrice(w) = {} \/ V!MetalPrice(w) = V!Today(w) BY DEF V!MetalPrice
  <1>4. V!Whole(h, {}) = {} BY DEF V!Whole
  <1> QED BY <1>1, <1>2, <1>3, <1>4, FreshPrices

LEMMA LinkFresh ==
  ASSUME NEW h, RowFits(h), h.kind = "coin", h.via \in V!Linked
  PROVE  Fresh(V!LinkPrice(h))
  <1>1. CASE h.via = "commodity" BY <1>1, MetalFresh DEF V!LinkPrice
  <1>2. CASE h.via = "binance" BY <1>2, SpotFresh DEF V!LinkPrice
  <1>3. CASE h.via = "coingecko"
    <2>1. V!LinkPrice(h) = V!GeckoPrice(h.to) BY <1>3 DEF V!LinkPrice
    <2> QED BY <1>3, <2>1, GeckoFresh DEF RowFits
  <1>4. CASE h.via = "tefas"
    <2>1. V!LinkPrice(h) = V!LinkedFund(h.to) BY <1>4 DEF V!LinkPrice
    <2> QED BY <1>4, <2>1, FundFresh DEF RowFits
  <1> QED BY <1>1, <1>2, <1>3, <1>4 DEF V!Linked

(* A line of any section, before older prices are looked for: it is one of a      *)
(* position there is or is not, its prices are fresh or said to be old.           *)
LEMMA LineParts ==
  ASSUME NEW h, NEW P, NEW N
  PROVE  /\ V!Line(h, P, N).h = h /\ V!Line(h, P, N).price = P /\ V!Line(h, P, N).notes = N
         /\ V!Line(h, P, N).on = day
  BY DEF V!Line

LEMMA GoneParts ==
  ASSUME NEW h, NEW N
  PROVE  /\ V!Gone(h, N).h = h /\ V!Gone(h, N).price = {} /\ V!Gone(h, N).notes = N
         /\ V!Gone(h, N).on = day
  BY DEF V!Gone

LEMMA LineThere ==
  ASSUME NEW h, NEW P, NEW N
  PROVE  V!Line(h, P, N).there /\ ~V!Gone(h, N).there
  BY DEF V!Line, V!Gone

(* What the direct path gathers of a row, and what it says of what is not there.  *)
GatheredWell(h, l) ==
  /\ l.h = h /\ Made(l)
  /\ ~l.there => l.price = {} /\ (l.notes # {} \/ h.kind = "stock")

LEMMA LineWell ==
  ASSUME NEW h, NEW P, NEW N, Fresh(P) \/ "stale_price" \in N
  PROVE  GatheredWell(h, V!Line(h, P, N))
  <1> DEFINE l == V!Line(h, P, N)
  <1>1. l.h = h /\ l.price = P /\ l.notes = N /\ l.on = day BY LineParts
  <1>3. l.there BY LineThere
  <1> HIDE DEF l
  <1>2. Made(l) BY <1>1 DEF Dated, Made
  <1>4. GatheredWell(h, l) BY <1>1, <1>2, <1>3 DEF GatheredWell
  <1> QED BY <1>4 DEF l

LEMMA GoneWell ==
  ASSUME NEW h, NEW N, N # {} \/ h.kind = "stock"
  PROVE  GatheredWell(h, V!Gone(h, N))
  <1> DEFINE l == V!Gone(h, N)
  <1>1. l.h = h /\ l.price = {} /\ l.notes = N /\ l.on = day BY GoneParts
  <1> HIDE DEF l
  <1>2. Made(l) BY <1>1, FreshPrices DEF Dated, Made
  <1>3. GatheredWell(h, l) BY <1>1, <1>2 DEF GatheredWell
  <1> QED BY <1>3 DEF l

LEMMA QuoteFresh ==
  ASSUME NEW s PROVE s \notin late => Fresh(V!Quote(s))
  BY FreshPrices DEF V!Quote, Fresh

LEMMA StockWell ==
  ASSUME NEW h, h.kind = "stock"
  PROVE  GatheredWell(h, V!StockLine(h))
  <1>1. CASE V!Quote(h.symbol) = {} BY <1>1, GoneWell DEF V!StockLine
  <1>2. CASE V!Quote(h.symbol) # {}
    <2> DEFINE P == IF h.via = "GBp" /\ "gbp" \in failing THEN {} ELSE V!Quote(h.symbol)
    <2>1. V!StockLine(h) = V!Line(h, P, V!StaleNote(h)) BY <1>2 DEF V!StockLine
    <2>2. Fresh(P) \/ "stale_price" \in V!StaleNote(h) BY QuoteFresh, FreshPrices DEF V!StaleNote
    <2> QED BY <2>1, <2>2, LineWell
  <1> QED BY <1>1, <1>2

LEMMA GatheredAll ==
  ASSUME NEW h \in held, RowFits(h)
  PROVE  GatheredWell(h, V!Gathered(h))
  <1>1. CASE h.kind = "exchange"
    <2>1. V!Gathered(h) = V!CryptoLine(h) BY <1>1 DEF V!Gathered
    <2> QED BY <2>1, FreshPrices, LineWell, GoneWell DEF V!CryptoLine
  <1>2. CASE h.kind = "wallet"
    <2>1. V!Gathered(h) = V!WalletLine(h) BY <1>2 DEF V!Gathered
    <2> QED BY <2>1, FreshPrices, LineWell, GoneWell DEF V!WalletLine
  <1>3. CASE h.kind = "fund"
    <2>1. V!Gathered(h) = V!TefasLine(h) BY <1>3 DEF V!Gathered
    <2>2. h.symbol \in Funds BY <1>3 DEF RowFits
    <2> QED BY <2>1, <2>2, FundFresh, LineWell, GoneWell DEF V!TefasLine
  <1>4. CASE h.kind = "stock"
    <2>1. V!Gathered(h) = V!StockLine(h) BY <1>4 DEF V!Gathered
    <2> QED BY <1>4, <2>1, StockWell
  <1>5. CASE h.kind = "cash"
    <2>1. V!Gathered(h) = V!CashLine(h, V!Dollar) BY <1>5 DEF V!Gathered
    <2>2. V!Dollar = {} \/ V!Dollar = V!Today("USD") BY DEF V!Dollar
    <2> QED BY <2>1, <2>2, WholeFresh, LineWell, GoneWell DEF V!CashLine
  <1>6. CASE h.kind = "metal"
    <2>1. V!Gathered(h) = V!CommodityLine(h) BY <1>6 DEF V!Gathered
    <2> QED BY <2>1, WholeFresh, LineWell, GoneWell DEF V!CommodityLine
  <1>7. CASE h.kind = "coin"
    <2>1. V!Gathered(h) = V!ManualLine(h) BY <1>7 DEF V!Gathered
    <2>0. {"auto", "manual", "unsourced"} \cap V!Linked = {} BY DEF V!Linked
    <2>2. CASE h.via = "auto"
      <3>1. h.via # "manual" /\ h.via \notin V!Linked BY <2>0, <2>2
      <3>2. V!Gathered(h) = V!Line(h, {}, {}) BY <2>1, <2>2, <3>1 DEF V!ManualLine
      <3> QED BY <3>2, FreshPrices, LineWell
    <2>3. CASE h.via = "manual"
      <3>1. h.via # "auto" /\ h.via \notin V!Linked BY <2>0, <2>3
      <3>2. V!Gathered(h) = V!TypedLine(h) BY <2>1, <2>3, <3>1 DEF V!ManualLine
      <3> QED BY <3>2, FreshPrices, LineWell DEF V!TypedLine
    <2>4. CASE h.via \in V!Linked
      <3>1. h.via # "auto" /\ h.via # "manual" BY <2>0, <2>4
      <3>2. V!Gathered(h) = V!LinkedLine(h) BY <2>1, <2>4, <3>1 DEF V!ManualLine
      <3> QED BY <1>7, <2>4, <3>2, LinkFresh, LineWell DEF V!LinkedLine
    <2>5. CASE h.via = "unsourced"
      <3>1. h.via # "auto" /\ h.via # "manual" /\ h.via \notin V!Linked BY <2>0, <2>5
      <3>2. V!Gathered(h) = V!Line(h, {}, {"linked_invalid"}) BY <2>1, <2>5, <3>1 DEF V!ManualLine
      <3> QED BY <3>2, FreshPrices, LineWell
    <2> QED BY <1>7, <2>2, <2>3, <2>4, <2>5 DEF RowFits, V!Linked
  <1>8. CASE h.kind = "pension"
    <2>1. V!Gathered(h) = V!BesLine(h) BY <1>8 DEF V!Gathered
    <2> QED BY <2>1, WholeFresh, LineWell DEF V!BesLine
  <1> QED BY <1>1, <1>2, <1>3, <1>4, <1>5, <1>6, <1>7, <1>8 DEF RowFits

(* The lines of a snapshot taken directly, and of the board.                     *)
LEMMA EnrichedWell ==
  ASSUME NEW h, NEW l, GatheredWell(h, l), NEW known
  PROVE  LET e == V!Enriched(l, known) IN Made(e) /\ Told(e)
  <1> DEFINE e == V!Enriched(l, known)
  <1>0. l.on = day /\ Dated(l) BY DEF GatheredWell, Made
  <1>1. CASE ~l.there \/ l.price # {}
    <2>1. e = l BY <1>1 DEF V!Enriched
    <2> QED BY <1>1, <2>1 DEF GatheredWell, Told, V!Valued
  <1>2. CASE l.there /\ l.price = {} /\ V!Spot(l.h.symbol) # {}
    <2>1. e = [l EXCEPT !.price = V!Spot(l.h.symbol)] BY <1>2 DEF V!Enriched
    <2>2. e.price = V!Spot(l.h.symbol) /\ e.there = l.there /\ e.on = l.on BY <2>1
    <2> QED BY <1>0, <1>2, <2>2, SpotFresh DEF Dated, Made, Told, V!Valued
  <1>3. CASE l.there /\ l.price = {} /\ V!Spot(l.h.symbol) = {}
    <2>1. e = V!WithLastKnown(l, known) BY <1>3 DEF V!Enriched
    <2>2. CASE known[l.h.symbol] # {}
      <3>1. e = [l EXCEPT !.price = known[l.h.symbol], !.notes = @ \cup {"stale_price"}]
        BY <2>1, <2>2 DEF V!WithLastKnown
      <3>2. "stale_price" \in e.notes /\ e.on = l.on BY <3>1
      <3> QED BY <1>0, <3>2 DEF Dated, Made, Told
    <2>3. CASE known[l.h.symbol] = {}
      <3>1. e = [l EXCEPT !.notes = @ \cup {"no_spot_price"}] BY <2>1, <2>3 DEF V!WithLastKnown
      <3>2. e.price = {} /\ e.notes # {} /\ e.on = l.on BY <1>3, <3>1
      <3> QED BY <1>0, <3>2, FreshPrices DEF Dated, Made, Told
    <2> QED BY <2>2, <2>3
  <1> QED BY <1>1, <1>2, <1>3

(* The board's lines, whose holes need no note.                                  *)
LEMMA BoardPrices ==
  ASSUME NEW h
  PROVE  /\ \A N : Made(V!Gone(h, N))
         /\ \A P, N : Fresh(P) \/ "stale_price" \in N => Made(V!Line(h, P, N))
  <1>1. ASSUME NEW N PROVE Made(V!Gone(h, N)) BY FreshPrices, GoneParts DEF Dated, Made
  <1>2. ASSUME NEW P, NEW N, Fresh(P) \/ "stale_price" \in N PROVE Made(V!Line(h, P, N))
    BY <1>2, LineWell DEF GatheredWell
  <1> QED BY <1>1, <1>2

LEMMA BoardMade ==
  ASSUME NEW h \in held \ V!Extra, RowFits(h)
  PROVE  Made(V!OnBoard(h))
  <1>2. CASE h.kind = "metal"
    <2>1. V!OnBoard(h) = V!BoardMetal(h) BY <1>2 DEF V!OnBoard
    <2> QED BY <2>1, MetalFresh, FreshPrices, BoardPrices DEF V!BoardMetal, V!Section
  <1>3. CASE h.kind = "exchange"
    <2>1. V!OnBoard(h) = V!BoardCrypto(h) BY <1>3 DEF V!OnBoard
    <2> QED BY <2>1, FreshPrices, BoardPrices DEF V!BoardCrypto, V!Section, V!CryptoLine
  <1>4. CASE h.kind = "wallet"
    <2>1. V!OnBoard(h) = V!BoardWallet(h) BY <1>4 DEF V!OnBoard
    <2> QED BY <2>1, SpotFresh, FreshPrices, BoardPrices DEF V!BoardWallet, V!Section
  <1>5. CASE h.kind = "fund"
    <2>1. V!OnBoard(h) = V!BoardFund(h) BY <1>5 DEF V!OnBoard
    <2>2. Fresh(V!FundPrice(h.symbol)) BY <1>5, FundFresh DEF RowFits
    <2> DEFINE l == V!Line(h, V!FundPrice(h.symbol), {})
    <2>3. \/ \E N : V!OnBoard(h) = V!Gone(h, N)
          \/ \E N : V!OnBoard(h) = V!Line(h, {}, N)
          \/ V!OnBoard(h) = [l EXCEPT !.amount = V!LastRow(h).id]
      BY <2>1 DEF V!BoardFund, V!Section
    <2>4. l.price = V!FundPrice(h.symbol) /\ l.on = day BY LineParts
    <2> HIDE DEF l
    <2>5. [l EXCEPT !.amount = V!LastRow(h).id].price = l.price OBVIOUS
    <2>6. [l EXCEPT !.amount = V!LastRow(h).id].on = l.on OBVIOUS
    <2>7. Made([l EXCEPT !.amount = V!LastRow(h).id]) BY <2>2, <2>4, <2>5, <2>6 DEF Dated, Made
    <2>8. \A N : Made(V!Gone(h, N)) /\ Made(V!Line(h, {}, N)) BY BoardPrices, FreshPrices
    <2> QED BY <2>3, <2>7, <2>8
  <1>6. CASE h.kind = "stock"
    <2>1. V!OnBoard(h) = V!BoardStock(h) BY <1>6 DEF V!OnBoard
    <2>2. Fresh(V!Quote(h.symbol)) \/ "stale_price" \in V!StaleNote(h) BY QuoteFresh DEF V!StaleNote
    <2> QED BY <2>1, <2>2, BoardPrices DEF V!BoardStock, V!Section
  <1>7. CASE h.kind = "coin"
    <2>1. V!OnBoard(h) = V!BoardCoin(h) BY <1>7 DEF V!OnBoard
    <2>2. Fresh(V!UnitPrice(h))
      <3>0. {"auto", "manual", "unsourced"} \cap V!Linked = {} BY DEF V!Linked
      <3>1. CASE h.via = "auto"
        <4>1. h.via # "manual" /\ h.via \notin V!Linked BY <3>0, <3>1
        <4> QED BY <3>1, <4>1, SpotFresh DEF V!UnitPrice
      <3>2. CASE h.via = "manual"
        <4>1. h.via # "auto" /\ h.via \notin V!Linked BY <3>0, <3>2
        <4> QED BY <3>2, <4>1, FreshPrices DEF V!UnitPrice
      <3>3. CASE h.via \in V!Linked
        <4>1. h.via \notin {"auto", "manual", "unsourced"} BY <3>0, <3>3
        <4>2. V!UnitPrice(h) = V!LinkPrice(h) BY <3>3, <4>1 DEF V!UnitPrice
        <4> QED BY <1>7, <3>3, <4>2, LinkFresh
      <3>4. CASE h.via = "unsourced"
        <4>1. h.via \notin V!Linked BY <3>0, <3>4
        <4> QED BY <3>4, <4>1, FreshPrices DEF V!UnitPrice
      <3> QED BY <1>7, <3>1, <3>2, <3>3, <3>4 DEF RowFits, V!Linked
    <2> QED BY <2>1, <2>2, BoardPrices DEF V!BoardCoin
  <1> QED BY <1>2, <1>3, <1>4, <1>5, <1>6, <1>7 DEF RowFits, V!Extra

(* The board, and the snapshots saved.                                           *)
SavedWell(s, l) ==
  /\ s.by = "direct" => Told(l)
  /\ \A p \in l.price :
       p.day < l.on /\ p.of \notin Funds \cup Gecko /\ ~(s.by = "board" /\ p.of = "USD")
         => "stale_price" \in l.notes

WorthInv ==
  /\ held \in Mixes /\ day \in 1 .. MaxSnapshots /\ DOMAIN saved = 1 .. MaxSnapshots
  /\ \A p \in board.dollar : p.of = "USD"
  /\ \A h \in held \ V!Extra : Named(board.lines[h])
  /\ V!PricesTold

LEMMA MadeNamed == ASSUME WorthInv, NEW l, Made(l) PROVE Named(l)
  <1>1. day \in Nat BY WorthAssumption DEF WorthInv
  <1> QED BY <1>1 DEF Made, Dated, Fresh, Named

LEMMA BlankNamed == \A h \in held \ V!Extra : Named(V!Blank[h])
  <1> SUFFICES ASSUME NEW h \in held \ V!Extra PROVE Named(V!Blank[h]) OBVIOUS
  <1> DEFINE l == V!Gone(h, {})
  <1>1. V!Blank[h] = [l EXCEPT !.on = 0] BY DEF V!Blank
  <1>2. l.price = {} BY GoneParts
  <1> HIDE DEF l
  <1>3. [l EXCEPT !.on = 0].price = l.price OBVIOUS
  <1> QED BY <1>1, <1>2, <1>3 DEF Named

LEMMA WorthInit == V!Init => WorthInv
  <1> SUFFICES ASSUME V!Init PROVE WorthInv OBVIOUS
  <1>1. saved = [d \in 1 .. MaxSnapshots |-> [by |-> "nobody", rated |-> FALSE, lines |-> {}]]
    BY DEF V!Init
  <1>2. \A d \in 1 .. MaxSnapshots : saved[d].by = "nobody" /\ saved[d].lines = {} BY <1>1
  <1>3. V!PricesTold BY <1>2 DEF V!PricesTold, V!GapsNamed, V!OldPricesNamed
  <1>4. board.dollar = {} /\ board.lines = V!Blank BY DEF V!Init
  <1> QED BY <1>1, <1>3, <1>4, BlankNamed, WorthAssumption DEF WorthInv, V!Init

(* A snapshot of the day is written.                                             *)
LEMMA SnapshotSaved ==
  ASSUME WorthInv, NEW s, saved' = [saved EXCEPT ![day] = s], UNCHANGED <<held, day, board>>,
         \A l \in s.lines : SavedWell(s, l)
  PROVE  WorthInv'
  <1>2. \A d \in 1 .. MaxSnapshots : saved'[d] = IF d = day THEN s ELSE saved[d] BY DEF WorthInv
  <1>3. ASSUME NEW d \in 1 .. MaxSnapshots, saved'[d].by = "direct", NEW l \in saved'[d].lines
        PROVE  V!Valued(l) \/ l.notes # {} \/ (l.h.kind = "stock" /\ ~l.there)
    <2>1. CASE d = day BY <1>2, <1>3, <2>1 DEF Told, SavedWell
    <2>2. CASE d # day BY <1>2, <1>3, <2>2 DEF WorthInv, V!PricesTold, V!GapsNamed
    <2> QED BY <2>1, <2>2
  <1>4. ASSUME NEW d \in 1 .. MaxSnapshots, NEW l \in saved'[d].lines, NEW p \in l.price,
               p.day < l.on, p.of \notin Funds \cup Gecko, ~(saved'[d].by = "board" /\ p.of = "USD")
        PROVE  "stale_price" \in l.notes
    <2>1. CASE d = day BY <1>2, <1>4, <2>1 DEF SavedWell
    <2>2. CASE d # day BY <1>2, <1>4, <2>2 DEF WorthInv, V!PricesTold, V!OldPricesNamed
    <2> QED BY <2>1, <2>2
  <1>5. V!PricesTold' BY <1>3, <1>4 DEF V!PricesTold, V!GapsNamed, V!OldPricesNamed, V!Valued
  <1>6. DOMAIN saved' = 1 .. MaxSnapshots BY DEF WorthInv
  <1> QED BY <1>5, <1>6 DEF WorthInv, V!Extra

LEMMA RowsFit == ASSUME WorthInv PROVE \A h \in held : RowFits(h)
  BY WorthAssumption DEF WorthInv

LEMMA SaveDirectKept ==
  ASSUME WorthInv, V!SaveDirect
  PROVE  WorthInv'
  <1>1. PICK known : saved' = [saved EXCEPT ![day] = [by |-> "direct", rated |-> TRUE, lines |-> V!Direct(known)]]
    BY DEF V!SaveDirect
  <1> DEFINE s == [by |-> "direct", rated |-> TRUE, lines |-> V!Direct(known)]
  <1>2. UNCHANGED <<held, day, board>> BY DEF V!SaveDirect
  <1>3. ASSUME NEW l \in s.lines PROVE SavedWell(s, l)
    <2>1. PICK h \in held : l = V!Enriched(V!Gathered(h), known) BY DEF V!Direct
    <2>2. GatheredWell(h, V!Gathered(h)) BY RowsFit, GatheredAll
    <2>3. Made(l) /\ Told(l) BY <2>1, <2>2, EnrichedWell
    <2>4. Named(l) BY <2>3, MadeNamed
    <2> QED BY <2>3, <2>4 DEF SavedWell, Named
  <1> HIDE DEF s
  <1>4. saved' = [saved EXCEPT ![day] = s] BY <1>1 DEF s
  <1> QED BY <1>2, <1>3, <1>4, SnapshotSaved

(* Of the board's line, a metal's price becomes that of the whole.                *)
LEMMA FromCacheNamed ==
  ASSUME NEW h, NEW l, Named(l) PROVE Named(V!FromCache(h, l))
  <1>1. CASE h.kind # "metal" BY <1>1 DEF V!FromCache
  <1>2. CASE h.kind = "metal" /\ ~V!Valued(l)
    <2>1. V!FromCache(h, l) = V!Gone(h, l.notes) BY <1>2 DEF V!FromCache, V!MetalFromCache
    <2> QED BY <2>1, GoneParts DEF Named
  <1>3. CASE h.kind = "metal" /\ V!Valued(l)
    <2> DEFINE e == [l EXCEPT !.price = V!Whole(h, l.price)]
    <2>1. V!FromCache(h, l) = e BY <1>3 DEF V!FromCache, V!MetalFromCache
    <2>2. e.price = V!Whole(h, l.price) /\ e.on = l.on /\ e.notes = l.notes OBVIOUS
    <2> HIDE DEF e
    <2>3. ASSUME NEW q \in V!Whole(h, l.price), q.day < l.on, q.of \notin Funds \cup Gecko
          PROVE  "stale_price" \in l.notes
      <3>1. PICK p \in l.price : q = [p EXCEPT !.lot = h.id] BY DEF V!Whole
      <3>2. q.day = p.day /\ q.of = p.of BY <3>1
      <3> QED BY <2>3, <3>2 DEF Named
    <2> QED BY <2>1, <2>2, <2>3 DEF Named
  <1> QED BY <1>1, <1>2, <1>3

LEMMA SaveBoardKept ==
  ASSUME WorthInv, V!SaveBoard
  PROVE  WorthInv'
  <1> DEFINE dollar == IF board.dollar = {} /\ V!Extra # {} THEN V!Dollar ELSE board.dollar
             Shown(h) == IF h \in V!Extra THEN V!DbOnly(h, dollar) ELSE V!FromCache(h, board.lines[h])
             s == [by |-> "board", rated |-> dollar # {}, lines |-> {Shown(h) : h \in held}]
  <1>1. saved' = [saved EXCEPT ![day] = s] /\ UNCHANGED <<held, day, board>> BY DEF V!SaveBoard
  <1>2. \A p \in dollar : p.of = "USD" BY DEF WorthInv, V!Dollar, V!Today
  <1> HIDE DEF dollar
  <1>3. ASSUME NEW h \in held PROVE SavedWell(s, Shown(h))
    <2>0. s.by = "board" OBVIOUS
    <2>1. CASE h \notin V!Extra
      <3>1. Named(Shown(h)) BY <2>1, FromCacheNamed DEF WorthInv
      <3> HIDE DEF Shown, s
      <3> QED BY <2>0, <3>1 DEF SavedWell, Named
    <2>2. CASE h \in V!Extra
      <3>1. Shown(h) = V!DbOnly(h, dollar) BY <2>2
      <3>2. \/ Made(Shown(h))
            \/ \E N : Shown(h) = V!Line(h, V!Whole(h, dollar), N)
        BY <3>1, BoardPrices, WholeFresh DEF V!DbOnly, V!CashLine, V!BesLine
      <3>3. ASSUME Made(Shown(h)) PROVE SavedWell(s, Shown(h))
        <4>1. Named(Shown(h)) BY <3>3, MadeNamed
        <4> HIDE DEF Shown, s
        <4> QED BY <2>0, <4>1 DEF SavedWell, Named
      <3>4. ASSUME NEW N, Shown(h) = V!Line(h, V!Whole(h, dollar), N) PROVE SavedWell(s, Shown(h))
        <4> HIDE DEF Shown, s
        <4>1. Shown(h).price = V!Whole(h, dollar) BY <3>4, LineParts
        <4>2. ASSUME NEW q \in V!Whole(h, dollar) PROVE q.of = "USD"
          <5>1. PICK p \in dollar : q = [p EXCEPT !.lot = h.id] BY DEF V!Whole
          <5>2. q.of = p.of BY <5>1
          <5> QED BY <1>2, <5>2
        <4> QED BY <2>0, <4>1, <4>2 DEF SavedWell
      <3> QED BY <3>2, <3>3, <3>4
    <2> QED BY <2>1, <2>2
  <1>4. \A l \in s.lines : \E h \in held : l = Shown(h) OBVIOUS
  <1>5. \A l \in s.lines : SavedWell(s, l)
    <2> HIDE DEF Shown, s
    <2> QED BY <1>3, <1>4
  <1> HIDE DEF Shown, s
  <1> QED BY <1>1, <1>5, SnapshotSaved

(* The board is created or refreshed: whole, a section or a wallet of it.         *)
LEMMA BoardChanged ==
  ASSUME WorthInv, UNCHANGED <<held, day, saved>>, \A p \in board'.dollar : p.of = "USD",
         \A h \in held \ V!Extra : Named(board'.lines[h])
  PROVE  WorthInv'
  BY DEF WorthInv, V!Extra, V!PricesTold, V!GapsNamed, V!OldPricesNamed, V!Valued

LEMMA CreateBoardKept ==
  ASSUME WorthInv, V!CreateBoard
  PROVE  WorthInv'
  <1>1. board'.dollar = board.dollar /\ board'.lines = V!Blank BY DEF V!CreateBoard
  <1> QED BY <1>1, BlankNamed, BoardChanged DEF V!CreateBoard, WorthInv

LEMMA OnBoardNamed ==
  ASSUME WorthInv, NEW h \in held \ V!Extra PROVE Named(V!OnBoard(h))
  BY RowsFit, BoardMade, MadeNamed

LEMMA RefreshBoardKept ==
  ASSUME WorthInv, V!RefreshBoard
  PROVE  WorthInv'
  <1>1. board'.dollar = V!Dollar /\ board'.lines = [h \in held \ V!Extra |-> V!OnBoard(h)]
    BY DEF V!RefreshBoard
  <1>2. \A p \in V!Dollar : p.of = "USD" BY DEF V!Dollar, V!Today
  <1>3. \A h \in held \ V!Extra : Named(board'.lines[h]) BY <1>1, OnBoardNamed
  <1> QED BY <1>1, <1>2, <1>3, BoardChanged DEF V!RefreshBoard

LEMMA RefreshSectionKept ==
  ASSUME WorthInv, NEW section, V!RefreshSection(section)
  PROVE  WorthInv'
  <1> DEFINE new == [h \in V!Of(section) |-> V!SectionLine(h)]
  <1>1. board'.dollar = board.dollar /\ board'.lines = V!Patched(new) BY DEF V!RefreshSection
  <1>2. ASSUME NEW h \in held \ V!Extra PROVE Named(board'.lines[h])
    <2>1. board'.lines[h] = IF h \in V!Of(section) THEN V!SectionLine(h) ELSE board.lines[h]
      BY <1>1 DEF V!Patched
    <2>2. V!SectionLine(h) = V!Gone(h, {"section_failed"}) \/ V!SectionLine(h) = V!OnBoard(h)
      BY DEF V!SectionLine
    <2>3. Named(V!Gone(h, {"section_failed"})) BY GoneParts DEF Named
    <2> QED BY <2>1, <2>2, <2>3, OnBoardNamed DEF WorthInv
  <1> QED BY <1>1, <1>2, BoardChanged DEF V!RefreshSection, WorthInv

LEMMA RefreshWalletKept ==
  ASSUME WorthInv, NEW w \in V!Of("wallet"), V!RefreshWallet(w)
  PROVE  WorthInv'
  <1> DEFINE l == V!BoardWallet(w)
  <1>1. board'.dollar = board.dollar /\ board'.lines = V!Patched([x \in {w} |-> V!WalletLineKept(x)])
    BY DEF V!RefreshWallet
  <1>2. w \in held \ V!Extra /\ w.kind = "wallet" BY DEF V!Of, V!Extra
  <1>3. Named(l)
    <2>1. V!OnBoard(w) = l BY <1>2 DEF V!OnBoard
    <2> QED BY <1>2, <2>1, OnBoardNamed
  <1>4. \/ V!WalletLineKept(w) = board.lines[w]
        \/ V!WalletLineKept(w) = [l EXCEPT !.notes = @ \cup board.lines[w].notes]
    BY DEF V!WalletLineKept
  <1> HIDE DEF l
  <1>5. Named([l EXCEPT !.notes = @ \cup board.lines[w].notes])
    <2> DEFINE e == [l EXCEPT !.notes = @ \cup board.lines[w].notes]
    <2>1. e.price = l.price /\ e.on = l.on /\ l.notes \subseteq e.notes OBVIOUS
    <2> HIDE DEF e
    <2> QED BY <1>3, <2>1 DEF Named, e
  <1>6. ASSUME NEW h \in held \ V!Extra PROVE Named(board'.lines[h])
    <2>1. board'.lines[h] = IF h = w THEN V!WalletLineKept(w) ELSE board.lines[h]
      BY <1>1 DEF V!Patched
    <2> QED BY <1>2, <1>4, <1>5, <2>1 DEF WorthInv
  <1> QED BY <1>1, <1>6, BoardChanged DEF V!RefreshWallet, WorthInv

LEMMA WorthStep ==
  ASSUME WorthInv, [V!Next]_V!vars
  PROVE  WorthInv'
  <1>1. ASSUME saved' = saved, held' = held, board' = board, day' \in 1 .. MaxSnapshots PROVE WorthInv'
    BY <1>1 DEF WorthInv, V!Extra, V!PricesTold, V!GapsNamed, V!OldPricesNamed, V!Valued
  <1>2. day \in 1 .. MaxSnapshots /\ MaxSnapshots \in Nat BY WorthAssumption DEF WorthInv
  <1>3. CASE UNCHANGED V!vars \/ V!Restart \/ \E o, m, l : V!Answer(o, m, l)
    BY <1>1, <1>2, <1>3 DEF V!vars, V!Restart, V!Answer
  <1>4. CASE V!Tomorrow BY <1>1, <1>2, <1>4 DEF V!Tomorrow
  <1> QED BY <1>3, <1>4, SaveDirectKept, SaveBoardKept, CreateBoardKept, RefreshBoardKept,
             RefreshSectionKept, RefreshWalletKept DEF V!Next

(* What both paths make of a row. Worth is the price of a line that counts.      *)
Worth(l) == IF l.there THEN l.price ELSE {}

LEMMA WorthOf == \A h, P, N : Worth(V!Line(h, P, N)) = P
  BY DEF Worth, V!Line

LEMMA WorthGone == \A h, N : Worth(V!Gone(h, N)) = {}
  BY DEF Worth, V!Gone

LEMMA WorthValued ==
  ASSUME NEW l PROVE (V!Valued(l) <=> Worth(l) # {}) /\ (V!Valued(l) => l.price = Worth(l))
  BY DEF Worth, V!Valued

LEMMA WorthEnriched ==
  ASSUME NEW h \in held, NEW P, NEW N
  PROVE  Worth(V!Enriched(V!Line(h, P, N), V!NoPrices)) = IF P = {} THEN V!Spot(h.symbol) ELSE P
  <1> DEFINE l == V!Line(h, P, N)
             e == V!Enriched(l, V!NoPrices)
  <1>1. l.h = h /\ l.price = P BY LineParts
  <1>2. l.there BY LineThere
  <1>3. V!NoPrices[h.symbol] = {} BY DEF V!NoPrices, V!Symbols
  <1>4. Worth(e) = IF P = {} THEN V!Spot(h.symbol) ELSE P
    <2> HIDE DEF l
    <2>1. CASE P # {}
      <3>1. e = l BY <1>1, <2>1 DEF V!Enriched
      <3> QED BY <1>1, <1>2, <2>1, <3>1 DEF Worth
    <2>2. CASE P = {} /\ V!Spot(h.symbol) # {}
      <3>1. e = [l EXCEPT !.price = V!Spot(h.symbol)] BY <1>1, <1>2, <2>2 DEF V!Enriched
      <3>2. e.price = V!Spot(h.symbol) BY <3>1
      <3>3. e.there BY <1>2, <3>1
      <3> QED BY <2>2, <3>2, <3>3 DEF Worth
    <2>3. CASE P = {} /\ V!Spot(h.symbol) = {}
      <3>1. e = V!WithLastKnown(l, V!NoPrices) BY <1>1, <1>2, <2>3 DEF V!Enriched
      <3>2. e = [l EXCEPT !.notes = @ \cup {"no_spot_price"}]
        BY <1>1, <1>3, <3>1 DEF V!WithLastKnown
      <3>3. e.price = {} BY <1>1, <2>3, <3>2
      <3> QED BY <2>3, <3>3 DEF Worth
    <2> QED BY <2>1, <2>2, <2>3
  <1> QED BY <1>4

LEMMA GoneEnriched ==
  ASSUME NEW h, NEW N PROVE Worth(V!Enriched(V!Gone(h, N), V!NoPrices)) = {}
  <1>1. ~V!Gone(h, N).there BY LineThere
  <1>2. V!Enriched(V!Gone(h, N), V!NoPrices) = V!Gone(h, N) BY <1>1 DEF V!Enriched
  <1> QED BY <1>2, WorthGone

(* PathsAgree of one row, by what the lines are worth.                           *)
Alike(h, d, b) ==
  /\ d # {} /\ b # {} => d = b
  /\ failing = {} /\ missing = {} /\ ~V!Unlike(h) => (d = {} <=> b = {})

DirectWorth(h) == Worth(V!Enriched(V!Gathered(h), V!NoPrices))
BoardWorth(h) == Worth(V!BoardLine(h))

LEMMA BoardLineIs ==
  ASSUME NEW h
  PROVE  /\ h \in held /\ h.kind \in {"cash", "pension"} => V!BoardLine(h) = V!DbOnly(h, V!Dollar)
         /\ h.kind = "metal" => V!BoardLine(h) = V!MetalFromCache(h, V!OnBoard(h))
         /\ h.kind \notin {"cash", "pension", "metal"} => V!BoardLine(h) = V!OnBoard(h)
  BY DEF V!BoardLine, V!Extra, V!FromCache

LEMMA ExchangeAlike ==
  ASSUME NEW h \in held, h.kind = "exchange" PROVE Alike(h, DirectWorth(h), BoardWorth(h))
  <1>1. V!Gathered(h) = V!CryptoLine(h) /\ V!BoardLine(h) = V!BoardCrypto(h)
    BY BoardLineIs DEF V!Gathered, V!OnBoard
  <1> DEFINE P == IF h.via = "priced" THEN V!Today(h.symbol) ELSE {}
  <1>2. V!Today(h.symbol) # {} BY DEF V!Today
  <1>3. CASE "exchange" \in failing
    <2>1. V!CryptoLine(h) = V!Gone(h, {"fetch_failed"}) BY <1>3 DEF V!CryptoLine
    <2>2. DirectWorth(h) = {} BY <1>1, <2>1, GoneEnriched DEF DirectWorth
    <2> QED BY <1>3, <2>2 DEF Alike
  <1>4. CASE "exchange" \notin failing
    <2>1. V!CryptoLine(h) = V!Line(h, P, {}) BY <1>4 DEF V!CryptoLine
    <2>2. DirectWorth(h) = IF P = {} THEN V!Spot(h.symbol) ELSE P
      BY <1>1, <2>1, WorthEnriched DEF DirectWorth
    <2>3. V!BoardLine(h) = IF "usd" \in failing THEN V!Gone(h, {"section_failed"}) ELSE V!Line(h, P, {})
      BY <1>1, <2>1 DEF V!BoardCrypto, V!Section
    <2>5. BoardWorth(h) = IF "usd" \in failing THEN {} ELSE P BY <2>3, WorthOf, WorthGone DEF BoardWorth
    <2>4. h.via # "priced" => V!Unlike(h) BY DEF V!Unlike
    <2> QED BY <1>2, <2>2, <2>5, <2>4 DEF Alike
  <1> QED BY <1>3, <1>4

LEMMA WalletAlike ==
  ASSUME NEW h \in held, h.kind = "wallet" PROVE Alike(h, DirectWorth(h), BoardWorth(h))
  <1>1. V!Gathered(h) = V!WalletLine(h) /\ V!BoardLine(h) = V!BoardWallet(h)
    BY BoardLineIs DEF V!Gathered, V!OnBoard
  <1>2. CASE "wallet" \in failing \/ "empty" \in failing
    <2>1. \E N : V!WalletLine(h) = V!Gone(h, N) BY <1>2 DEF V!WalletLine
    <2>2. DirectWorth(h) = {} BY <1>1, <2>1, GoneEnriched DEF DirectWorth
    <2> QED BY <1>2, <2>2 DEF Alike
  <1>3. CASE "wallet" \notin failing /\ "empty" \notin failing
    <2>1. V!WalletLine(h) = V!Line(h, {}, {}) BY <1>3 DEF V!WalletLine
    <2>2. DirectWorth(h) = V!Spot(h.symbol) BY <1>1, <2>1, WorthEnriched DEF DirectWorth
    <2> DEFINE P == IF h.symbol \in Listed THEN V!Spot(h.symbol) ELSE {}
    <2>3. V!BoardLine(h) = IF {"usd", "spot"} \cap failing # {} THEN V!Gone(h, {"section_failed"})
                           ELSE V!Line(h, P, {})
      BY <1>1, <1>3 DEF V!BoardWallet, V!Section
    <2>5. BoardWorth(h) = IF {"usd", "spot"} \cap failing # {} THEN {} ELSE P
      BY <2>3, WorthOf, WorthGone DEF BoardWorth
    <2>4. h.symbol \notin Listed => V!Unlike(h) BY DEF V!Unlike
    <2> QED BY <2>2, <2>4, <2>5 DEF Alike
  <1> QED BY <1>2, <1>3

LEMMA FundAlike ==
  ASSUME NEW h \in held, h.kind = "fund" PROVE Alike(h, DirectWorth(h), BoardWorth(h))
  <1>1. V!Gathered(h) = V!TefasLine(h) /\ V!BoardLine(h) = V!BoardFund(h)
    BY BoardLineIs DEF V!Gathered, V!OnBoard
  <1> DEFINE P == V!FundPrice(h.symbol)
             l == V!Line(h, P, {})
  <1>2. CASE \E f \in V!Of("fund") : V!FundPrice(f.symbol) = {}
    <2>1. V!TefasLine(h) = V!Gone(h, {"fetch_failed"}) BY <1>2 DEF V!TefasLine
    <2>2. DirectWorth(h) = {} BY <1>1, <2>1, GoneEnriched DEF DirectWorth
    <2>3. failing # {} \/ missing # {} BY <1>2 DEF V!FundPrice, V!Today
    <2> QED BY <2>2, <2>3 DEF Alike
  <1>3. CASE ~\E f \in V!Of("fund") : V!FundPrice(f.symbol) = {}
    <2>1. V!TefasLine(h) = l BY <1>3 DEF V!TefasLine
    <2>2. P # {} BY <1>3 DEF V!Of
    <2>3. DirectWorth(h) = P BY <1>1, <2>1, <2>2, WorthEnriched DEF DirectWorth
    <2>4. CASE V!TefasRaises
      <3>1. "tefas" \in failing BY <2>4 DEF V!TefasRaises
      <3>2. V!BoardLine(h) = V!Gone(h, {"section_failed"}) BY <1>1, <2>4 DEF V!BoardFund, V!Section
      <3>3. BoardWorth(h) = {} BY <3>2, WorthGone DEF BoardWorth
      <3> QED BY <3>1, <3>3 DEF Alike
    <2>5. CASE ~V!TefasRaises
      <3>1. V!BoardLine(h) = [l EXCEPT !.amount = V!LastRow(h).id]
        BY <1>1, <2>2, <2>5 DEF V!BoardFund, V!Section
      <3>2. l.price = P BY LineParts
      <3>3. l.there BY LineThere
      <3> HIDE DEF l, P
      <3>4. BoardWorth(h) = P BY <3>1, <3>2, <3>3 DEF BoardWorth, Worth
      <3> QED BY <2>3, <3>4 DEF Alike
    <2> QED BY <2>4, <2>5
  <1> QED BY <1>2, <1>3

LEMMA StockAlike ==
  ASSUME NEW h \in held, h.kind = "stock" PROVE Alike(h, DirectWorth(h), BoardWorth(h))
  <1>1. V!Gathered(h) = V!StockLine(h) /\ V!BoardLine(h) = V!BoardStock(h)
    BY BoardLineIs DEF V!Gathered, V!OnBoard
  <1>2. CASE V!Quote(h.symbol) = {}
    <2>1. V!StockLine(h) = V!Gone(h, {}) BY <1>2 DEF V!StockLine
    <2>2. DirectWorth(h) = {} BY <1>1, <2>1, GoneEnriched DEF DirectWorth
    <2>3. missing # {} BY <1>2 DEF V!Quote
    <2> QED BY <2>2, <2>3 DEF Alike
  <1>3. CASE V!Quote(h.symbol) # {}
    <2> DEFINE P == IF h.via = "GBp" /\ "gbp" \in failing THEN {} ELSE V!Quote(h.symbol)
    <2>1. V!StockLine(h) = V!Line(h, P, V!StaleNote(h)) BY <1>3 DEF V!StockLine
    <2>2. DirectWorth(h) = IF P = {} THEN V!Spot(h.symbol) ELSE P
      BY <1>1, <2>1, WorthEnriched DEF DirectWorth
    <2>3. V!BoardLine(h) = IF {"usd", "gbp"} \cap failing # {} THEN V!Gone(h, {"section_failed"})
                           ELSE V!Line(h, V!Quote(h.symbol), V!StaleNote(h))
      BY <1>1, <1>3 DEF V!BoardStock, V!Section
    <2>4. BoardWorth(h) = IF {"usd", "gbp"} \cap failing # {} THEN {} ELSE V!Quote(h.symbol)
      BY <2>3, WorthOf, WorthGone DEF BoardWorth
    <2> QED BY <1>3, <2>2, <2>4 DEF Alike
  <1> QED BY <1>2, <1>3

LEMMA CashAlike ==
  ASSUME NEW h \in held, h.kind \in {"cash", "pension"}
  PROVE  Alike(h, DirectWorth(h), BoardWorth(h))
  <1> DEFINE l == V!DbOnly(h, V!Dollar)
  <1>1. V!Gathered(h) = l /\ V!BoardLine(h) = l
    BY BoardLineIs DEF V!Gathered, V!DbOnly
  <1>2. \/ \E N : l = V!Gone(h, N)
        \/ \E w, N : l = V!Line(h, V!Whole(h, V!Today(w)), N)
    <2>1. V!Dollar = {} \/ V!Dollar = V!Today("USD") BY DEF V!Dollar
    <2> QED BY <2>1 DEF V!DbOnly, V!CashLine, V!BesLine
  <1> HIDE DEF l
  <1>3. ASSUME NEW N, l = V!Gone(h, N) PROVE DirectWorth(h) = BoardWorth(h)
    BY <1>1, <1>3, GoneEnriched, WorthGone DEF DirectWorth, BoardWorth
  <1>4. ASSUME NEW w, NEW N, l = V!Line(h, V!Whole(h, V!Today(w)), N)
        PROVE  DirectWorth(h) = BoardWorth(h)
    <2>1. V!Whole(h, V!Today(w)) # {} BY WholeFresh
    <2> QED BY <1>1, <1>4, <2>1, WorthEnriched, WorthOf DEF DirectWorth, BoardWorth
  <1>5. DirectWorth(h) = BoardWorth(h) BY <1>2, <1>3, <1>4
  <1> QED BY <1>5 DEF Alike

LEMMA MetalAlike ==
  ASSUME NEW h \in held, h.kind = "metal" PROVE Alike(h, DirectWorth(h), BoardWorth(h))
  <1> DEFINE l == V!OnBoard(h)
             M == V!MetalPrice(h.symbol)
  <1>1. /\ V!Gathered(h) = V!CommodityLine(h) /\ V!BoardLine(h) = V!MetalFromCache(h, l)
        /\ l = V!BoardMetal(h)
    BY BoardLineIs DEF V!Gathered, V!OnBoard
  <1>2. CASE M = {}
    <2>1. V!CommodityLine(h) = V!Gone(h, {"no_price"}) BY <1>2 DEF V!CommodityLine
    <2>2. DirectWorth(h) = {} BY <1>1, <2>1, GoneEnriched DEF DirectWorth
    <2>3. \E N : l = V!Gone(h, N) \/ l = V!Line(h, {}, N) BY <1>1, <1>2 DEF V!BoardMetal, V!Section
    <2>4. Worth(l) = {} BY <2>3, WorthOf, WorthGone
    <2>5. ~V!Valued(l) BY <2>4, WorthValued
    <2>6. V!BoardLine(h) = V!Gone(h, l.notes) BY <1>1, <2>5 DEF V!MetalFromCache
    <2>7. BoardWorth(h) = {} BY <2>6, WorthGone DEF BoardWorth
    <2> QED BY <2>2, <2>7 DEF Alike
  <1>3. CASE M # {}
    <2>1. "metals" \notin failing BY <1>3 DEF V!MetalPrice
    <2>2. V!CommodityLine(h) = V!Line(h, V!Whole(h, M), {}) BY <1>3 DEF V!CommodityLine
    <2>3. V!Whole(h, M) # {} BY <1>3, WholeFresh
    <2>4. DirectWorth(h) = V!Whole(h, M) BY <1>1, <2>2, <2>3, WorthEnriched DEF DirectWorth
    <2>5. l = V!Line(h, M, {}) BY <1>1, <1>3, <2>1 DEF V!BoardMetal, V!Section
    <2>6. l.price = M BY <2>5, LineParts
    <2>7. l.there BY <2>5, LineThere
    <2> HIDE DEF l, M
    <2>8. V!BoardLine(h) = [l EXCEPT !.price = V!Whole(h, l.price)]
      BY <1>1, <1>3, <2>6, <2>7 DEF V!MetalFromCache, V!Valued
    <2>9. V!BoardLine(h).price = V!Whole(h, M) BY <2>6, <2>8
    <2>10. V!BoardLine(h).there BY <2>7, <2>8
    <2>11. BoardWorth(h) = V!Whole(h, M) BY <2>9, <2>10 DEF BoardWorth, Worth
    <2> QED BY <2>4, <2>11 DEF Alike
  <1> QED BY <1>2, <1>3

(* With every source answering, a coin that is linked somewhere has a price.      *)
LEMMA LinkThere ==
  ASSUME NEW h, RowFits(h), h.kind = "coin", h.via \in V!Linked, failing = {}, missing = {}, ~V!Unlike(h)
  PROVE  V!LinkPrice(h) # {}
  <1>1. \A w : V!Today(w) # {} BY DEF V!Today
  <1>2. CASE h.via = "commodity" BY <1>1, <1>2 DEF V!LinkPrice, V!MetalPrice
  <1>3. CASE h.via = "binance"
    <2>1. V!LinkPrice(h) = V!Spot(h.to) BY <1>3 DEF V!LinkPrice
    <2>2. h.to \in Coins \cup Gecko BY <1>3 DEF V!Unlike
    <2> QED BY <1>1, <2>1, <2>2 DEF V!Spot, V!GeckoPrice
  <1>4. CASE h.via = "coingecko" BY <1>1, <1>4 DEF V!LinkPrice, V!GeckoPrice
  <1>5. CASE h.via = "tefas"
    <2>1. V!LinkPrice(h) = V!LinkedFund(h.to) BY <1>5 DEF V!LinkPrice
    <2>2. \A c : V!FundPrice(c) # {} BY <1>1 DEF V!FundPrice
    <2> QED BY <2>1, <2>2 DEF V!LinkedFund
  <1> QED BY <1>2, <1>3, <1>4, <1>5 DEF V!Linked

LEMMA CoinAlike ==
  ASSUME NEW h \in held, h.kind = "coin", RowFits(h) PROVE Alike(h, DirectWorth(h), BoardWorth(h))
  <1>0. {"auto", "manual", "unsourced"} \cap V!Linked = {} BY DEF V!Linked
  <1>1. V!Gathered(h) = V!ManualLine(h) /\ V!BoardLine(h) = V!BoardCoin(h)
    BY BoardLineIs DEF V!Gathered, V!OnBoard
  <1>2. BoardWorth(h) = IF V!CoinsFail THEN {} ELSE V!UnitPrice(h)
    BY <1>1, WorthOf, WorthGone DEF BoardWorth, V!BoardCoin
  <1>3. V!CoinsFail => failing # {} BY DEF V!CoinsFail
  <1>4. CASE h.via = "auto"
    <2>1. h.via # "manual" /\ h.via \notin V!Linked BY <1>0, <1>4
    <2>2. V!ManualLine(h) = V!Line(h, {}, {}) BY <1>4, <2>1 DEF V!ManualLine
    <2>3. DirectWorth(h) = V!Spot(h.symbol) BY <1>1, <2>2, WorthEnriched DEF DirectWorth
    <2>4. V!UnitPrice(h) = V!Spot(h.symbol) BY <1>4, <2>1 DEF V!UnitPrice
    <2> QED BY <1>2, <1>3, <2>3, <2>4 DEF Alike
  <1>5. CASE h.via = "manual"
    <2>1. h.via # "auto" /\ h.via \notin V!Linked BY <1>0, <1>5
    <2>2. V!ManualLine(h) = V!TypedLine(h) BY <1>5, <2>1 DEF V!ManualLine
    <2>3. V!UnitPrice(h) = IF h.to = "typed" THEN V!Today("typed") ELSE {}
      BY <1>5, <2>1 DEF V!UnitPrice
    <2>4. V!Today("typed") # {} BY DEF V!Today
    <2>5. CASE h.to = "typed"
      <3>1. V!TypedLine(h) = V!Line(h, V!Today("typed"), {"info_manual_price"}) BY <2>5 DEF V!TypedLine
      <3>2. DirectWorth(h) = V!Today("typed") BY <1>1, <2>2, <2>4, <3>1, WorthEnriched DEF DirectWorth
      <3> QED BY <1>2, <1>3, <2>3, <2>5, <3>2 DEF Alike
    <2>6. CASE h.to # "typed"
      <3>1. V!Unlike(h) BY <1>5, <2>6 DEF V!Unlike
      <3> QED BY <1>2, <2>3, <2>6, <3>1 DEF Alike
    <2> QED BY <2>5, <2>6
  <1>6. CASE h.via \in V!Linked
    <2>1. h.via \notin {"auto", "manual", "unsourced"} BY <1>0, <1>6
    <2>2. V!ManualLine(h) = V!LinkedLine(h) BY <1>6, <2>1 DEF V!ManualLine
    <2>3. V!UnitPrice(h) = V!LinkPrice(h) BY <1>6, <2>1 DEF V!UnitPrice
    <2>4. \E N : V!LinkedLine(h) = V!Line(h, V!LinkPrice(h), N) BY DEF V!LinkedLine
    <2>5. DirectWorth(h) = IF V!LinkPrice(h) = {} THEN V!Spot(h.symbol) ELSE V!LinkPrice(h)
      BY <1>1, <2>2, <2>4, WorthEnriched DEF DirectWorth
    <2>6. failing = {} /\ missing = {} /\ ~V!Unlike(h) => V!LinkPrice(h) # {} BY <1>6, LinkThere
    <2> QED BY <1>2, <1>3, <2>3, <2>5, <2>6 DEF Alike
  <1>7. CASE h.via = "unsourced"
    <2>1. V!UnitPrice(h) = {} BY <1>0, <1>7 DEF V!UnitPrice
    <2>2. V!Unlike(h) BY <1>7 DEF V!Unlike
    <2> QED BY <1>2, <2>1, <2>2 DEF Alike
  <1> QED BY <1>4, <1>5, <1>6, <1>7 DEF RowFits, V!Linked

(* The paths agree in any state in which the rows are as the tables have them,    *)
(* whatever fails, and whatever is remembered.                                    *)
LEMMA PathsAlwaysAgree ==
  ASSUME WorthInv PROVE V!PathsAgree
  <1> SUFFICES ASSUME NEW h \in held
               PROVE  LET d == V!Enriched(V!Gathered(h), V!NoPrices)
                          b == V!BoardLine(h)
                      IN  /\ V!RatesResolved /\ V!Valued(d) /\ V!Valued(b) => d.price = b.price
                          /\ failing = {} /\ missing = {} /\ ~V!Unlike(h) => (V!Valued(d) <=> V!Valued(b))
    BY DEF V!PathsAgree
  <1>1. RowFits(h) BY RowsFit
  <1>2. Alike(h, DirectWorth(h), BoardWorth(h))
    BY <1>1, ExchangeAlike, WalletAlike, FundAlike, StockAlike, CashAlike, MetalAlike, CoinAlike DEF RowFits
  <1> QED BY <1>2, WorthValued DEF Alike, DirectWorth, BoardWorth

LEMMA WorthSafe == V!Spec => [](V!PathsAgree /\ V!PricesTold)
  <1>1. WorthInv => V!PricesTold BY DEF WorthInv
  <1> QED BY <1>1, WorthInit, WorthStep, PathsAlwaysAgree, PTL DEF V!Spec

-----------------------------------------------------------------------------
(* The parts together: a behaviour is one of each part, of which all but one     *)
(* stutter.                                                                      *)

LEMMA PartsStart == MCInit => I!Init /\ Init /\ R!Init /\ H!Init /\ V!Init
  BY DEF MCInit

LEMMA PartsStep ==
  [MCNext]_allVars =>
    [I!Next]_(I!vars) /\ [Next]_vars /\ [R!Next]_(R!vars) /\ [H!Next]_(H!vars) /\ [V!Next]_(V!vars)
  <1> SUFFICES ASSUME [MCNext]_allVars
               PROVE  /\ [I!Next]_(I!vars) /\ [Next]_vars /\ [R!Next]_(R!vars)
                      /\ [H!Next]_(H!vars) /\ [V!Next]_(V!vars)
    OBVIOUS
  <1> DEFINE Plan == I!Next /\ UNCHANGED <<vars, rateVars, holdingVars, worthVars>>
             Pay == Next /\ UNCHANGED <<planVars, rateVars, holdingVars, worthVars>>
             Rate == R!Next /\ UNCHANGED <<planVars, vars, holdingVars, worthVars>>
             Hold == H!Next /\ UNCHANGED <<planVars, vars, rateVars, worthVars>>
             Value == V!Next /\ UNCHANGED <<planVars, vars, rateVars, holdingVars>>
  <1>1. Plan \/ Pay \/ Rate \/ Hold \/ Value \/ UNCHANGED allVars BY DEF MCNext
  <1>2. /\ I!vars = planVars /\ I!vars' = planVars' /\ R!vars = rateVars /\ R!vars' = rateVars'
        /\ H!vars = holdingVars /\ H!vars' = holdingVars' /\ V!vars = worthVars /\ V!vars' = worthVars'
    BY DEF I!vars, R!vars, H!vars, V!vars, planVars, rateVars, holdingVars, worthVars
  <1>3. UNCHANGED allVars => UNCHANGED <<planVars, vars, rateVars, holdingVars, worthVars>>
    BY DEF allVars
  <1> QED BY <1>1, <1>2, <1>3

(* Instalment plans, payments, rates, tables and their worth: each part runs as    *)
(* its module says, whatever the others do.                                       *)
THEOREM PartsRun == MCSpec => I!Spec /\ Spec /\ R!Spec /\ H!Spec /\ V!Spec
  BY PartsStart, PartsStep, PTL DEF MCSpec, I!Spec, Spec, R!Spec, H!Spec, V!Spec

(* Every table holds what its columns are meant for, an address is there whole   *)
(* and once, and the files that leave nothing out restore a table, in whatever    *)
(* order the requests that save or import it begin and commit.                   *)
THEOREM TypesOKAlways ==
  ASSUME MaxRows \in Nat, MaxEdits \in Nat
  PROVE  MCSpec => []TypesOK
  <1>1. Spec => []TypeOK
    <2>1. PaymentsInv => TypeOK BY DEF PaymentsInv, PaysTyped
    <2> QED BY <2>1, PaymentsRun, PTL
  <1>2. I!Spec => []I!TypeOK
    <2>1. PlansInv => I!TypeOK BY DEF PlansInv
    <2> QED BY <2>1, InstalmentsEndOnTime, PTL
  <1> QED BY <1>1, <1>2, HoldingsSafe, PartsRun, PTL DEF TypesOK

(* Only its removal takes the key of an exchange away: an import of other keys     *)
(* (import_integrations) leaves it, whatever came between its reading and its      *)
(* commit.                                                                        *)
THEOREM KeysKeptAlways == MCSpec => KeysKept
  BY HoldingsSafe, PartsRun, PTL DEF KeysKept

(* The plan that is left of an instalment ends in the month in which the bank's    *)
(* plan ends (_reconcile_installments, upsert_installment_from_statement).         *)
THEOREM PlansEndOnTimeAlways == MCSpec => []PlansEndOnTime
  <1>1. PlansInv => I!PlansEndOnTime BY DEF PlansInv
  <1> QED BY <1>1, InstalmentsEndOnTime, PartsRun, PTL DEF PlansEndOnTime

(* A slice is in a statement or still to come, never both, if the statements of a   *)
(* card come in the order of their months.                                        *)
THEOREM SlicesCountedOnceAlways ==
  ASSUME ~AnyOrder PROVE MCSpec => []SlicesCountedOnce
  BY InstalmentsCountedOnce, PartsRun, PTL DEF SlicesCountedOnce

(* Days are cached whole, and a report values a record at its own day's rate       *)
(* whatever fills the cache meanwhile: for any number of days, whatever the bank    *)
(* quotes on which of them, and any number of reports.                            *)
THEOREM RatesAgreeAlways == MCSpec => []RatesAgree
  BY RatesSafe, PartsRun, PTL DEF RatesAgree

(* What the snapshot's path and the board's both value, they value at the same     *)
(* price; and with every source up, both value the same rows, but those they are    *)
(* known to treat differently. For any rows a table may have.                      *)
THEOREM PathsAgreeAlways == MCSpec => []PathsAgree
  BY WorthSafe, PartsRun, PTL DEF PathsAgree

(* No snapshot of the scheduled job leaves a row out without a note, but a stock    *)
(* without a quote; and no snapshot, be it of a board of whatever day, has a price   *)
(* without a note that was old when its line was made, but of a fund or a coin of    *)
(* which the source is remembered, or the board's rate of the dollar: for any number *)
(* of days, whatever fails on which of them (compute_and_save_snapshot,              *)
(* save_snapshot_from_cache, _apply_last_known_price).                              *)
THEOREM PricesToldAlways == MCSpec => []PricesTold
  BY WorthSafe, PartsRun, PTL DEF PricesTold
=============================================================================
