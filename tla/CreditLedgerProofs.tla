--------------------------- MODULE CreditLedgerProofs ---------------------------
(***************************************************************************)
(* Theorems about the credit ledger, for any users, requests, keys and     *)
(* amounts.  Each invariant is a layer of its own that may use the layers  *)
(* below it: types and stages, funds, locks, keys, and what was bought.    *)
(***************************************************************************)
EXTENDS CreditLedger, FiniteSetTheorems, TLAPS

(* What the costs and amounts are, so that their definitions are opened    *)
(* only here.                                                              *)
LEMMA AmountFacts ==
    /\ \A r \in Charges : Cost(r) \in Nat \ {0} /\ Amount(r) = -Cost(r)
    /\ \A r \in TopUps : Amount(r) = TopUpAmount
    /\ \A r \in Requests : Amount(r) \in Int
  BY CostAssumption, RequestAssumption DEF Amount, Cost, Charges, Requests

-----------------------------------------------------------------------------
(* The stages each kind of request goes through, and what the committed    *)
(* rows are: exactly those of the committed requests.                      *)
Stages ==
    /\ \A r \in Advices : pc[r] \in {"idle", "calling", "answered", "flushed",
                                     "written", "committed", "rolledback"}
    /\ \A r \in Analyses : pc[r] \in {"idle", "calling", "answered",
                                      "written", "committed", "rolledback"}
    /\ \A r \in TopUps : pc[r] \in {"idle", "keychecked", "locked", "written"} \union Ended
    /\ rows = {r \in Requests : pc[r] = "committed"}
    /\ adviceRows = {r \in Advices : pc[r] = "committed"}

TypeInv == TypeOK /\ Stages

LEMMA TypeInit == Init => TypeInv
  BY DEF Init, TypeInv, TypeOK, Stages, Places, Ended, Requests, Charges

LEMMA TypeStep == TypeInv /\ [Next]_vars => TypeInv'
  <1> SUFFICES ASSUME TypeInv, [Next]_vars PROVE TypeInv'
    OBVIOUS
  <1> USE RequestAssumption DEF TypeInv, TypeOK, Stages, Places, Ended, Goto, Database,
          Requests, Charges
  <1>1. ASSUME NEW r \in Requests, Step(r) PROVE TypeInv'
    <2>1. CASE RefuseAdvice(r) BY <2>1 DEF RefuseAdvice
    <2>2. CASE StartAdvice(r) BY <2>2 DEF StartAdvice
    <2>3. CASE RefuseAnalysis(r) BY <2>3 DEF RefuseAnalysis
    <2>4. CASE StartAnalysis(r) BY <2>4 DEF StartAnalysis
    <2>5. CASE Answer(r) BY <2>5 DEF Answer
    <2>6. CASE CallFails(r) BY <2>6 DEF CallFails
    <2>7. CASE FlushAdvice(r) BY <2>7 DEF FlushAdvice
    <2>8. CASE DeductCredits(r) BY <2>8 DEF DeductCredits, ReadyToDeduct
    <2>9. CASE DeadlockVictim(r) BY <2>9 DEF DeadlockVictim
    <2>10. CASE CheckKey(r) BY <2>10 DEF CheckKey
    <2>11. CASE AddLock(r) BY <2>11 DEF AddLock
    <2>12. CASE AddCredits(r) BY <2>12 DEF AddCredits
    <2>13. CASE Commit(r)
      <3>1. copy[r] + Amount(r) \in Int /\ ledgerSum[usr[r]] + Amount(r) \in Int
        BY AmountFacts
      <3> QED BY <2>13, <3>1 DEF Commit
    <2> QED
      BY <1>1, <2>1, <2>2, <2>3, <2>4, <2>5, <2>6, <2>7, <2>8, <2>9, <2>10,
         <2>11, <2>12, <2>13 DEF Step
  <1>2. ASSUME NEW r \in Requests, Crash(r) PROVE TypeInv'
    BY <1>2 DEF Crash
  <1>3. CASE UNCHANGED vars
    BY <1>3 DEF vars
  <1> QED
    BY <1>1, <1>2, <1>3 DEF Next, Done

LEMMA TypeAlways == Spec => []TypeInv
  BY TypeInit, TypeStep, PTL DEF Spec

(* Type correctness of the credit ledger.                                  *)
THEOREM TypeCorrect == Spec => []TypeOK
  <1>1. TypeInv => TypeOK BY DEF TypeInv
  <1> QED BY <1>1, TypeAlways, PTL

(* The advice row and its charge are committed together or not at all.     *)
THEOREM AdviceIsPaid == Spec => []AdvicePaid
  <1>1. TypeInv => AdvicePaid
    BY RequestAssumption DEF TypeInv, Stages, AdvicePaid, Requests, Charges
  <1> QED BY <1>1, TypeAlways, PTL

-----------------------------------------------------------------------------
(* Funds: the copy a charge computes with covered its cost when it was     *)
(* read, and nothing changes it before the commit.                         *)
FundsInv ==
    /\ \A u \in Users : balance[u] >= 0
    /\ \A r \in Charges :
         pc[r] \in {"calling", "answered", "flushed", "written"} => copy[r] >= Cost(r)
    /\ \A r \in TopUps : copy[r] >= 0

LEMMA FundsInit == Init => FundsInv
  BY RequestAssumption DEF Init, FundsInv, Requests, Charges

LEMMA FundsStep == TypeInv /\ FundsInv /\ [Next]_vars => FundsInv'
  <1> SUFFICES ASSUME TypeInv, FundsInv, [Next]_vars PROVE FundsInv'
    OBVIOUS
  <1> USE RequestAssumption DEF TypeInv, TypeOK, FundsInv, Goto, Database, Ended
  <1>0. \A r \in Requests : (r \in Charges \/ r \in TopUps) /\ usr[r] \in Users
    BY DEF Requests
  <1>a. Charges \subseteq Requests /\ TopUps \subseteq Requests
    BY DEF Requests
  <1>b. (\A r \in Charges : Cost(r)' = Cost(r)) /\ Charges' = Charges
    BY DEF Cost, Charges
  <1>1. ASSUME NEW r \in Requests, Step(r) PROVE FundsInv'
    <2>1. CASE RefuseAdvice(r) BY <2>1, <1>a, <1>b DEF RefuseAdvice, Charges
    <2>2. CASE StartAdvice(r) BY <2>2, <1>a, <1>b DEF StartAdvice, CanAfford, Charges
    <2>3. CASE RefuseAnalysis(r) BY <2>3, <1>a, <1>b DEF RefuseAnalysis, Charges
    <2>4. CASE StartAnalysis(r) BY <2>4, <1>a, <1>b DEF StartAnalysis, CanAfford, Charges
    <2>5. CASE Answer(r) BY <2>5, <1>a, <1>b DEF Answer
    <2>6. CASE CallFails(r) BY <2>6, <1>a, <1>b DEF CallFails
    <2>7. CASE FlushAdvice(r) BY <2>7, <1>a, <1>b DEF FlushAdvice
    <2>8. CASE DeductCredits(r) BY <2>8, <1>a, <1>b DEF DeductCredits, CanAfford
    <2>9. CASE DeadlockVictim(r) BY <2>9, <1>a, <1>b DEF DeadlockVictim
    <2>10. CASE CheckKey(r) BY <2>10, <1>a, <1>b DEF CheckKey
    <2>11. CASE AddLock(r) BY <2>11, <1>a, <1>b, <1>0 DEF AddLock
    <2>12. CASE AddCredits(r) BY <2>12, <1>a, <1>b DEF AddCredits
    <2>13. CASE Commit(r)
      <3>1. copy[r] + Amount(r) >= 0
        <4>1. CASE r \in Charges
          BY <4>1, <2>13, AmountFacts, <1>a DEF Commit
        <4>2. CASE r \in TopUps
          BY <4>2, <2>13, AmountFacts, CostAssumption, <1>a DEF Commit
        <4> QED BY <4>1, <4>2, <1>0
      <3> QED BY <2>13, <3>1, <1>a, <1>b DEF Commit
    <2> QED
      BY <1>1, <2>1, <2>2, <2>3, <2>4, <2>5, <2>6, <2>7, <2>8, <2>9, <2>10,
         <2>11, <2>12, <2>13 DEF Step
  <1>2. ASSUME NEW r \in Requests, Crash(r) PROVE FundsInv'
    BY <1>2, <1>a, <1>b DEF Crash
  <1>3. CASE UNCHANGED vars
    BY <1>3, <1>b DEF vars
  <1> QED
    BY <1>1, <1>2, <1>3 DEF Next, Done

LEMMA FundsAlways == Spec => []FundsInv
  BY TypeAlways, FundsInit, FundsStep, PTL DEF Spec

(* No committed balance is negative, and no charge about to commit would   *)
(* make one so: the CHECK constraint never rejects a paid-for answer.      *)
THEOREM NeverNegative == Spec => []NonNegative
  <1>1. TypeInv /\ FundsInv => NonNegative
    <2> SUFFICES ASSUME TypeInv, FundsInv PROVE NonNegative
      OBVIOUS
    <2>1. ASSUME NEW r \in Requests, pc[r] = "written" PROVE copy[r] + Amount(r) >= 0
      BY <2>1, AmountFacts, CostAssumption DEF TypeInv, TypeOK, FundsInv, Requests, Charges
    <2> QED BY <2>1 DEF FundsInv, NonNegative
  <1> QED BY <1>1, TypeAlways, FundsAlways, PTL

-----------------------------------------------------------------------------
(* Locks: FOR UPDATE excludes every other lock on the user's row, so what  *)
(* a top-up read under it is still the balance when it commits.            *)
LockInv ==
    /\ \A r, s \in Requests :
         /\ usr[r] = usr[s]
         /\ pc[r] \in {"locked", "written"}
         /\ pc[s] \in {"locked", "written", "flushed"}
         => r = s
    /\ \A r \in TopUps : pc[r] \in {"locked", "written"} => copy[r] = balance[usr[r]]

LEMMA LockInit == Init => LockInv
  BY DEF Init, LockInv, Requests

LEMMA LockStep == TypeInv /\ LockInv /\ [Next]_vars => LockInv'
  <1> SUFFICES ASSUME TypeInv, LockInv, [Next]_vars PROVE LockInv'
    OBVIOUS
  <1> USE RequestAssumption DEF TypeInv, TypeOK, Stages, LockInv, Goto, Database, Ended,
          Requests, Charges
  <1>1. ASSUME NEW r \in Requests, Step(r) PROVE LockInv'
    <2>1. CASE RefuseAdvice(r) BY <2>1 DEF RefuseAdvice
    <2>2. CASE StartAdvice(r) BY <2>2 DEF StartAdvice
    <2>3. CASE RefuseAnalysis(r) BY <2>3 DEF RefuseAnalysis
    <2>4. CASE StartAnalysis(r) BY <2>4 DEF StartAnalysis
    <2>5. CASE Answer(r) BY <2>5 DEF Answer
    <2>6. CASE CallFails(r) BY <2>6 DEF CallFails
    <2>7. CASE FlushAdvice(r) BY <2>7 DEF FlushAdvice, Exclusive
    <2>8. CASE DeductCredits(r)
      BY <2>8 DEF DeductCredits, LockFree, Exclusive, KeyShare, ReadyToDeduct
    <2>9. CASE DeadlockVictim(r) BY <2>9 DEF DeadlockVictim
    <2>10. CASE CheckKey(r) BY <2>10 DEF CheckKey
    <2>11. CASE AddLock(r) BY <2>11 DEF AddLock, LockFree, Exclusive, KeyShare
    <2>12. CASE AddCredits(r) BY <2>12 DEF AddCredits
    <2>13. CASE Commit(r) BY <2>13 DEF Commit
    <2> QED
      BY <1>1, <2>1, <2>2, <2>3, <2>4, <2>5, <2>6, <2>7, <2>8, <2>9, <2>10,
         <2>11, <2>12, <2>13 DEF Step
  <1>2. ASSUME NEW r \in Requests, Crash(r) PROVE LockInv'
    BY <1>2 DEF Crash
  <1>3. CASE UNCHANGED vars
    BY <1>3 DEF vars
  <1> QED
    BY <1>1, <1>2, <1>3 DEF Next, Done

LEMMA LockAlways == Spec => []LockInv
  BY TypeAlways, LockInit, LockStep, PTL DEF Spec

(* Only Commit takes a request to "committed".                             *)
LEMMA CommitsByCommit ==
    ASSUME TypeInv, [Next]_vars, NEW r \in Requests,
           pc[r] # "committed", pc'[r] = "committed"
    PROVE  Commit(r)
  <1> USE DEF TypeInv, TypeOK, Goto, Ended
  <1>1. CASE UNCHANGED vars BY <1>1 DEF vars
  <1>2. ASSUME NEW s \in Requests, Step(s) \/ Crash(s) PROVE Commit(r)
    <2>1. CASE Commit(s) BY <2>1 DEF Commit
    <2>2. CASE ~Commit(s)
      BY <1>2, <2>2 DEF Step, Crash, RefuseAdvice, StartAdvice, RefuseAnalysis, StartAnalysis,
         Answer, CallFails, FlushAdvice, DeductCredits, DeadlockVictim,
         CheckKey, AddLock, AddCredits
    <2> QED BY <2>1, <2>2
  <1> QED BY <1>1, <1>2 DEF Next, Done

(* A committed top-up moves the balance by exactly its amount.             *)
THEOREM TopUpsAreExact == Spec => TopUpExact
  <1>1. ASSUME TypeInv, LockInv, [Next]_vars, NEW r \in TopUps,
               pc[r] # "committed", pc'[r] = "committed"
        PROVE  balance'[usr[r]] = balance[usr[r]] + TopUpAmount
    <2>0. r \in Requests BY DEF Requests
    <2>1. Commit(r) BY <1>1, <2>0, CommitsByCommit
    <2>2. Amount(r) = TopUpAmount BY AmountFacts
    <2> QED BY <1>1, <2>0, <2>1, <2>2 DEF Commit, LockInv, TypeInv, TypeOK
  <1>2. TypeInv /\ LockInv /\ [Next]_vars =>
          [\A r \in TopUps : pc[r] # "committed" /\ pc'[r] = "committed" =>
             balance'[usr[r]] = balance[usr[r]] + TopUpAmount]_vars
    BY <1>1
  <1> QED BY <1>2, TypeAlways, LockAlways, PTL DEF Spec, TopUpExact

-----------------------------------------------------------------------------
(* Keys: an uncommitted row with a key keeps every other row with that key *)
(* out, and a request answered as a repetition had something to repeat.    *)
KeyInv ==
    /\ \A r, t \in TopUps :
         /\ key[r] = key[t] /\ key[r] # NoKey
         /\ pc[r] \in {"written", "committed"}
         /\ pc[t] \in {"written", "committed"}
         => r = t
    /\ \A r \in TopUps : pc[r] = "noop" => key[r] # NoKey /\ KeySeen(r)

LEMMA KeyInit == Init => KeyInv
  BY DEF Init, KeyInv, Requests

LEMMA KeyStep == TypeInv /\ KeyInv /\ [Next]_vars => KeyInv'
  <1> SUFFICES ASSUME TypeInv, KeyInv, [Next]_vars PROVE KeyInv'
    OBVIOUS
  <1> USE RequestAssumption DEF TypeInv, TypeOK, Stages, KeyInv, KeySeen, Goto, Database,
          Ended, Requests, Charges
  <1>1. ASSUME NEW r \in Requests, Step(r) PROVE KeyInv'
    <2>1. CASE RefuseAdvice(r) BY <2>1 DEF RefuseAdvice
    <2>2. CASE StartAdvice(r) BY <2>2 DEF StartAdvice
    <2>3. CASE RefuseAnalysis(r) BY <2>3 DEF RefuseAnalysis
    <2>4. CASE StartAnalysis(r) BY <2>4 DEF StartAnalysis
    <2>5. CASE Answer(r) BY <2>5 DEF Answer
    <2>6. CASE CallFails(r) BY <2>6 DEF CallFails
    <2>7. CASE FlushAdvice(r) BY <2>7 DEF FlushAdvice
    <2>8. CASE DeductCredits(r) BY <2>8 DEF DeductCredits, ReadyToDeduct
    <2>9. CASE DeadlockVictim(r) BY <2>9 DEF DeadlockVictim
    <2>10. CASE CheckKey(r) BY <2>10 DEF CheckKey
    <2>11. CASE AddLock(r) BY <2>11 DEF AddLock
    <2>12. CASE AddCredits(r) BY <2>12 DEF AddCredits
    <2>13. CASE Commit(r) BY <2>13 DEF Commit
    <2> QED
      BY <1>1, <2>1, <2>2, <2>3, <2>4, <2>5, <2>6, <2>7, <2>8, <2>9, <2>10,
         <2>11, <2>12, <2>13 DEF Step
  <1>2. ASSUME NEW r \in Requests, Crash(r) PROVE KeyInv'
    BY <1>2 DEF Crash
  <1>3. CASE UNCHANGED vars
    BY <1>3 DEF vars
  <1> QED
    BY <1>1, <1>2, <1>3 DEF Next, Done

(* One payment is credited at most once, however often and however         *)
(* concurrently it is delivered.                                           *)
THEOREM PaymentsCreditedOnce == Spec => []PaymentCreditedOnce
  <1>1. TypeInv /\ KeyInv => PaymentCreditedOnce
    BY DEF TypeInv, Stages, KeyInv, PaymentCreditedOnce
  <1> QED BY <1>1, TypeAlways, KeyInit, KeyStep, PTL DEF Spec

-----------------------------------------------------------------------------
(* What was bought: neither a balance nor a copy of one ever exceeds the   *)
(* user's committed top-ups, which only grow.                              *)
Bought(u) == TopUpAmount * Cardinality(ToppedUp(u))

BoughtInv ==
    /\ IsFiniteSet(rows)
    /\ \A u \in Users : balance[u] <= Bought(u)
    /\ \A r \in Charges : InFlight(r) => copy[r] <= Bought(usr[r])

LEMMA BoughtInit == Init => BoughtInv
  <1> SUFFICES ASSUME Init PROVE BoughtInv
    OBVIOUS
  <1>1. IsFiniteSet(rows) /\ \A u \in Users : ToppedUp(u) = {}
    BY FS_EmptySet DEF Init, ToppedUp
  <1>2. \A u \in Users : Bought(u) = 0
    BY <1>1, FS_EmptySet, CostAssumption DEF Bought
  <1> QED
    BY <1>1, <1>2, RequestAssumption DEF Init, BoughtInv, InFlight, Requests, Charges

(* A step that leaves rows alone leaves every Bought alone.                *)
LEMMA BoughtUnchanged ==
    ASSUME rows' = rows, usr' = usr PROVE \A u : Bought(u)' = Bought(u)
  BY DEF Bought, ToppedUp

(* A finite set with one more element is finite, and larger by one.        *)
LEMMA AddOne ==
    ASSUME NEW S, IsFiniteSet(S), NEW x, x \notin S
    PROVE  IsFiniteSet(S \union {x}) /\ Cardinality(S \union {x}) = Cardinality(S) + 1
  BY FS_AddElement

(* A commit adds its own top-up to its own user, and nothing else.         *)
LEMMA BoughtByCommit ==
    ASSUME TypeInv, IsFiniteSet(rows), NEW r \in Requests, Commit(r)
    PROVE  /\ IsFiniteSet(rows')
           /\ \A u \in Users : Bought(u) \in Nat /\ Bought(u)' \in Nat
           /\ \A u \in Users : Bought(u)' >= Bought(u)
           /\ r \in TopUps => Bought(usr[r])' = Bought(usr[r]) + TopUpAmount
  <1> USE RequestAssumption, CostAssumption DEF TypeInv, TypeOK, Stages, Commit, Goto
  <1>1. rows' = rows \union {r} /\ r \notin rows /\ usr' = usr
    OBVIOUS
  <1>2. IsFiniteSet(rows')
    <2>1. IsFiniteSet(rows \union {r})
      <3> HIDE DEF TypeInv, TypeOK, Stages, Commit
      <3> QED BY <1>1, AddOne
    <2> QED BY <2>1, <1>1
  <1>3. ASSUME NEW u \in Users
        PROVE  /\ IsFiniteSet(ToppedUp(u)) /\ Cardinality(ToppedUp(u)) \in Nat
               /\ ToppedUp(u)' = IF r \in TopUps /\ usr[r] = u
                                   THEN ToppedUp(u) \union {r} ELSE ToppedUp(u)
               /\ r \notin ToppedUp(u)
    <2>1. IsFiniteSet(ToppedUp(u)) BY FS_Subset, ToppedUp(u) \subseteq rows DEF ToppedUp
    <2> QED BY <2>1, <1>1, FS_CardinalityType DEF ToppedUp
  <1>4. ASSUME NEW u \in Users
        PROVE  Cardinality(ToppedUp(u)') = IF r \in TopUps /\ usr[r] = u
                                             THEN Cardinality(ToppedUp(u)) + 1
                                             ELSE Cardinality(ToppedUp(u))
    <2>1. CASE r \in TopUps /\ usr[r] = u
      <3>1. ToppedUp(u)' = ToppedUp(u) \union {r} BY <2>1, <1>3
      <3>2. Cardinality(ToppedUp(u) \union {r}) = Cardinality(ToppedUp(u)) + 1
        <4> HIDE DEF ToppedUp
        <4> QED BY <1>3, AddOne
      <3> QED BY <2>1, <3>1, <3>2
    <2>2. CASE ~(r \in TopUps /\ usr[r] = u)
      <3>1. ToppedUp(u)' = ToppedUp(u) BY <2>2, <1>3
      <3> QED BY <2>2, <3>1
    <2> QED BY <2>1, <2>2
  <1>5. \A n \in Nat : /\ TopUpAmount * n \in Nat
                       /\ TopUpAmount * (n + 1) = TopUpAmount * n + TopUpAmount
    BY SMT
  <1>6. \A u \in Users :
          /\ Bought(u) \in Nat
          /\ Bought(u)' = IF r \in TopUps /\ usr[r] = u
                            THEN Bought(u) + TopUpAmount ELSE Bought(u)
    <2> TAKE u \in Users
    <2>1. Bought(u)' = TopUpAmount * Cardinality(ToppedUp(u)')
      BY DEF Bought
    <2> QED BY <2>1, <1>3, <1>4, <1>5 DEF Bought
  <1> QED BY <1>2, <1>6

LEMMA BoughtStep ==
    TypeInv /\ FundsInv /\ LockInv /\ BoughtInv /\ [Next]_vars => BoughtInv'
  <1> SUFFICES ASSUME TypeInv, FundsInv, LockInv, BoughtInv, [Next]_vars PROVE BoughtInv'
    OBVIOUS
  <1> USE RequestAssumption DEF TypeInv, TypeOK, BoughtInv, InFlight, Goto, Ended
  <1>1. ASSUME rows' = rows, usr' = usr, balance' = balance,
               NEW r \in Requests,
               \A s \in Requests \ {r} : pc'[s] = pc[s] /\ copy'[s] = copy[s],
               r \in Charges /\ InFlight(r)' =>
                  (InFlight(r) /\ copy'[r] = copy[r]) \/ copy'[r] = balance[usr[r]]
        PROVE  BoughtInv'
    BY <1>1, BoughtUnchanged DEF Requests
  <1>2. ASSUME NEW r \in Requests, Step(r), ~Commit(r) PROVE BoughtInv'
    <2>1. /\ rows' = rows /\ usr' = usr /\ balance' = balance
          /\ \A s \in Requests \ {r} : pc'[s] = pc[s] /\ copy'[s] = copy[s]
          /\ r \in Charges /\ InFlight(r)' =>
               (InFlight(r) /\ copy'[r] = copy[r]) \/ copy'[r] = balance[usr[r]]
      BY <1>2 DEF Step, RefuseAdvice, StartAdvice, RefuseAnalysis, StartAnalysis,
         Answer, CallFails, FlushAdvice, DeductCredits, DeadlockVictim,
         CheckKey, AddLock, AddCredits, ReadyToDeduct, Database, Requests, Charges
    <2> QED BY <2>1, <1>1
  <1>3. ASSUME NEW r \in Requests, Commit(r) PROVE BoughtInv'
    <2>1. /\ IsFiniteSet(rows')
          /\ \A u \in Users : Bought(u) \in Nat /\ Bought(u)' \in Nat
          /\ \A u \in Users : Bought(u)' >= Bought(u)
          /\ r \in TopUps => Bought(usr[r])' = Bought(usr[r]) + TopUpAmount
      BY <1>3, BoughtByCommit
    <2>2. balance'[usr[r]] = copy[r] + Amount(r) /\ usr' = usr /\ copy' = copy
      BY <1>3 DEF Commit
    <2>3. copy[r] + Amount(r) <= Bought(usr[r])'
      <3>1. CASE r \in Charges
        <4>1. InFlight(r) /\ usr[r] \in Users BY <1>3 DEF Commit
        <4>2. copy[r] <= Bought(usr[r]) BY <4>1, <3>1
        <4>3. Amount(r) \in Int /\ Amount(r) <= 0 /\ copy[r] \in Int
          BY <3>1, AmountFacts
        <4>4. Bought(usr[r]) \in Nat /\ Bought(usr[r])' \in Nat
              /\ Bought(usr[r])' >= Bought(usr[r])
          BY <4>1, <2>1, <2>2
        <4> QED BY <4>2, <4>3, <4>4
      <3>2. CASE r \in TopUps
        <4>1. copy[r] = balance[usr[r]] BY <3>2, <1>3 DEF LockInv, Commit
        <4> QED BY <4>1, <3>2, <2>1, AmountFacts
      <3> QED BY <3>1, <3>2 DEF Requests
    <2>4. \A u \in Users : balance'[u] <= Bought(u)'
      BY <2>1, <2>2, <2>3, <1>3 DEF Commit
    <2>5. \A s \in Charges : InFlight(s)' => copy'[s] <= Bought(usr[s])'
      <3> TAKE s \in Charges
      <3>1. CASE InFlight(s)
        <4>1. copy[s] <= Bought(usr[s]) /\ usr[s] \in Users /\ copy[s] \in Int
          BY <3>1 DEF Requests
        <4> QED BY <4>1, <2>1, <2>2
      <3>2. CASE ~InFlight(s) BY <3>2, <1>3 DEF Commit, Requests
      <3> QED BY <3>1, <3>2
    <2> QED BY <2>1, <2>2, <2>4, <2>5
  <1>4. ASSUME NEW r \in Requests, Crash(r) PROVE BoughtInv'
    BY <1>4, <1>1 DEF Crash, Database
  <1>5. CASE UNCHANGED vars
    BY <1>5, BoughtUnchanged DEF vars
  <1> QED
    BY <1>2, <1>3, <1>4, <1>5 DEF Next, Done

(* However charges overlap and overwrite each other, no one has more       *)
(* credits than they bought.                                               *)
THEOREM CreditsAreBought == Spec => []NoFreeCredits
  <1>1. BoughtInv => NoFreeCredits BY DEF BoughtInv, NoFreeCredits, Bought
  <1> QED
    BY <1>1, TypeAlways, FundsAlways, LockAlways, BoughtInit, BoughtStep, PTL DEF Spec

(* A balance stays between nothing and what was bought.                    *)
THEOREM BalancesBounded == Spec => []BalanceBounded
  <1>1. NonNegative /\ NoFreeCredits => BalanceBounded BY DEF BalanceBounded
  <1> QED BY <1>1, NeverNegative, CreditsAreBought, PTL

-----------------------------------------------------------------------------
(* Balance and ledger agree as long as no user has a charge in flight      *)
(* together with another request: the copy of a charge in flight is then   *)
(* still the balance.                                                      *)
SerialInv ==
    /\ \A u \in Users : balance[u] = ledgerSum[u]
    /\ \A r \in Charges : InFlight(r) => copy[r] = balance[usr[r]]
    /\ ChargeAlone

LEMMA SerialInit == Init => SerialInv
  BY RequestAssumption DEF Init, SerialInv, ChargeAlone, InFlight, Requests, Charges

LEMMA SerialStep ==
    TypeInv /\ LockInv /\ SerialInv /\ [Next /\ ChargeAlone']_vars => SerialInv'
  <1> SUFFICES ASSUME TypeInv, LockInv, SerialInv, [Next /\ ChargeAlone']_vars
               PROVE  SerialInv'
    OBVIOUS
  <1> USE RequestAssumption DEF TypeInv, TypeOK, Stages, SerialInv, InFlight, Goto, Ended
  <1>a. Charges \subseteq Requests /\ TopUps \subseteq Requests BY DEF Requests
  <1>1. CASE UNCHANGED vars
    BY <1>1 DEF vars, ChargeAlone
  <1>2. ASSUME NEW r \in Requests, ChargeAlone', Step(r) \/ Crash(r), ~Commit(r)
        PROVE  SerialInv'
    <2>1. /\ ledgerSum' = ledgerSum /\ usr' = usr /\ balance' = balance
          /\ \A s \in Requests \ {r} : pc'[s] = pc[s] /\ copy'[s] = copy[s]
          /\ r \in Charges /\ InFlight(r)' =>
               (InFlight(r) /\ copy'[r] = copy[r]) \/ copy'[r] = balance[usr[r]]
      BY <1>2 DEF Step, Crash, RefuseAdvice, StartAdvice, RefuseAnalysis, StartAnalysis,
         Answer, CallFails, FlushAdvice, DeductCredits, DeadlockVictim,
         CheckKey, AddLock, AddCredits, ReadyToDeduct, Database, Requests, Charges
    <2> QED BY <2>1, <1>2, <1>a
  <1>3. ASSUME NEW r \in Requests, ChargeAlone', Commit(r) PROVE SerialInv'
    <2>1. copy[r] = balance[usr[r]]
      <3>1. CASE r \in Charges BY <3>1, <1>3 DEF Commit
      <3>2. CASE r \in TopUps BY <3>2, <1>3 DEF Commit, LockInv
      <3> QED BY <3>1, <3>2 DEF Requests
    <2>2. \A u \in Users : balance'[u] = ledgerSum'[u]
      BY <2>1, <1>3, AmountFacts DEF Commit
    <2>3. ASSUME NEW s \in Charges, InFlight(s)' PROVE copy'[s] = balance'[usr'[s]]
      <3>1. InFlight(s) /\ InFlight(r) /\ s # r
        BY <1>3, <2>3, <1>a DEF Commit
      <3>2. usr[s] # usr[r] BY <3>1, <1>a DEF ChargeAlone
      <3> QED BY <3>1, <3>2, <1>3, <1>a DEF Commit
    <2> QED BY <2>2, <2>3, <1>3
  <1> QED BY <1>1, <1>2, <1>3 DEF Next, Done

(* When a user's charge never overlaps another of the user's requests, the *)
(* balance is always the sum of the ledger; top-ups may overlap freely.    *)
THEOREM SerialLedger == SerialSpec => []LedgerMatchesBalance
  <1>1. [Next /\ ChargeAlone']_vars => [Next]_vars OBVIOUS
  <1>2. SerialInv => LedgerMatchesBalance BY DEF SerialInv, LedgerMatchesBalance
  <1> QED
    BY <1>1, <1>2, TypeInit, TypeStep, LockInit, LockStep, SerialInit, SerialStep, PTL
    DEF SerialSpec

(* And it implements the account: its commits are bookings, all its other  *)
(* steps change nothing the account knows of.                              *)
LEMMA AccountInit == Init => Abstract!Init
  BY DEF Init, Abstract!Init

LEMMA AccountStep ==
    ASSUME TypeInv, FundsInv, LockInv, SerialInv, [Next /\ ChargeAlone']_vars
    PROVE  [Abstract!Next]_(Abstract!vars)
  <1> USE DEF TypeInv, TypeOK
  <1>1. ASSUME NEW r \in Requests, Commit(r) PROVE Abstract!Book(r)
    <2>1. r \notin rows
      BY <1>1 DEF Commit, Stages
    <2>2. copy[r] = balance[usr[r]]
      <3>1. CASE r \in Charges BY <1>1, <3>1 DEF Commit, SerialInv, InFlight, Ended
      <3>2. CASE r \in TopUps BY <1>1, <3>2 DEF Commit, LockInv
      <3> QED BY <3>1, <3>2 DEF Requests
    <2>3. copy[r] + Amount(r) >= 0
      <3>1. CASE r \in Charges
        BY <1>1, <3>1, AmountFacts DEF Commit, FundsInv, Requests
      <3>2. CASE r \in TopUps
        BY <1>1, <3>2, AmountFacts, CostAssumption DEF Commit, FundsInv, Requests
      <3> QED BY <3>1, <3>2 DEF Requests
    <2> QED BY <1>1, <2>1, <2>2, <2>3 DEF Commit, Abstract!Book
  <1>2. ASSUME NEW r \in Requests, Step(r) \/ Crash(r), ~Commit(r)
        PROVE  UNCHANGED Abstract!vars
    BY <1>2 DEF Step, Crash, RefuseAdvice, StartAdvice, RefuseAnalysis, StartAnalysis,
       Answer, CallFails, FlushAdvice, DeductCredits, DeadlockVictim,
       CheckKey, AddLock, AddCredits, Database, Abstract!vars
  <1>3. CASE UNCHANGED vars
    BY <1>3 DEF vars, Abstract!vars
  <1> QED BY <1>1, <1>2, <1>3 DEF Next, Done, Abstract!Next

(* Charges that do not overlap another request of their user, and top-ups  *)
(* that may overlap each other, are atomic bookings on an account.         *)
THEOREM SerialIsAnAccount == SerialSpec => IsAnAccount
  <1>1. [Next /\ ChargeAlone']_vars => [Next]_vars OBVIOUS
  <1>2. TypeInv /\ FundsInv /\ LockInv /\ SerialInv /\ [Next /\ ChargeAlone']_vars
        => [Abstract!Next]_(Abstract!vars)
    BY AccountStep
  <1> QED
    BY <1>1, <1>2, TypeInit, TypeStep, FundsInit, FundsStep, LockInit, LockStep,
       SerialInit, SerialStep, AccountInit, PTL
    DEF SerialSpec, IsAnAccount, Abstract!Spec

=============================================================================
