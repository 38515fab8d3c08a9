---------------------------- MODULE SchedulerProofs ----------------------------
(***************************************************************************)
(* Theorems about the scheduler, for any pods, jobs, keys and users.       *)
(***************************************************************************)
EXTENDS Scheduler, FiniteSetTheorems, TLAPS

(* The inductive invariant, in parts.  Typed: the types without the        *)
(* semaphore's bound.                                                      *)
Typed ==
    /\ up \in SUBSET Pods
    /\ at \in [Instances -> {"off", "due", "working", "leaving"}]
    /\ todo \in [Instances -> SUBSET Users]
    /\ active \in [Instances -> SUBSET Users]
    /\ lock \in [Keys -> Instances \union {Free, Broken}]
    /\ due \in [Jobs -> 0..MaxDue]
    /\ ranBy \in [Jobs -> SUBSET Pods]
    /\ tried \in [Jobs -> SUBSET Users]
    /\ faults \in 0..MaxFaults

(* Admitted: nobody gets past the semaphore.                               *)
Admitted == \A i \in Instances : Cardinality(active[i]) <= Width(i)

(* Kept: as long as nothing has gone wrong, whoever has not had his turn   *)
(* is still waiting for it somewhere.                                      *)
Waiting(p, j) == todo[<<p, j>>] \union active[<<p, j>>]

Kept ==
    \A j \in Isolating :
        faults = 0 /\ ranBy[j] # {} =>
            \A u \in Users : u \in tried[j] \/ \E p \in Pods : u \in Waiting(p, j)

LEMMA KeyType == \A i \in Instances : i[1] \in Pods /\ i[2] \in Jobs /\ i = <<i[1], i[2]>> /\ Key(i) \in Keys
  BY JobAssumption DEF Instances, Key

LEMMA Pairs == \A p \in Pods, j \in Jobs : <<p, j>> \in Instances /\ <<p, j>>[1] = p /\ <<p, j>>[2] = j
  BY DEF Instances

LEMMA TypedInit == Init => Typed
  BY JobAssumption DEF Init, Typed

LEMMA TypedStep == Typed /\ [Next]_vars => Typed'
  <1> SUFFICES ASSUME Typed, [Next]_vars PROVE Typed'
    OBVIOUS
  <1> USE JobAssumption, KeyType DEF Typed, Fault, work
  <1>1. ASSUME NEW j \in Jobs, Due(j) PROVE Typed'
    BY <1>1 DEF Due
  <1>2. ASSUME NEW i \in Instances, Misfire(i) PROVE Typed'
    BY <1>2 DEF Misfire
  <1>3. ASSUME NEW i \in Instances, ListFails(i) PROVE Typed'
    BY <1>3 DEF ListFails
  <1>4. ASSUME NEW i \in Instances, TryLock(i) PROVE Typed'
    BY <1>4 DEF TryLock
  <1>5. ASSUME NEW i \in Instances, Skip(i) PROVE Typed'
    BY <1>5 DEF Skip
  <1>6. ASSUME NEW i \in Instances, Release(i) PROVE Typed'
    BY <1>6 DEF Release
  <1>7. ASSUME NEW i \in Instances, NEW u \in Users, Begin(i, u) PROVE Typed'
    BY <1>7 DEF Begin
  <1>8. ASSUME NEW i \in Instances, NEW u \in Users, Serve(i, u) PROVE Typed'
    BY <1>8 DEF Serve
  <1>9. ASSUME NEW i \in Instances, NEW u \in Users, Fail(i, u) PROVE Typed'
    BY <1>9 DEF Fail
  <1>10. ASSUME NEW i \in Instances, NEW u \in Users, Cancelled(i, u) PROVE Typed'
    BY <1>10 DEF Cancelled
  <1>11. ASSUME NEW p \in Pods, Crash(p) PROVE Typed'
    BY <1>11 DEF Crash
  <1>12. ASSUME NEW p \in Pods, Start(p) PROVE Typed'
    BY <1>12 DEF Start
  <1>13. ASSUME NEW k \in Keys, DropSession(k) PROVE Typed'
    BY <1>13 DEF DropSession
  <1>14. CASE UNCHANGED vars
    BY <1>14 DEF vars, work
  <1> QED
    BY <1>1, <1>2, <1>3, <1>4, <1>5, <1>6, <1>7, <1>8, <1>9, <1>10, <1>11, <1>12, <1>13, <1>14
    DEF Next, RunStep

-----------------------------------------------------------------------------
(* What happens to the users an instance is busy with.                     *)
LEMMA ActiveChanges ==
    ASSUME Typed, Next, NEW i \in Instances
    PROVE  \/ active'[i] = active[i]
           \/ active'[i] = {}
           \/ \E u \in Users : active'[i] = active[i] \ {u}
           \/ \E u \in Users : Cardinality(active[i]) < Width(i) /\ active'[i] = active[i] \union {u}
  <1> USE DEF Typed, work
  <1>1. ASSUME NEW h \in Instances, NEW u \in Users, Begin(h, u)
        PROVE  \/ active'[i] = active[i]
               \/ Cardinality(active[i]) < Width(i) /\ active'[i] = active[i] \union {u}
    BY <1>1 DEF Begin
  <1>2. ASSUME NEW h \in Instances, NEW u \in Users, Serve(h, u) \/ Fail(h, u) \/ Cancelled(h, u)
        PROVE  active'[i] = active[i] \/ active'[i] = active[i] \ {u}
    BY <1>2 DEF Serve, Fail, Cancelled
  <1>3. ASSUME NEW p \in Pods, Crash(p)
        PROVE  active'[i] = active[i] \/ active'[i] = {}
    BY <1>3 DEF Crash
  <1>4. ASSUME \/ \E j \in Jobs : Due(j)
               \/ \E h \in Instances : \/ Misfire(h) \/ ListFails(h) \/ TryLock(h)
                                       \/ Skip(h) \/ Release(h)
               \/ \E p \in Pods : Start(p)
               \/ \E k \in Keys : DropSession(k)
        PROVE  active'[i] = active[i]
    BY <1>4 DEF Due, Misfire, ListFails, TryLock, Skip, Release, Start, DropSession, work
  <1> QED BY <1>1, <1>2, <1>3, <1>4 DEF Next, RunStep

LEMMA AdmittedInit == Init => Admitted
  <1> SUFFICES ASSUME Init, NEW i \in Instances PROVE Cardinality(active[i]) <= Width(i)
    BY DEF Admitted
  <1>1. active[i] = {}
    BY DEF Init
  <1> QED BY <1>1, FS_EmptySet, JobAssumption DEF Width

LEMMA AdmittedStep == Typed /\ Admitted /\ [Next]_vars => Admitted'
  <1>1. ASSUME Typed, Admitted, Next, NEW i \in Instances
        PROVE  Cardinality(active'[i]) <= Width(i)
    <2>1. active[i] \in SUBSET Users /\ Width(i) \in Nat /\ Width(i) > 0
      BY <1>1, JobAssumption DEF Typed, Width
    <2>2. IsFiniteSet(active[i]) /\ Cardinality(active[i]) \in Nat
      BY <2>1, JobAssumption, FS_Subset, FS_CardinalityType
    <2>3. Cardinality(active[i]) <= Width(i)
      BY <1>1 DEF Admitted
    <2>4. CASE active'[i] = active[i]
      BY <2>3, <2>4
    <2>5. CASE active'[i] = {}
      BY <2>1, <2>5, FS_EmptySet
    <2>6. ASSUME NEW u \in Users, active'[i] = active[i] \ {u}
          PROVE  Cardinality(active'[i]) <= Width(i)
      <3>1. Cardinality(active[i] \ {u}) =
                IF u \in active[i] THEN Cardinality(active[i]) - 1 ELSE Cardinality(active[i])
        BY <2>2, FS_RemoveElement
      <3> QED BY <3>1, <2>1, <2>2, <2>3, <2>6
    <2>7. ASSUME NEW u \in Users, Cardinality(active[i]) < Width(i), active'[i] = active[i] \union {u}
          PROVE  Cardinality(active'[i]) <= Width(i)
      <3>1. Cardinality(active[i] \union {u}) =
                IF u \in active[i] THEN Cardinality(active[i]) ELSE Cardinality(active[i]) + 1
        BY <2>2, FS_AddElement
      <3> QED BY <3>1, <2>1, <2>2, <2>7
    <2> QED BY <1>1, <2>4, <2>5, <2>6, <2>7, ActiveChanges
  <1>2. ASSUME Admitted, UNCHANGED vars PROVE Admitted'
    BY <1>2 DEF vars, work, Admitted, Width
  <1>3. ASSUME Typed, Admitted, Next PROVE Admitted'
    BY <1>1, <1>3 DEF Admitted, Width
  <1> QED BY <1>2, <1>3

-----------------------------------------------------------------------------
(* Dead pods run nothing.                                                  *)
Alive == \A i \in Instances : at[i] # "off" => i[1] \in up

LEMMA AliveInit == Init => Alive
  BY DEF Init, Alive

LEMMA AliveStep == Typed /\ Alive /\ [Next]_vars => Alive'
  <1> SUFFICES ASSUME Typed, Alive, [Next]_vars PROVE Alive'
    OBVIOUS
  <1> USE KeyType DEF Typed, Alive, work
  <1>1. ASSUME NEW j \in Jobs, Due(j) PROVE Alive'
    BY <1>1 DEF Due
  <1>2. ASSUME NEW i \in Instances,
               Misfire(i) \/ ListFails(i) \/ TryLock(i) \/ Skip(i) \/ Release(i)
        PROVE  Alive'
    BY <1>2 DEF Misfire, ListFails, TryLock, Skip, Release
  <1>3. ASSUME NEW i \in Instances, NEW u \in Users,
               Begin(i, u) \/ Serve(i, u) \/ Fail(i, u) \/ Cancelled(i, u)
        PROVE  Alive'
    BY <1>3 DEF Begin, Serve, Fail, Cancelled
  <1>4. ASSUME NEW p \in Pods, Crash(p) \/ Start(p) PROVE Alive'
    BY <1>4 DEF Crash, Start
  <1>5. ASSUME NEW k \in Keys, DropSession(k) PROVE Alive'
    BY <1>5 DEF DropSession
  <1>6. CASE UNCHANGED vars
    BY <1>6 DEF vars
  <1> QED
    BY <1>1, <1>2, <1>3, <1>4, <1>5, <1>6 DEF Next, RunStep

(* An instance at work holds its key, on a pod that is up.                 *)
LEMMA AloneInit == Init => AloneUnderKey
  BY DEF Init, AloneUnderKey

LEMMA AloneStep == Typed /\ Alive /\ AloneUnderKey /\ [Next]_vars => AloneUnderKey'
  <1> SUFFICES ASSUME Typed, Alive, AloneUnderKey, [Next]_vars PROVE AloneUnderKey'
    OBVIOUS
  <1> USE JobAssumption, KeyType DEF Typed, AloneUnderKey, Fault, work
  <1>1. ASSUME NEW j \in Jobs, Due(j) PROVE AloneUnderKey'
    BY <1>1 DEF Due, Key
  <1>2. ASSUME NEW i \in Instances, Misfire(i) \/ ListFails(i) PROVE AloneUnderKey'
    BY <1>2 DEF Misfire, ListFails, Key
  <1>3. ASSUME NEW i \in Instances, TryLock(i) PROVE AloneUnderKey'
    <2>1. i[1] \in up
      BY <1>3 DEF TryLock, Alive
    <2> QED BY <1>3, <2>1 DEF TryLock
  <1>4. ASSUME NEW i \in Instances, Skip(i) PROVE AloneUnderKey'
    BY <1>4 DEF Skip, Key
  <1>5. ASSUME NEW i \in Instances, Release(i) PROVE AloneUnderKey'
    BY <1>5 DEF Release
  <1>6. ASSUME NEW i \in Instances, NEW u \in Users,
               Begin(i, u) \/ Serve(i, u) \/ Fail(i, u) \/ Cancelled(i, u)
        PROVE  AloneUnderKey'
    BY <1>6 DEF Begin, Serve, Fail, Cancelled, Key
  <1>7. ASSUME NEW p \in Pods, Crash(p) PROVE AloneUnderKey'
    <2> SUFFICES ASSUME NEW h \in Instances, at'[h] \in {"working", "leaving"}
                 PROVE  lock'[Key(h)] = h /\ h[1] \in up'
      BY DEF Key
    <2>1. h[1] # p /\ at[h] \in {"working", "leaving"}
      BY <1>7 DEF Crash
    <2>2. lock[Key(h)] = h /\ h[1] \in up
      BY <2>1
    <2>3. ~ \E j \in Jobs : lock[Key(h)] = <<p, j>>
      BY <2>1, <2>2, Pairs
    <2> QED BY <1>7, <2>1, <2>2, <2>3 DEF Crash
  <1>8. ASSUME NEW p \in Pods, Start(p) PROVE AloneUnderKey'
    BY <1>8 DEF Start, Key
  <1>9. ASSUME NEW k \in Keys, DropSession(k) PROVE AloneUnderKey'
    BY <1>9 DEF DropSession
  <1>10. CASE UNCHANGED vars
    BY <1>10 DEF vars, Key
  <1> QED
    BY <1>1, <1>2, <1>3, <1>4, <1>5, <1>6, <1>7, <1>8, <1>9, <1>10 DEF Next, RunStep

-----------------------------------------------------------------------------
(* Nobody is lost on the way from todo over active to tried.               *)
LEMMA KeptInit == Init => Kept
  BY JobAssumption DEF Init, Kept

LEMMA KeptStep == Typed /\ Kept /\ [Next]_vars => Kept'
  <1>1. ASSUME Typed, Kept, [Next]_vars,
               NEW j \in Isolating, faults' = 0, ranBy'[j] # {}, NEW u \in Users
        PROVE  u \in tried'[j] \/ \E p \in Pods : u \in Waiting(p, j)'
    <2> USE <1>1, JobAssumption, Pairs, KeyType DEF Typed, work
    <2> DEFINE Had == faults = 0 /\ ranBy[j] # {}
               Got == u \in tried'[j] \/ \E p \in Pods : u \in Waiting(p, j)'
    <2>1. Had => u \in tried[j] \/ \E p \in Pods : u \in Waiting(p, j)
      BY DEF Kept
    <2>2. ASSUME NEW h \in Jobs, Due(h) PROVE Got
      BY <2>1, <2>2 DEF Due, Waiting
    <2>3. ASSUME NEW i \in Instances, TryLock(i) PROVE Got
      <3>1. CASE i[2] = j
        BY <2>3, <3>1 DEF TryLock, Waiting
      <3>2. CASE i[2] # j
        BY <2>1, <2>3, <3>2 DEF TryLock, Waiting
      <3> QED BY <3>1, <3>2
    <2>4. ASSUME NEW i \in Instances, Skip(i) \/ Release(i) PROVE Got
      BY <2>1, <2>4 DEF Skip, Release, Waiting
    <2>5. ASSUME NEW i \in Instances, NEW v \in Users, Begin(i, v) PROVE Got
      BY <2>1, <2>5 DEF Begin, Waiting
    <2>6. ASSUME NEW i \in Instances, NEW v \in Users, Serve(i, v) PROVE Got
      <3> DEFINE turn == i[2] = j /\ u = v
      <3>1. tried'[j] = IF i[2] = j THEN tried[j] \union {v} ELSE tried[j]
        BY <2>6 DEF Serve
      <3>2. ASSUME NEW p \in Pods, u \in Waiting(p, j), ~ turn
            PROVE  u \in Waiting(p, j)'
        BY <2>6, <3>2 DEF Serve, Waiting
      <3>3. Had
        BY <2>6 DEF Serve
      <3> QED BY <2>1, <3>1, <3>2, <3>3
    <2>7. ASSUME NEW i \in Instances, NEW v \in Users, Fail(i, v) PROVE Got
      <3> DEFINE turn == i[2] = j /\ u = v
      <3>1. tried'[j] = IF i[2] = j THEN tried[j] \union {v} ELSE tried[j]
        BY <2>7 DEF Fail
      <3>2. ASSUME NEW p \in Pods, u \in Waiting(p, j), ~ turn
            PROVE  u \in Waiting(p, j)'
        <4>1. CASE i = <<p, j>>
          BY <2>7, <3>2, <4>1 DEF Fail, Waiting
        <4>2. CASE i # <<p, j>>
          <5>1. todo'[<<p, j>>] = todo[<<p, j>>] /\ active'[<<p, j>>] = active[<<p, j>>]
            BY <2>7, <4>2 DEF Fail
          <5> QED BY <3>2, <5>1 DEF Waiting
        <4> QED BY <4>1, <4>2
      <3>3. Had
        BY <2>7 DEF Fail
      <3> QED BY <2>1, <3>1, <3>2, <3>3
    <2>8. ASSUME NEW i \in Instances, NEW v \in Users,
                 Misfire(i) \/ ListFails(i) \/ Cancelled(i, v)
          PROVE  FALSE
      BY <2>8 DEF Misfire, ListFails, Cancelled, Fault
    <2>9. ASSUME NEW p \in Pods, Crash(p) PROVE FALSE
      BY <2>9 DEF Crash, Fault
    <2>10. ASSUME NEW p \in Pods, Start(p) PROVE Got
      BY <2>1, <2>10 DEF Start, Waiting
    <2>11. ASSUME NEW k \in Keys, DropSession(k) PROVE Got
      BY <2>1, <2>11 DEF DropSession, Waiting
    <2>12. CASE UNCHANGED vars
      BY <2>1, <2>12 DEF vars, Waiting
    <2> HIDE DEF Got, Had
    <2> QED
      BY <2>2, <2>3, <2>4, <2>5, <2>6, <2>7, <2>8, <2>9, <2>10, <2>11, <2>12
      DEF Next, RunStep, Got
  <1> QED BY <1>1 DEF Kept

-----------------------------------------------------------------------------
Inv == Typed /\ Admitted /\ Alive /\ AloneUnderKey /\ Kept

LEMMA InvAlways == Spec => []Inv
  <1>1. Init => Inv
    BY TypedInit, AdmittedInit, AliveInit, AloneInit, KeptInit DEF Inv
  <1>2. Inv /\ [Next]_vars => Inv'
    BY TypedStep, AdmittedStep, AliveStep, AloneStep, KeptStep DEF Inv
  <1> QED BY <1>1, <1>2, PTL DEF Spec

(* Type correctness, and the semaphore of the weekly job.                  *)
THEOREM TypeCorrect == Spec => []TypeOK
  <1>1. Inv => TypeOK
    BY DEF Inv, Typed, Admitted, TypeOK
  <1> QED BY <1>1, InvAlways, PTL

(* Jobs that share a key never run at the same time.                       *)
THEOREM JobsExclude == Spec => []AloneUnderKey
  <1>1. Inv => AloneUnderKey
    BY DEF Inv
  <1> QED BY <1>1, InvAlways, PTL

(* One user's failure costs no other user his snapshot or his reminder.    *)
THEOREM EverybodyServed == Spec => []NoUserLeftOut
  <1>1. Inv => NoUserLeftOut
    <2> SUFFICES ASSUME Inv, NEW j \in Isolating, faults = 0, ranBy[j] # {},
                        \A p \in Pods : Idle(<<p, j>>)
                 PROVE  tried[j] = Users
      BY DEF NoUserLeftOut
    <2>1. tried[j] \subseteq Users
      BY JobAssumption DEF Inv, Typed
    <2>2. \A p \in Pods : Waiting(p, j) = {}
      BY DEF Idle, Waiting
    <2>3. \A u \in Users : u \in tried[j]
      BY <2>2 DEF Inv, Kept
    <2> QED BY <2>1, <2>3
  <1> QED BY <1>1, InvAlways, PTL

=============================================================================
