------------------------------ MODULE LiveCacheProofs ------------------------------
(***************************************************************************)
(* Theorems about the live cache, for any sections and wallets and any     *)
(* number of tasks at the same time.                                       *)
(***************************************************************************)
EXTENDS LiveCache, TLAPS

(* A wallet and a section never share a slot, nor do two sections.         *)
LEMMA SlotFacts ==
    /\ \A s, t \in Sections : s # t => SlotsOf(s) \intersect SlotsOf(t) = {}
    /\ \A w \in Wallets, s \in Sections : w \in SlotsOf(s) => s = WalletSec
    /\ \A k \in Kinds : Scope(k) \subseteq Slots
    /\ \A s \in Sections : SlotsOf(s) \subseteq Slots /\ Scope(s) = SlotsOf(s)
    /\ \A w \in Wallets : Scope(w) = {w}
  BY KindAssumption DEF Kinds, SlotsOf, Slots, Scope

(* Only the row's own fields and a task's locals have types worth keeping. *)
Typed ==
    /\ payload \in Payloads /\ total \in Payloads /\ issues \subseteq Sections
    /\ step \in [Kinds -> {"none", "mark", "compute", "read", "read error", "save", "save error"}]
    /\ result \in [Kinds -> Payloads]
    /\ failed \in [Kinds -> SUBSET Kinds]
    /\ seen \in [Kinds -> [payload : Payloads, total : Payloads, issues : SUBSET Sections]]
    /\ fetches \in 0..MaxFetch /\ faults \in Nat

(* What "save" may rely on: placeholders in a result are accounted for in  *)
(* failed, and only the full refresh goes through "read error".            *)
Accounted(k) ==
    /\ k = Full => /\ failed[k] \subseteq Sections
                   /\ \A s \in Sections :
                        (\E t \in SlotsOf(s) : result[k][t] = Empty) => s \in failed[k]
                   /\ step[k] # "read"
    /\ k # Full => /\ failed[k] \subseteq {k}
                   /\ (\E t \in Scope(k) : result[k][t] = Empty) => failed[k] = {k}
                   /\ step[k] \notin {"read error", "save error"}

(* A payload with its total and its notes: the row, or a copy of it.       *)
Coherent(p, t, i) ==
    /\ t = p
    /\ \A s \in Sections : (\E x \in SlotsOf(s) : p[x] = Empty) => s \in i

Inv ==
    /\ Typed
    /\ \A k \in Kinds : Accounted(k)
    /\ Coherent(payload, total, issues)
    /\ \A k \in Kinds : Coherent(seen[k].payload, seen[k].total, seen[k].issues)

LEMMA NothingFacts == Nothing \in Payloads /\ \A x \in Slots : Nothing[x] # Empty
  BY ValueAssumption DEF Nothing, Payloads, Contents

(* A task that ends leaves nothing to account for.                         *)
LEMMA EndStep ==
    ASSUME Inv, NEW k \in Kinds, End(k),
           payload' \in Payloads, total' \in Payloads, issues' \subseteq Sections,
           Coherent(payload', total', issues'), fetches' \in 0..MaxFetch, faults' \in Nat
    PROVE  Inv'
  <1> USE DEF Inv
  <1>1. Typed'
    BY NothingFacts DEF Typed, End, NotRead
  <1>2. \A j \in Kinds : Accounted(j)'
    <2> TAKE j \in Kinds
    <2>1. CASE j = k
      <3>1. step'[k] = "none" /\ result'[k] = Nothing /\ failed'[k] = {}
        BY DEF End, Typed
      <3>2. \A s \in Sections : \A t \in SlotsOf(s) : Nothing[t] # Empty
        BY NothingFacts, SlotFacts
      <3>3. \A t \in Scope(k) : Nothing[t] # Empty
        BY NothingFacts, SlotFacts
      <3> QED BY <2>1, <3>1, <3>2, <3>3 DEF Accounted
    <2>2. CASE j # k
      BY <2>2 DEF End, Typed, Accounted
    <2> QED BY <2>1, <2>2
  <1>3. \A j \in Kinds : Coherent(seen[j].payload, seen[j].total, seen[j].issues)'
    <2> TAKE j \in Kinds
    <2>1. CASE j = k
      <3>1. seen'[j] = NotRead BY <2>1 DEF End, Typed
      <3> QED BY <3>1, NothingFacts, SlotFacts DEF NotRead, Coherent
    <2>2. CASE j # k
      <3>1. seen'[j] = seen[j] BY <2>2 DEF End, Typed
      <3> QED BY <3>1 DEF Coherent
    <2> QED BY <2>1, <2>2
  <1> QED BY <1>1, <1>2, <1>3

LEMMA InvInit == Init => Inv
  <1> SUFFICES ASSUME Init PROVE Inv
    OBVIOUS
  <1> USE DEF Init
  <1>1. Typed BY NothingFacts, ValueAssumption DEF Typed, NotRead
  <1>2. \A k \in Kinds : Accounted(k) BY NothingFacts, SlotFacts DEF Accounted
  <1>3. Coherent(Nothing, Nothing, {}) BY NothingFacts, SlotFacts DEF Coherent
  <1> QED BY <1>1, <1>2, <1>3 DEF Inv, NotRead

(* The patched payload of a partial refresh, with the notes it writes.     *)
LEMMA PatchedSection ==
    ASSUME Inv, NEW k \in Sections
    PROVE  /\ Patched(k) \in Payloads
           /\ (seen[k].issues \ {k}) \union failed[k] \subseteq Sections
           /\ Coherent(Patched(k), Patched(k), (seen[k].issues \ {k}) \union failed[k])
  <1> USE KindAssumption DEF Inv
  <1>0. k \in Kinds /\ k # Full BY DEF Kinds
  <1>a. Accounted(k) /\ Coherent(seen[k].payload, seen[k].total, seen[k].issues)
    BY <1>0
  <1>b. result[k] \in Payloads /\ seen[k].payload \in Payloads
        /\ seen[k].issues \subseteq Sections
    BY <1>0 DEF Typed
  <1>1. Patched(k) \in Payloads
    BY <1>b DEF Patched, Payloads
  <1>2. (seen[k].issues \ {k}) \union failed[k] \subseteq Sections
    BY <1>0, <1>a, <1>b DEF Accounted
  <1>3. ASSUME NEW s \in Sections, NEW x \in SlotsOf(s), Patched(k)[x] = Empty
        PROVE  s \in (seen[k].issues \ {k}) \union failed[k]
    <2>1. CASE s = k
      <3>1. x \in Scope(k) /\ x \in Slots BY <2>1, SlotFacts
      <3>2. result[k][x] = Empty BY <3>1, <1>3 DEF Patched
      <3> QED BY <2>1, <3>1, <3>2, <1>0, <1>a DEF Accounted
    <2>2. CASE s # k
      <3>1. x \notin Scope(k) /\ x \in Slots BY <2>2, SlotFacts
      <3>2. seen[k].payload[x] = Empty BY <3>1, <1>3 DEF Patched
      <3> QED BY <1>3, <2>2, <3>2, <1>a DEF Coherent
    <2> QED BY <2>1, <2>2
  <1> QED BY <1>1, <1>2, <1>3 DEF Coherent

LEMMA PatchedWallet ==
    ASSUME Inv, NEW k \in Wallets, failed[k] = {}
    PROVE  /\ Patched(k) \in Payloads
           /\ Coherent(Patched(k), Patched(k), seen[k].issues)
  <1> USE KindAssumption DEF Inv
  <1>0. k \in Kinds /\ k # Full BY DEF Kinds
  <1>a. Accounted(k) /\ Coherent(seen[k].payload, seen[k].total, seen[k].issues)
    BY <1>0
  <1>b. result[k] \in Payloads /\ seen[k].payload \in Payloads
        /\ seen[k].issues \subseteq Sections
    BY <1>0 DEF Typed
  <1>1. Patched(k) \in Payloads
    BY <1>b DEF Patched, Payloads
  <1>2. ASSUME NEW s \in Sections, NEW x \in SlotsOf(s), Patched(k)[x] = Empty
        PROVE  s \in seen[k].issues
    <2>1. x \in Slots BY SlotFacts
    <2>2. x \notin Scope(k) BY <1>0, <1>a, <1>2, <2>1 DEF Patched, Accounted
    <2>3. seen[k].payload[x] = Empty BY <1>2, <2>1, <2>2 DEF Patched
    <2> QED BY <1>2, <2>3, <1>a DEF Coherent
  <1> QED BY <1>1, <1>2 DEF Coherent

-----------------------------------------------------------------------------
LEMMA FetchFacts ==
    ASSUME fetches \in 0..MaxFetch
    PROVE  NextFetch \in 0..MaxFetch /\ NextFetch \in Contents /\ NextFetch # Empty
  <1>1. MaxFetch \in Nat /\ MaxFetch > 0 BY ValueAssumption
  <1>2. NextFetch \in 1..MaxFetch BY <1>1 DEF NextFetch
  <1>3. NextFetch \in Nat /\ NextFetch \in 0..MaxFetch BY <1>1, <1>2
  <1> QED BY <1>2, <1>3, ValueAssumption DEF Contents

LEMMA FaultFacts == Typed /\ Fault => faults' \in Nat
  <1> SUFFICES ASSUME Typed, Fault PROVE faults' \in Nat
    OBVIOUS
  <1>1. faults \in Nat BY DEF Typed
  <1>2. faults' = faults + 1 BY DEF Fault
  <1> QED BY <1>1, <1>2

(* A step that leaves the row alone and gives one task a new place, result *)
(* and failures that are accounted for.                                    *)
LEMMA LocalStep ==
    ASSUME Inv, NEW k \in Kinds, UNCHANGED <<payload, total, issues, seen>>,
           NEW r \in Payloads, NEW f \in SUBSET Kinds,
           NEW p \in {"none", "mark", "compute", "read", "read error", "save", "save error"},
           step' = [step EXCEPT ![k] = p],
           result' = [result EXCEPT ![k] = r],
           failed' = [failed EXCEPT ![k] = f],
           fetches' \in 0..MaxFetch, faults' \in Nat,
           k = Full => /\ f \subseteq Sections /\ p # "read"
                       /\ \A s \in Sections :
                            (\E t \in SlotsOf(s) : r[t] = Empty) => s \in f,
           k # Full => /\ f \subseteq {k} /\ p \notin {"read error", "save error"}
                       /\ (\E t \in Scope(k) : r[t] = Empty) => f = {k}
    PROVE  Inv'
  <1> USE DEF Inv
  <1>1. Typed'
    BY DEF Typed
  <1>2. \A j \in Kinds : Accounted(j)'
    BY DEF Typed, Accounted
  <1>3. Coherent(payload, total, issues)'
    BY DEF Coherent
  <1>4. \A j \in Kinds : Coherent(seen[j].payload, seen[j].total, seen[j].issues)'
    BY DEF Coherent
  <1> QED BY <1>1, <1>2, <1>3, <1>4

LEMMA InvStep == Inv /\ [Next]_vars => Inv'
  <1> SUFFICES ASSUME Inv, [Next]_vars PROVE Inv'
    OBVIOUS
  <1> USE KindAssumption
  <1>0. Typed /\ (\A k \in Kinds : Accounted(k)) /\ Coherent(payload, total, issues)
        /\ \A k \in Kinds : Coherent(seen[k].payload, seen[k].total, seen[k].issues)
    BY DEF Inv
  <1>k. Full \in Kinds /\ Sections \subseteq Kinds /\ Wallets \subseteq Kinds
    BY DEF Kinds
  <1>f. \A k \in Kinds :
          /\ failed[k] \in SUBSET Kinds /\ result[k] \in Payloads
          /\ result = [result EXCEPT ![k] = result[k]]
          /\ failed = [failed EXCEPT ![k] = failed[k]]
    BY <1>0 DEF Typed
  (* Steps of a task that touch no data of the row. *)
  <1>1. ASSUME NEW k \in Kinds, NEW p \in {"mark", "compute", "read", "read error", "save", "save error"},
               step' = [step EXCEPT ![k] = p],
               k = Full => p # "read", k # Full => p \notin {"read error", "save error"},
               UNCHANGED <<payload, total, issues, local, fetches>>, faults' \in Nat
        PROVE  Inv'
    <2>1. fetches' \in 0..MaxFetch BY <1>1, <1>0 DEF Typed
    <2>2. result' = [result EXCEPT ![k] = result[k]] /\ failed' = [failed EXCEPT ![k] = failed[k]]
      BY <1>1, <1>f DEF local
    <2>3. Accounted(k) BY <1>0
    <2>4. UNCHANGED <<payload, total, issues, seen>> BY <1>1 DEF local
    <2>5. /\ k = Full => /\ failed[k] \subseteq Sections
                         /\ \A s \in Sections :
                              (\E t \in SlotsOf(s) : result[k][t] = Empty) => s \in failed[k]
          /\ k # Full => /\ failed[k] \subseteq {k}
                         /\ (\E t \in Scope(k) : result[k][t] = Empty) => failed[k] = {k}
      BY <2>3 DEF Accounted
    <2>6. result[k] \in Payloads /\ failed[k] \in SUBSET Kinds BY <1>f
    <2> QED BY <1>1, <2>1, <2>2, <2>4, <2>5, <2>6, LocalStep
  <1>2. ASSUME NEW k \in Kinds, End(k), UNCHANGED <<payload, total, issues, fetches>>, faults' \in Nat
        PROVE  Inv'
    BY <1>2, <1>0, EndStep DEF Typed, Coherent
  <1>3. CASE GetLive \/ ForceRefresh \/ Age
    BY <1>3, <1>0 DEF GetLive, ForceRefresh, Age, Inv, Typed, Accounted, Coherent, row, local
  <1>4. CASE LaunchFull
    <2>1. CASE step' = step
      BY <2>1, <1>4, <1>0 DEF LaunchFull, Inv, Typed, Accounted, Coherent, row, local
    <2>2. CASE step' = [step EXCEPT ![Full] = "mark"]
      BY <2>2, <1>4, <1>1, <1>0, <1>k DEF LaunchFull, Typed, row
    <2> QED BY <2>1, <2>2, <1>4 DEF LaunchFull
  <1>5. ASSUME NEW k \in Sections \union Wallets, Launch(k) PROVE Inv'
    BY <1>5, <1>1, <1>0, <1>k DEF Launch, Typed, row
  <1>6. ASSUME NEW k \in Kinds, Mark(k) \/ MarkFails(k) PROVE Inv'
    <2>a. UNCHANGED <<payload, total, issues, fetches>> /\ (UNCHANGED faults \/ Fault)
      BY <1>6 DEF Mark, MarkFails, row
    <2>0. faults' \in Nat /\ UNCHANGED <<payload, total, issues, fetches>>
      BY <2>a, <1>0, FaultFacts DEF Typed
    <2>1. CASE step' = [step EXCEPT ![k] = "compute"] /\ UNCHANGED local
      BY <2>0, <2>1, <1>1
    <2>2. CASE End(k)
      BY <2>0, <2>2, <1>2
    <2> QED BY <2>1, <2>2, <1>6 DEF Mark, MarkFails
  <1>7. ASSUME NEW k \in Kinds, Gather(k) PROVE Inv'
    <2>1. PICK bad \in SUBSET Sections :
            /\ failed' = [failed EXCEPT ![k] = bad]
            /\ result' = [result EXCEPT ![k] =
                 [s \in Slots |-> IF \E b \in bad : s \in SlotsOf(b) THEN Empty ELSE NextFetch]]
      BY <1>7 DEF Gather
    <2> DEFINE r == [s \in Slots |-> IF \E b \in bad : s \in SlotsOf(b) THEN Empty ELSE NextFetch]
    <2>2. NextFetch \in 0..MaxFetch /\ NextFetch \in Contents /\ NextFetch # Empty
      BY <1>0, FetchFacts DEF Typed
    <2>3. r \in Payloads
      BY <2>2 DEF Payloads, Contents
    <2>4. ASSUME NEW s \in Sections, NEW t \in SlotsOf(s), r[t] = Empty PROVE s \in bad
      <3>1. t \in Slots BY SlotFacts
      <3>2. PICK b \in bad : t \in SlotsOf(b) BY <2>2, <2>4, <3>1
      <3> QED BY <3>2, SlotFacts
    <2> HIDE DEF r
    <2>5. /\ k = Full /\ step' = [step EXCEPT ![k] = "save"]
          /\ fetches' \in 0..MaxFetch /\ faults' \in Nat
          /\ UNCHANGED <<payload, total, issues, seen>>
      BY <1>7, <1>0, <2>2 DEF Gather, Typed, row
    <2>6. bad \in SUBSET Kinds /\ result' = [result EXCEPT ![k] = r]
      BY <2>1, <1>k DEF r
    <2> QED BY <2>1, <2>3, <2>4, <2>5, <2>6, LocalStep
  <1>8. ASSUME NEW k \in Kinds, GatherFails(k) PROVE Inv'
    BY <1>8, <1>1, <1>0 DEF GatherFails, Typed, row
  <1>9. ASSUME NEW k \in Kinds, ComputePart(k) PROVE Inv'
    <2> DEFINE r == [s \in Slots |-> IF s \in Scope(k) THEN NextFetch ELSE Absent]
    <2>1. NextFetch \in 0..MaxFetch /\ NextFetch \in Contents /\ NextFetch # Empty
      BY <1>0, FetchFacts DEF Typed
    <2>2. r \in Payloads /\ \A t \in Slots : r[t] # Empty
      BY <2>1, ValueAssumption DEF Payloads, Contents
    <2> HIDE DEF r
    <2>3. \A t \in Scope(k) : r[t] # Empty
      BY <2>2, SlotFacts
    <2>4. /\ k # Full /\ step' = [step EXCEPT ![k] = "read"]
          /\ result' = [result EXCEPT ![k] = r] /\ failed' = [failed EXCEPT ![k] = failed[k]]
          /\ fetches' \in 0..MaxFetch /\ faults' \in Nat
          /\ UNCHANGED <<payload, total, issues, seen>>
      BY <1>9, <1>0, <1>f, <2>1 DEF ComputePart, Typed, row, r
    <2>5. failed[k] \subseteq {k} BY <2>4, <1>0 DEF Accounted
    <2> QED BY <2>2, <2>3, <2>4, <2>5, <1>f, LocalStep
  <1>10. ASSUME NEW k \in Kinds, ComputePartFails(k) PROVE Inv'
    <2> DEFINE r == [s \in Slots |-> IF s \in Scope(k) THEN Empty ELSE Absent]
    <2>1. r \in Payloads BY DEF Payloads, Contents
    <2> HIDE DEF r
    <2>2. /\ k # Full /\ step' = [step EXCEPT ![k] = "read"]
          /\ result' = [result EXCEPT ![k] = r] /\ failed' = [failed EXCEPT ![k] = {k}]
          /\ fetches' \in 0..MaxFetch /\ faults' \in Nat
          /\ UNCHANGED <<payload, total, issues, seen>>
      BY <1>10, <1>0 DEF ComputePartFails, Typed, row, r
    <2>3. {k} \in SUBSET Kinds OBVIOUS
    <2> QED BY <2>1, <2>2, <2>3, LocalStep
  <1>11. ASSUME NEW k \in Kinds, ComputeCancelled(k) PROVE Inv'
    <2>1. Fault /\ UNCHANGED <<payload, total, issues, fetches>> /\ End(k)
      BY <1>11 DEF ComputeCancelled, row
    <2>2. faults' \in Nat BY <2>1, <1>0, FaultFacts
    <2> QED BY <2>1, <2>2, <1>2
  <1>12. ASSUME NEW k \in Kinds, Read(k) PROVE Inv'
    <2>1. CASE End(k)
      BY <2>1, <1>12, <1>2, <1>0 DEF Read, Typed, row
    <2>2. CASE /\ seen' = [seen EXCEPT ![k] =
                    [payload |-> payload, total |-> total, issues |-> issues]]
               /\ step' = [step EXCEPT ![k] = IF @ = "read" THEN "save" ELSE "save error"]
               /\ UNCHANGED <<result, failed>>
      <3>1. Typed' BY <2>2, <1>12, <1>0 DEF Read, Typed, row
      <3>2. \A j \in Kinds : Accounted(j)'
        BY <2>2, <1>12, <1>0 DEF Read, Typed, Accounted
      <3>3. Coherent(payload, total, issues)'
        BY <1>12, <1>0 DEF Read, row, Coherent
      <3>4. \A j \in Kinds : Coherent(seen[j].payload, seen[j].total, seen[j].issues)'
        <4> TAKE j \in Kinds
        <4>1. CASE j = k
          <5>1. seen'[j] = [payload |-> payload, total |-> total, issues |-> issues]
            BY <4>1, <2>2, <1>0 DEF Typed
          <5> QED BY <5>1, <1>0 DEF Coherent
        <4>2. CASE j # k
          <5>1. seen'[j] = seen[j] BY <4>2, <2>2, <1>0 DEF Typed
          <5> QED BY <5>1, <1>0 DEF Coherent
        <4> QED BY <4>1, <4>2
      <3> QED BY <3>1, <3>2, <3>3, <3>4 DEF Inv
    <2> QED BY <2>1, <2>2, <1>12 DEF Read
  <1>13. ASSUME NEW k \in Kinds, Save(k) PROVE Inv'
    <2>0. /\ End(k) /\ fetches' \in 0..MaxFetch /\ faults' \in Nat
      BY <1>13, <1>0 DEF Save, SaveFull, SaveError, SaveSection, SaveWallet,
         SaveWalletUnchanged, Typed
    <2>1. CASE SaveFull(k)
      <3>1. payload' \in Payloads /\ total' \in Payloads /\ issues' \subseteq Sections
        BY <2>1, <1>0 DEF SaveFull, Typed, Accounted
      <3>2. Coherent(payload', total', issues')
        BY <2>1, <1>0 DEF SaveFull, Accounted, Coherent
      <3> QED BY <2>0, <3>1, <3>2, EndStep
    <2>2. CASE SaveError(k) \/ SaveWalletUnchanged(k)
      <3>1. payload' = seen[k].payload /\ total' = seen[k].total /\ issues' = seen[k].issues
        BY <2>2 DEF SaveError, SaveWalletUnchanged
      <3>2. payload' \in Payloads /\ total' \in Payloads /\ issues' \subseteq Sections
        BY <3>1, <1>0 DEF Typed
      <3>3. Coherent(payload', total', issues') BY <3>1, <1>0
      <3> QED BY <2>0, <3>2, <3>3, EndStep
    <2>3. CASE SaveSection(k)
      <3>1. k \in Sections /\ payload' = Patched(k) /\ total' = Patched(k)
            /\ issues' = (seen[k].issues \ {k}) \union failed[k]
        BY <2>3 DEF SaveSection
      <3> QED BY <2>0, <3>1, PatchedSection, EndStep
    <2>4. CASE SaveWallet(k)
      <3>1. k \in Wallets /\ failed[k] = {} /\ payload' = Patched(k) /\ total' = Patched(k)
            /\ issues' = seen[k].issues
        BY <2>4 DEF SaveWallet
      <3>2. issues' \subseteq Sections BY <3>1, <1>0 DEF Typed
      <3> QED BY <2>0, <3>1, <3>2, PatchedWallet, EndStep
    <2> QED BY <1>13, <2>1, <2>2, <2>3, <2>4 DEF Save
  <1>14. ASSUME NEW k \in Kinds, AccessFails(k) PROVE Inv'
    <2>1. Fault /\ UNCHANGED <<payload, total, issues, fetches>> /\ End(k)
      BY <1>14 DEF AccessFails, row
    <2>2. faults' \in Nat BY <2>1, <1>0, FaultFacts
    <2> QED BY <2>1, <2>2, <1>2
  <1>15. CASE Crash
    <2>0. faults' \in Nat BY <1>15, <1>0, FaultFacts DEF Crash
    <2>1. Typed' BY <1>15, <1>0, <2>0, NothingFacts DEF Crash, Typed, NotRead, row
    <2>2. \A k \in Kinds : Accounted(k)'
      BY <1>15, NothingFacts, SlotFacts DEF Crash, Accounted
    <2>3. Coherent(Nothing, Nothing, {}) BY NothingFacts, SlotFacts DEF Coherent
    <2>4. \A k \in Kinds : seen'[k] = NotRead BY <1>15 DEF Crash
    <2>5. \A k \in Kinds : Coherent(seen[k].payload, seen[k].total, seen[k].issues)'
      BY <2>3, <2>4 DEF NotRead, Coherent
    <2>6. Coherent(payload, total, issues)'
      BY <1>15, <1>0 DEF Crash, row, Coherent
    <2> QED BY <2>1, <2>2, <2>5, <2>6 DEF Inv
  <1>16. CASE UNCHANGED vars
    BY <1>16, <1>0 DEF vars, row, local, Inv, Typed, Accounted, Coherent
  <1> QED
    BY <1>3, <1>4, <1>5, <1>6, <1>7, <1>8, <1>9, <1>10, <1>11, <1>12, <1>13, <1>14, <1>15, <1>16
    DEF Next, LaunchSection, LaunchWallet, TaskStep, Compute

LEMMA InvAlways == Spec => []Inv
  BY InvInit, InvStep, PTL DEF Spec

(* The total shown is that of the payload shown, under any interleaving.   *)
THEOREM TotalIsRight == Spec => []TotalMatchesPayload
  <1>1. Inv => TotalMatchesPayload BY DEF Inv, Coherent, TotalMatchesPayload
  <1> QED BY <1>1, InvAlways, PTL

(* A section that is empty because it failed is marked as failed, under    *)
(* any interleaving.                                                       *)
THEOREM FailuresAreVisible == Spec => []FailureIsVisible
  <1>1. Inv => FailureIsVisible BY DEF Inv, Coherent, FailureIsVisible
  <1> QED BY <1>1, InvAlways, PTL

-----------------------------------------------------------------------------
(* A row that shows "refreshing" has a task that will write another status *)
(* (unless a fault intervenes), and a task past its mark has a row to      *)
(* write it to.                                                            *)
Early == {"none", "mark"}

Announced ==
    faults = 0 =>
      /\ status = "refreshing" => \E k \in Kinds : step[k] \notin Early
      /\ \A k \in Kinds : step[k] \notin Early => exists

LEMMA AnnouncedStep == Inv /\ Announced /\ [Next]_vars => Announced'
  <1> SUFFICES ASSUME Inv, Announced, [Next]_vars PROVE Announced'
    OBVIOUS
  <1>0. /\ faults \in Nat
        /\ step \in [Kinds -> {"none", "mark", "compute", "read", "read error", "save", "save error"}]
    BY DEF Inv, Typed
  <1>k. Full \in Kinds /\ Sections \subseteq Kinds /\ Wallets \subseteq Kinds
    BY DEF Kinds
  <1>1. CASE Fault
    <2>1. faults' = faults + 1 BY <1>1 DEF Fault
    <2>2. faults \in Nat BY <1>0
    <2>3. faults' # 0 BY <2>1, <2>2
    <2> QED BY <2>3 DEF Announced
  <1>2. ASSUME NEW k \in Kinds, NEW p, step' = [step EXCEPT ![k] = p],
               step[k] \in Early <=> p \in Early, UNCHANGED <<exists, status, faults>>
        PROVE  Announced'
    <2>1. \A j \in Kinds : step[j] \in Early <=> step'[j] \in Early
      BY <1>2, <1>0
    <2> QED BY <1>2, <2>1 DEF Announced
  <1>3. ASSUME UNCHANGED <<exists, status, faults, step>> PROVE Announced'
    BY <1>3 DEF Announced
  <1>4. ASSUME NEW k \in Kinds, exists' = TRUE, status' \in {"ok", "error"}
        PROVE  Announced'
    BY <1>4 DEF Announced
  <1>5. CASE GetLive \/ ForceRefresh \/ Age
    BY <1>5, <1>3 DEF GetLive, ForceRefresh, Age, row
  <1>6. CASE LaunchFull
    <2>1. UNCHANGED <<exists, status, faults>> BY <1>6 DEF LaunchFull, row
    <2>2. CASE UNCHANGED step BY <2>1, <2>2, <1>3
    <2>3. CASE step[Full] = "none" /\ step' = [step EXCEPT ![Full] = "mark"]
      BY <2>1, <2>3, <1>2, <1>k DEF Early
    <2> QED BY <1>6, <2>2, <2>3 DEF LaunchFull
  <1>7. ASSUME NEW k \in Sections \union Wallets, Launch(k) PROVE Announced'
    BY <1>7, <1>2, <1>k DEF Launch, row, Early
  <1>8. ASSUME NEW k \in Kinds, Mark(k) PROVE Announced'
    <2>1. exists' = TRUE /\ step' = [step EXCEPT ![k] = "compute"] BY <1>8 DEF Mark
    <2>2. step'[k] \notin Early BY <2>1, <1>0 DEF Early
    <2> QED BY <2>1, <2>2 DEF Announced
  <1>9. ASSUME NEW k \in Kinds, Gather(k) \/ GatherFails(k) \/ ComputePart(k) \/ ComputePartFails(k)
        PROVE  Announced'
    <2>1. /\ UNCHANGED <<exists, status, faults>> /\ step[k] = "compute"
          /\ \E p \in {"save", "read error", "read"} : step' = [step EXCEPT ![k] = p]
      BY <1>9 DEF Gather, GatherFails, ComputePart, ComputePartFails, row
    <2> QED BY <2>1, <1>2 DEF Early
  <1>10. ASSUME NEW k \in Kinds, Read(k) PROVE Announced'
    <2>0. UNCHANGED <<exists, status, faults>> /\ step[k] \in {"read", "read error"}
      BY <1>10 DEF Read, row
    <2>1. CASE ~exists
      <3>1. faults # 0 BY <2>0, <2>1 DEF Announced, Early
      <3> QED BY <3>1, <2>0 DEF Announced
    <2>2. CASE step' = [step EXCEPT ![k] = IF @ = "read" THEN "save" ELSE "save error"]
      <3>1. \E p \in {"save", "save error"} : step' = [step EXCEPT ![k] = p]
        BY <2>2, <1>0
      <3> QED BY <3>1, <2>0, <1>2 DEF Early
    <2> QED BY <1>10, <2>1, <2>2 DEF Read
  <1>11. ASSUME NEW k \in Kinds, Save(k) PROVE Announced'
    BY <1>11, <1>4 DEF Save, SaveFull, SaveError, SaveSection, SaveWallet, SaveWalletUnchanged
  <1>12. CASE UNCHANGED vars
    BY <1>12, <1>3 DEF vars, row
  <1>13. ASSUME NEW k \in Kinds, MarkFails(k) \/ ComputeCancelled(k) \/ AccessFails(k) \/ Crash
         PROVE  Fault
    BY <1>13 DEF MarkFails, ComputeCancelled, AccessFails, Crash
  <1> QED
    BY <1>1, <1>5, <1>6, <1>7, <1>8, <1>9, <1>10, <1>11, <1>12, <1>13, <1>k
    DEF Next, LaunchSection, LaunchWallet, TaskStep, Compute

(* No way through a task leaves "refreshing" behind, whichever other tasks *)
(* it meets, as long as nothing crashes and no write fails.                *)
THEOREM RefreshingEnds == Spec => []NothingLeftRefreshing
  <1>1. Init => Announced BY DEF Init, Announced, Early
  <1>2. Announced => NothingLeftRefreshing
    BY DEF Announced, NothingLeftRefreshing, Running, Early
  <1>3. Spec => []Announced BY <1>1, AnnouncedStep, InvAlways, PTL DEF Spec
  <1> QED BY <1>2, <1>3, PTL

-----------------------------------------------------------------------------
(* The parts of TypeOK the invariant above has no use for.                 *)
RestTyped ==
    /\ exists \in BOOLEAN
    /\ status \in {"ok", "refreshing", "error"}
    /\ refreshed \in {"never", "fresh", "stale"}
    /\ queued \in 0..MaxQueued
    /\ faults \in 0..MaxFaults

LEMMA RestInit == Init => RestTyped
  <1>1. MaxQueued \in Nat /\ MaxFaults \in Nat BY ValueAssumption
  <1>2. 0 \in 0..MaxQueued /\ 0 \in 0..MaxFaults BY <1>1
  <1> QED BY <1>2 DEF Init, RestTyped

LEMMA RestStep == RestTyped /\ [Next]_vars => RestTyped'
  <1> SUFFICES ASSUME RestTyped, [Next]_vars PROVE RestTyped'
    OBVIOUS
  <1>1. MaxQueued \in Nat /\ MaxFaults \in Nat BY ValueAssumption
  <1>2. exists' = exists \/ exists' = TRUE
    BY DEF Next, vars, row, GetLive, ForceRefresh, LaunchFull, LaunchSection,
       LaunchWallet, Launch, TaskStep, Mark, MarkFails, Compute, Gather, GatherFails,
       ComputePart, ComputePartFails, ComputeCancelled, Read, Save, SaveFull, SaveError,
       SaveSection, SaveWallet, SaveWalletUnchanged, AccessFails, Crash, Age
  <1>a. UNCHANGED status \/ status' \in {"ok", "refreshing", "error"}
    BY DEF Next, vars, row, GetLive, ForceRefresh, LaunchFull, LaunchSection,
       LaunchWallet, Launch, TaskStep, Mark, MarkFails, Compute, Gather, GatherFails,
       ComputePart, ComputePartFails, ComputeCancelled, Read, Save, SaveFull, SaveError,
       SaveSection, SaveWallet, SaveWalletUnchanged, AccessFails, Crash, Age
  <1>b. UNCHANGED refreshed \/ refreshed' \in {"never", "fresh", "stale"}
    BY DEF Next, vars, row, GetLive, ForceRefresh, LaunchFull, LaunchSection,
       LaunchWallet, Launch, TaskStep, Mark, MarkFails, Compute, Gather, GatherFails,
       ComputePart, ComputePartFails, ComputeCancelled, Read, Save, SaveFull, SaveError,
       SaveSection, SaveWallet, SaveWalletUnchanged, AccessFails, Crash, Age
  <1>3. UNCHANGED faults \/ Fault
    BY DEF Next, vars, GetLive, ForceRefresh, LaunchFull, LaunchSection,
       LaunchWallet, Launch, TaskStep, Mark, MarkFails, Compute, Gather, GatherFails,
       ComputePart, ComputePartFails, ComputeCancelled, Read, Save, SaveFull, SaveError,
       SaveSection, SaveWallet, SaveWalletUnchanged, AccessFails, Crash, Age
  <1>4. \/ UNCHANGED queued
        \/ queued < MaxQueued /\ queued' = queued + 1
        \/ queued > 0 /\ queued' = queued - 1
        \/ queued' = 0
    BY DEF Next, vars, GetLive, ForceRefresh, LaunchFull, LaunchSection,
       LaunchWallet, Launch, TaskStep, Mark, MarkFails, Compute, Gather, GatherFails,
       ComputePart, ComputePartFails, ComputeCancelled, Read, Save, SaveFull, SaveError,
       SaveSection, SaveWallet, SaveWalletUnchanged, AccessFails, Crash, Age
  <1>5. faults' \in 0..MaxFaults
    <2>1. faults \in 0..MaxFaults BY DEF RestTyped
    <2>2. Fault => faults < MaxFaults /\ faults' = faults + 1 BY DEF Fault
    <2> QED BY <1>1, <1>3, <2>1, <2>2
  <1>6. queued' \in 0..MaxQueued
    <2>1. queued \in 0..MaxQueued BY DEF RestTyped
    <2> QED BY <1>1, <1>4, <2>1
  <1>7. exists' \in BOOLEAN BY <1>2 DEF RestTyped
  <1> QED BY <1>7, <1>a, <1>b, <1>5, <1>6 DEF RestTyped

(* Every variable keeps its type.                                          *)
THEOREM TypeCorrect == Spec => []TypeOK
  <1>1. Spec => []RestTyped BY RestInit, RestStep, PTL DEF Spec
  <1>2. Inv /\ RestTyped => TypeOK BY DEF Inv, Typed, RestTyped, TypeOK
  <1> QED BY <1>1, <1>2, InvAlways, PTL

-----------------------------------------------------------------------------
(* What the partial refreshes promise: that no other task saves while one  *)
(* holds what it fetched or read, however their computations overlap, is   *)
(* enough for it.  (Tasks that run one at a time are the special case the  *)
(* run checks; two that save into each other's windows break the promise.) *)

(* Between its fetch, or its reading of the row, and its save.             *)
InWindow(k) == step[k] \in {"read", "save", "save error"}
SavesApart == \A k \in Kinds : Save(k) => \A j \in Kinds \ {k} : ~InWindow(j)

(* A task about to save has read the row as it still is.                   *)
ReadIsCurrent ==
    \A k \in Kinds : step[k] = "save error" \/ (step[k] = "save" /\ k # Full) =>
        seen[k].payload = payload

(* Nothing is newer than the last fetch, and what a task is about to save  *)
(* is no older than what the row holds.                                    *)
NumbersFit ==
    /\ \A s \in Slots : payload[s] \in Nat => payload[s] <= fetches
    /\ \A k \in Kinds : step[k] \in {"read", "save"} =>
          \A s \in Slots : result[k][s] \in Nat =>
             result[k][s] <= fetches /\ (payload[s] \in Nat => payload[s] <= result[k][s])

ApartInv == Inv /\ ReadIsCurrent /\ NumbersFit

LEMMA ApartInit == Init => ApartInv
  <1> SUFFICES ASSUME Init PROVE ApartInv
    OBVIOUS
  <1>1. ReadIsCurrent BY DEF Init, ReadIsCurrent
  <1>2. NumbersFit BY ValueAssumption DEF Init, NumbersFit, Nothing
  <1> QED BY <1>1, <1>2, InvInit DEF ApartInv

(* Where the row's contents come from when a task saves: from the task,    *)
(* inside its scope, and from the row itself elsewhere.                    *)
LEMMA SaveSources ==
    ASSUME ApartInv, NEW k \in Kinds, Save(k), NEW s \in Slots
    PROVE  payload'[s] = payload[s]
           \/ (s \in Scope(k) /\ step[k] = "save" /\ payload'[s] = result[k][s])
  <1> USE KindAssumption
  <1>0. ReadIsCurrent BY DEF ApartInv
  <1>1. CASE SaveFull(k)
    BY <1>1 DEF SaveFull, Scope
  <1>2. CASE SaveError(k)
    <2>1. seen[k].payload = payload BY <1>0, <1>2 DEF ReadIsCurrent, SaveError
    <2> QED BY <2>1, <1>2 DEF SaveError
  <1>3. CASE SaveSection(k) \/ SaveWallet(k)
    <2>1. k # Full /\ step[k] = "save" /\ payload' = Patched(k)
      BY <1>3 DEF SaveSection, SaveWallet
    <2>2. seen[k].payload = payload BY <1>0, <2>1 DEF ReadIsCurrent
    <2> QED BY <2>1, <2>2 DEF Patched
  <1>4. CASE SaveWalletUnchanged(k)
    <2>1. k # Full /\ step[k] = "save" /\ payload' = seen[k].payload
      BY <1>4 DEF SaveWalletUnchanged
    <2>2. seen[k].payload = payload BY <1>0, <2>1 DEF ReadIsCurrent
    <2> QED BY <2>1, <2>2
  <1> QED BY <1>1, <1>2, <1>3, <1>4 DEF Save

LEMMA SaveFacts ==
    ASSUME NEW k \in Kinds, Save(k)
    PROVE  End(k) /\ fetches' = fetches
  BY DEF Save, SaveFull, SaveError, SaveSection, SaveWallet, SaveWalletUnchanged

(* Steps other than saves leave the payload alone.                         *)
LEMMA OnlySavesWrite ==
    ASSUME [Next]_vars, payload' # payload
    PROVE  \E k \in Kinds : Save(k)
  BY DEF Next, vars, row, GetLive, ForceRefresh, LaunchFull, LaunchSection, LaunchWallet,
     Launch, TaskStep, Mark, MarkFails, Compute, Gather, GatherFails, ComputePart,
     ComputePartFails, ComputeCancelled, Read, AccessFails, Crash, Age

-----------------------------------------------------------------------------
LEMMA ApartStep == ApartInv /\ [Next /\ SavesApart]_vars => ApartInv'
  <1> SUFFICES ASSUME ApartInv, [Next /\ SavesApart]_vars PROVE ApartInv'
    OBVIOUS
  <1>t. Inv /\ Typed /\ ReadIsCurrent /\ NumbersFit
    BY DEF ApartInv, Inv
  <1>s. step \in [Kinds -> {"none", "mark", "compute", "read", "read error", "save", "save error"}]
        /\ result \in [Kinds -> Payloads]
    BY <1>t DEF Typed
  <1>i. Inv' BY <1>t, InvStep
  <1>n. fetches \in Nat /\ fetches' \in Nat
    <2>1. fetches \in 0..MaxFetch /\ fetches' \in 0..MaxFetch BY <1>i, <1>t DEF Inv, Typed
    <2> QED BY <2>1, ValueAssumption
  <1>k. Full \in Kinds /\ Sections \subseteq Kinds /\ Wallets \subseteq Kinds
    BY DEF Kinds
  <1> SUFFICES ReadIsCurrent' /\ NumbersFit'
    BY <1>i DEF ApartInv
  (* Steps that leave the data alone and move nobody to "read" or "save". *)
  <1>1. ASSUME UNCHANGED <<payload, result, seen, fetches>>,
               \A k \in Kinds : step'[k] # step[k] => step'[k] \in {"none", "mark", "compute", "read error"}
        PROVE  ReadIsCurrent' /\ NumbersFit'
    BY <1>1, <1>t DEF ReadIsCurrent, NumbersFit
  (* A task ends, and the row stays as it is. *)
  <1>2. ASSUME NEW k \in Kinds, End(k), UNCHANGED <<payload, fetches>>
        PROVE  ReadIsCurrent' /\ NumbersFit'
    <2>1. /\ step'[k] = "none"
          /\ \A j \in Kinds : j # k =>
               step'[j] = step[j] /\ result'[j] = result[j] /\ seen'[j] = seen[j]
      BY <1>2, <1>s, <1>t DEF End, Typed
    <2> QED BY <1>2, <2>1, <1>t DEF ReadIsCurrent, NumbersFit
  <1>4. CASE GetLive \/ ForceRefresh \/ Age \/ UNCHANGED vars
    BY <1>4, <1>1 DEF GetLive, ForceRefresh, Age, row, local, vars
  <1>5. CASE LaunchFull
    <2>1. UNCHANGED <<payload, result, seen, fetches>> BY <1>5 DEF LaunchFull, row, local
    <2>2. \A k \in Kinds : step'[k] # step[k] => step'[k] = "mark"
      BY <1>5, <1>s DEF LaunchFull
    <2> QED BY <2>1, <2>2, <1>1
  <1>6. ASSUME NEW k \in Sections \union Wallets, Launch(k)
        PROVE  ReadIsCurrent' /\ NumbersFit'
    <2>1. UNCHANGED <<payload, result, seen, fetches>> BY <1>6 DEF Launch, row, local
    <2>2. \A j \in Kinds : step'[j] # step[j] => step'[j] = "mark"
      BY <1>6, <1>s DEF Launch
    <2> QED BY <2>1, <2>2, <1>1
  <1>7. ASSUME NEW k \in Kinds, Mark(k) \/ MarkFails(k)
        PROVE  ReadIsCurrent' /\ NumbersFit'
    <2>1. UNCHANGED <<payload, fetches>>
      BY <1>7 DEF Mark, MarkFails, row
    <2>2. CASE End(k) BY <2>1, <2>2, <1>2
    <2>3. CASE step' = [step EXCEPT ![k] = "compute"] /\ UNCHANGED local
      <3>1. \A j \in Kinds : step'[j] # step[j] => step'[j] = "compute" BY <2>3, <1>s
      <3> QED BY <2>1, <2>3, <3>1, <1>1 DEF local
    <2> QED BY <1>7, <2>2, <2>3 DEF Mark, MarkFails
  <1>8. ASSUME NEW k \in Kinds, GatherFails(k)
        PROVE  ReadIsCurrent' /\ NumbersFit'
    <2>1. UNCHANGED <<payload, result, seen, fetches>> BY <1>8 DEF GatherFails, row, local
    <2>2. \A j \in Kinds : step'[j] # step[j] => step'[j] = "read error"
      BY <1>8, <1>s DEF GatherFails
    <2> QED BY <2>1, <2>2, <1>1
  (* A computation: its result carries the new number, older ones fit. *)
  <1>9. ASSUME NEW k \in Kinds, step[k] = "compute", UNCHANGED <<payload, seen>>,
               fetches' = fetches \/ fetches' = fetches + 1,
               NEW r, result' = [result EXCEPT ![k] = r],
               \A s \in Slots : r[s] \in Nat => r[s] = fetches',
               NEW p \in {"read", "save"}, p = "save" => k = Full,
               step' = [step EXCEPT ![k] = p]
        PROVE  ReadIsCurrent' /\ NumbersFit'
    <2>1. \A j \in Kinds : j # k => step'[j] = step[j] /\ result'[j] = result[j]
      BY <1>9, <1>s
    <2>2. step'[k] = p /\ result'[k] = r
      BY <1>9, <1>s
    <2>3. ReadIsCurrent'
      BY <2>1, <2>2, <1>9, <1>t DEF ReadIsCurrent
    <2>4. fetches <= fetches' BY <1>9, <1>n
    <2>5. \A s \in Slots : payload'[s] \in Nat => payload'[s] <= fetches'
      BY <1>9, <1>n, <1>t, <2>4 DEF NumbersFit
    <2>6. ASSUME NEW j \in Kinds, step'[j] \in {"read", "save"},
                 NEW s \in Slots, result'[j][s] \in Nat
          PROVE  /\ result'[j][s] <= fetches'
                 /\ payload'[s] \in Nat => payload'[s] <= result'[j][s]
      <3>1. CASE j = k BY <3>1, <2>2, <2>5, <2>6, <1>9, <1>n
      <3>2. CASE j # k
        <4>1. result[j][s] <= fetches /\ (payload[s] \in Nat => payload[s] <= result[j][s])
          BY <3>2, <2>1, <2>6, <1>t DEF NumbersFit
        <4> QED BY <3>2, <4>1, <2>1, <2>4, <2>6, <1>9, <1>n
      <3> QED BY <3>1, <3>2
    <2> QED BY <2>3, <2>5, <2>6 DEF NumbersFit
  <1>10. ASSUME NEW k \in Kinds, Gather(k)
         PROVE  ReadIsCurrent' /\ NumbersFit'
    <2>1. PICK bad \in SUBSET Sections :
            result' = [result EXCEPT ![k] =
              [s \in Slots |-> IF \E b \in bad : s \in SlotsOf(b) THEN Empty ELSE NextFetch]]
      BY <1>10 DEF Gather
    <2> DEFINE r == [s \in Slots |-> IF \E b \in bad : s \in SlotsOf(b) THEN Empty ELSE NextFetch]
    <2>2. step[k] = "compute" /\ UNCHANGED <<payload, seen>> /\ fetches' = NextFetch /\ k = Full
          /\ step' = [step EXCEPT ![k] = "save"]
      BY <1>10 DEF Gather, row
    <2>3. \A s \in Slots : r[s] \in Nat => r[s] = fetches'
      BY <2>2, ValueAssumption
    <2>4. fetches' = fetches \/ fetches' = fetches + 1 BY <2>2 DEF NextFetch
    <2>5. result' = [result EXCEPT ![k] = r] BY <2>1
    <2> HIDE DEF r
    <2> QED BY <2>2, <2>3, <2>4, <2>5, <1>9
  <1>11. ASSUME NEW k \in Kinds, ComputePart(k)
         PROVE  ReadIsCurrent' /\ NumbersFit'
    <2> DEFINE r == [s \in Slots |-> IF s \in Scope(k) THEN NextFetch ELSE Absent]
    <2>2. step[k] = "compute" /\ UNCHANGED <<payload, seen>> /\ fetches' = NextFetch
          /\ step' = [step EXCEPT ![k] = "read"] /\ result' = [result EXCEPT ![k] = r]
      BY <1>11 DEF ComputePart, row
    <2>3. \A s \in Slots : r[s] \in Nat => r[s] = fetches'
      BY <2>2, ValueAssumption
    <2>4. fetches' = fetches \/ fetches' = fetches + 1 BY <2>2 DEF NextFetch
    <2> HIDE DEF r
    <2> QED BY <2>2, <2>3, <2>4, <1>9
  <1>12. ASSUME NEW k \in Kinds, ComputePartFails(k)
         PROVE  ReadIsCurrent' /\ NumbersFit'
    <2> DEFINE r == [s \in Slots |-> IF s \in Scope(k) THEN Empty ELSE Absent]
    <2>2. step[k] = "compute" /\ UNCHANGED <<payload, seen>> /\ fetches' = fetches
          /\ step' = [step EXCEPT ![k] = "read"] /\ result' = [result EXCEPT ![k] = r]
      BY <1>12 DEF ComputePartFails, row
    <2>3. \A s \in Slots : r[s] \in Nat => r[s] = fetches'
      BY ValueAssumption
    <2> HIDE DEF r
    <2> QED BY <2>2, <2>3, <1>9
  <1>13. ASSUME NEW k \in Kinds, Read(k)
         PROVE  ReadIsCurrent' /\ NumbersFit'
    <2>0. UNCHANGED <<payload, fetches>> /\ step[k] \in {"read", "read error"}
      BY <1>13 DEF Read, row
    <2>1. CASE End(k) BY <2>0, <2>1, <1>2
    <2>2. CASE /\ seen' = [seen EXCEPT ![k] =
                    [payload |-> payload, total |-> total, issues |-> issues]]
               /\ step' = [step EXCEPT ![k] = IF @ = "read" THEN "save" ELSE "save error"]
               /\ UNCHANGED <<result, failed>>
      <3>1. \A j \in Kinds : j # k => step'[j] = step[j] /\ seen'[j] = seen[j]
        BY <2>2, <1>s, <1>t DEF Typed
      <3>2. seen'[k].payload = payload' BY <2>0, <2>2, <1>t DEF Typed
      <3>3. step'[k] \in {"read", "save"} => step[k] = "read" BY <2>2, <2>0, <1>s
      <3>4. ReadIsCurrent' BY <3>1, <3>2, <2>0, <1>t DEF ReadIsCurrent
      <3>5. NumbersFit' BY <3>1, <3>3, <2>0, <2>2, <1>t DEF NumbersFit
      <3> QED BY <3>4, <3>5
    <2> QED BY <1>13, <2>1, <2>2 DEF Read
  (* A save: nobody else is between fetch and save. *)
  <1>14. ASSUME NEW k \in Kinds, Save(k)
         PROVE  ReadIsCurrent' /\ NumbersFit'
    <2>1. End(k) /\ fetches' = fetches BY <1>14, SaveFacts
    <2>2. /\ step'[k] = "none"
          /\ \A j \in Kinds : j # k => step'[j] = step[j]
      BY <2>1, <1>s DEF End
    <2>3. CASE UNCHANGED vars BY <2>3, <1>1 DEF vars, row, local
    <2>4. CASE SavesApart
      <3>1. \A j \in Kinds : step'[j] \notin {"read", "save", "save error"}
        BY <1>14, <2>2, <2>4 DEF SavesApart, InWindow
      <3>2. ASSUME NEW s \in Slots, payload'[s] \in Nat PROVE payload'[s] <= fetches
        <4>1. CASE payload'[s] = payload[s] BY <4>1, <3>2, <1>t DEF NumbersFit
        <4>2. CASE step[k] = "save" /\ payload'[s] = result[k][s]
          BY <4>2, <3>2, <1>t DEF NumbersFit
        <4> QED BY <4>1, <4>2, <1>14, SaveSources
      <3> QED BY <2>1, <3>1, <3>2 DEF ReadIsCurrent, NumbersFit
    <2> QED BY <2>3, <2>4
  <1>15. ASSUME NEW k \in Kinds, ComputeCancelled(k) \/ AccessFails(k)
         PROVE  ReadIsCurrent' /\ NumbersFit'
    BY <1>15, <1>2 DEF ComputeCancelled, AccessFails, row
  <1>16. CASE Crash
    <2>1. UNCHANGED <<payload, fetches>> /\ \A k \in Kinds : step'[k] = "none"
      BY <1>16 DEF Crash, row
    <2> QED BY <2>1, <1>t DEF ReadIsCurrent, NumbersFit
  <1> QED
    BY <1>4, <1>5, <1>6, <1>7, <1>8, <1>10, <1>11, <1>12, <1>13, <1>14, <1>15, <1>16, <1>k
    DEF Next, LaunchSection, LaunchWallet, TaskStep, Compute

ApartSpec == Spec /\ [][SavesApart]_vars

LEMMA ApartAlways == ApartSpec => []ApartInv
  <1>1. ApartInv /\ [Next]_vars /\ [SavesApart]_vars => ApartInv'
    BY ApartStep
  <1> QED BY <1>1, ApartInit, PTL DEF ApartSpec, Spec

-----------------------------------------------------------------------------
(* However many tasks run: as long as none saves between another's reading *)
(* of the row and its save, a partial refresh that saves touches nothing   *)
(* but its own slots, whatever it computed and whether it failed.          *)
THEOREM PartialsKeepOthers == Spec /\ [][SavesApart]_vars => PartialKeepsOthers
  <1>1. ASSUME ApartInv, [Next]_vars,
               NEW k \in Sections \union Wallets, Saves(k), NEW s \in Slots \ Scope(k)
        PROVE  payload'[s] = payload[s]
    <2>1. CASE payload' = payload BY <2>1
    <2>2. CASE payload' # payload
      <3>1. PICK j \in Kinds : Save(j) BY <1>1, <2>2, OnlySavesWrite
      <3>2. step' = [step EXCEPT ![j] = "none"] BY <3>1, SaveFacts DEF End
      <3>3. k \in Kinds /\ step'[k] # step[k] BY <1>1 DEF Kinds, Saves
      <3>4. DOMAIN step = Kinds BY <1>1 DEF ApartInv, Inv, Typed
      <3>5. j = k BY <3>2, <3>3, <3>4
      <3> QED BY <1>1, <3>1, <3>5, SaveSources
    <2> QED BY <2>1, <2>2
  <1>2. ApartInv /\ [Next]_vars =>
          [\A k \in Sections \union Wallets : Saves(k) =>
             \A s \in Slots \ Scope(k) : payload'[s] = payload[s]]_vars
    BY <1>1
  <1> QED BY <1>2, ApartAlways, PTL DEF ApartSpec, Spec, PartialKeepsOthers

(* Under the same condition no slot goes back to the data of an earlier    *)
(* fetch: only a save between another task's fetch and its save does that. *)
THEOREM NothingRegresses == Spec /\ [][SavesApart]_vars => NoRegress
  <1>1. ASSUME ApartInv, [Next]_vars,
               NEW s \in Slots, payload[s] \in Nat, payload'[s] \in Nat
        PROVE  payload'[s] >= payload[s]
    <2>1. CASE payload'[s] = payload[s] BY <2>1, <1>1
    <2>2. CASE payload'[s] # payload[s]
      <3>1. PICK k \in Kinds : Save(k) BY <1>1, <2>2, OnlySavesWrite
      <3>2. step[k] = "save" /\ payload'[s] = result[k][s] BY <1>1, <2>2, <3>1, SaveSources
      <3>3. payload[s] <= result[k][s] BY <1>1, <3>2 DEF ApartInv, NumbersFit
      <3> QED BY <3>2, <3>3, <1>1
    <2> QED BY <2>1, <2>2
  <1>2. ApartInv /\ [Next]_vars =>
          [\A s \in Slots : {payload[s], payload'[s]} \subseteq Nat => payload'[s] >= payload[s]]_vars
    BY <1>1
  <1> QED BY <1>2, ApartAlways, PTL DEF ApartSpec, Spec, NoRegress

=============================================================================
