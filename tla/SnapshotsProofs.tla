---------------------------- MODULE SnapshotsProofs ----------------------------
(***************************************************************************)
(* Proofs about Snapshots, for any number of saves, previews, deletes and  *)
(* advices.                                                                *)
(***************************************************************************)
EXTENDS Snapshots, TLAPS

Committed == {"saved", "created", "gone"}

(* The inductive invariant.  A row, once gone, never comes back: its name  *)
(* is a save that has committed.  That is what makes "found[r] = day" mean *)
(* "the row r found is still there", and so Deleters the requests that     *)
(* really deleted the committed row.                                       *)
NamesInv ==
    /\ day \in Saves => pc[day] \in Committed
    /\ \A r \in Requests : found[r] \in Saves => pc[found[r]] \in Committed
    /\ \A a \in Advices : ref[a] \in Saves => pc[ref[a]] \in Committed

(* The locks: one deleter, none while an advice refers to the row, and one *)
(* inserter, who is alone with an empty day or with the row it deleted.    *)
LocksInv ==
    /\ \A r, s \in Deleters : r = s
    /\ Referrers # {} => Deleters = {}
    /\ \A r \in Saves : pc[r] = "inserted" => day = None \/ r \in Deleters
    /\ \A r, s \in Saves : pc[r] = "inserted" /\ pc[s] = "inserted" => r = s

KindInv ==
    /\ \A r \in Writers : pc[r] \notin {"calling", "flushed"}
    /\ \A a \in Advices :
         pc[a] \notin {"looked", "deleted", "gathered", "inserted", "saved"}
    /\ \A r \in Requests : pc[r] \in {"inserted", "saved"} => r \in Saves
    /\ \A a \in Advices : pc[a] \in {"calling", "flushed"} => found[a] # None

IInv == TypeOK /\ KindInv /\ NamesInv /\ LocksInv /\ ReferencesHold

-----------------------------------------------------------------------------
(* Induction step by induction step.                                       *)
LEMMA Initial == Init => IInv
  BY RequestAssumption DEF Init, IInv, TypeOK, KindInv, NamesInv, LocksInv, ReferencesHold,
     Deleters, Referrers, Requests, Writers, Rows

LEMMA Stutter == ASSUME IInv, UNCHANGED vars PROVE IInv'
  BY DEF IInv, vars, TypeOK, KindInv, NamesInv, LocksInv, ReferencesHold, Deleters, Referrers

LEMMA TypeStep ==
    ASSUME TypeOK, KindInv, NEW r \in Requests, Step(r) \/ Abort(r) PROVE TypeOK'
  <1> USE DEF TypeOK, Goto, Ended, Requests, Writers, Rows
  <1>1. CASE Look(r) BY <1>1 DEF Look
  <1>2. CASE DeleteOld(r) BY <1>2 DEF DeleteOld
  <1>3. CASE Gather(r) BY <1>3 DEF Gather
  <1>4. CASE GatherFails(r) BY <1>4 DEF GatherFails
  <1>5. CASE AnswerPreview(r) BY <1>5 DEF AnswerPreview
  <1>6. CASE Insert(r) BY <1>6 DEF Insert
  <1>7. CASE CommitSave(r) BY <1>7 DEF CommitSave, Detach, KindInv
  <1>8. CASE AnswerSave(r) BY <1>8 DEF AnswerSave
  <1>9. CASE CommitDelete(r) BY <1>9 DEF CommitDelete, Detach
  <1>10. CASE PickSnapshot(r) BY <1>10 DEF PickSnapshot
  <1>11. CASE FlushAdvice(r) BY <1>11 DEF FlushAdvice
  <1>12. CASE StoreAdvice(r) BY <1>12 DEF StoreAdvice
  <1>13. CASE Abort(r) BY <1>13 DEF Abort
  <1> QED BY <1>1, <1>2, <1>3, <1>4, <1>5, <1>6, <1>7, <1>8,
            <1>9, <1>10, <1>11, <1>12, <1>13 DEF Step

LEMMA KindStep ==
    ASSUME TypeOK, KindInv, NEW r \in Requests, Step(r) \/ Abort(r) PROVE KindInv'
  <1> USE RequestAssumption DEF TypeOK, KindInv, Goto, Requests, Writers
  <1>1. CASE Look(r) BY <1>1 DEF Look
  <1>2. CASE DeleteOld(r) BY <1>2 DEF DeleteOld
  <1>3. CASE Gather(r) BY <1>3 DEF Gather
  <1>4. CASE GatherFails(r) BY <1>4 DEF GatherFails
  <1>5. CASE AnswerPreview(r) BY <1>5 DEF AnswerPreview
  <1>6. CASE Insert(r) BY <1>6 DEF Insert
  <1>7. CASE CommitSave(r) BY <1>7 DEF CommitSave
  <1>8. CASE AnswerSave(r) BY <1>8 DEF AnswerSave
  <1>9. CASE CommitDelete(r) BY <1>9 DEF CommitDelete
  <1>10. CASE PickSnapshot(r) BY <1>10 DEF PickSnapshot
  <1>11. CASE FlushAdvice(r) BY <1>11 DEF FlushAdvice
  <1>12. CASE StoreAdvice(r) BY <1>12 DEF StoreAdvice
  <1>13. CASE Abort(r) BY <1>13 DEF Abort
  <1> QED BY <1>1, <1>2, <1>3, <1>4, <1>5, <1>6, <1>7, <1>8,
            <1>9, <1>10, <1>11, <1>12, <1>13 DEF Step

LEMMA NamesStep ==
    ASSUME TypeOK, KindInv, NamesInv, NEW r \in Requests, Step(r) \/ Abort(r) PROVE NamesInv'
  <1> USE RequestAssumption DEF TypeOK, NamesInv, Goto, Committed, Requests, Writers
  <1>1. CASE Look(r) BY <1>1 DEF Look
  <1>2. CASE DeleteOld(r) BY <1>2 DEF DeleteOld
  <1>3. CASE Gather(r) BY <1>3 DEF Gather
  <1>4. CASE GatherFails(r) BY <1>4 DEF GatherFails
  <1>5. CASE AnswerPreview(r) BY <1>5 DEF AnswerPreview
  <1>6. CASE Insert(r) BY <1>6 DEF Insert
  <1>7. CASE CommitSave(r)
    <2>1. r \in Saves /\ pc'[r] = "saved" BY <1>7 DEF CommitSave, KindInv
    <2>2. \A q \in Requests : pc[q] \in Committed => pc'[q] \in Committed
      BY <1>7 DEF CommitSave
    <2>3. ref' \in [Advices -> Rows \union {None}] /\ \A a \in Advices : ref'[a] \in {ref[a], None}
      BY <1>7 DEF CommitSave, Detach
    <2> QED BY <1>7, <2>1, <2>2, <2>3 DEF CommitSave, Rows
  <1>8. CASE AnswerSave(r) BY <1>8 DEF AnswerSave
  <1>9. CASE CommitDelete(r)
    <2>1. \A q \in Requests : pc[q] \in Committed => pc'[q] \in Committed
      BY <1>9 DEF CommitDelete
    <2>2. \A a \in Advices : ref'[a] \in {ref[a], None}
      BY <1>9 DEF CommitDelete, Detach
    <2> QED BY <1>9, <2>1, <2>2 DEF CommitDelete, Rows
  <1>10. CASE PickSnapshot(r) BY <1>10 DEF PickSnapshot
  <1>11. CASE FlushAdvice(r) BY <1>11 DEF FlushAdvice
  <1>12. CASE StoreAdvice(r) BY <1>12 DEF StoreAdvice
  <1>13. CASE Abort(r) BY <1>13 DEF Abort
  <1> QED BY <1>1, <1>2, <1>3, <1>4, <1>5, <1>6, <1>7, <1>8,
            <1>9, <1>10, <1>11, <1>12, <1>13 DEF Step

LEMMA LocksStep ==
    ASSUME TypeOK, KindInv, NamesInv, LocksInv, ReferencesHold, NEW r \in Requests,
           Step(r) \/ Abort(r)
    PROVE  LocksInv'
  <1> USE RequestAssumption DEF TypeOK, KindInv, LocksInv, Goto, Deleters, Referrers, Requests, Writers
  <1>1. CASE Look(r) BY <1>1 DEF Look
  <1>2. CASE DeleteOld(r) BY <1>2 DEF DeleteOld
  <1>3. CASE Gather(r) BY <1>3 DEF Gather
  <1>4. CASE GatherFails(r) BY <1>4 DEF GatherFails
  <1>5. CASE AnswerPreview(r) BY <1>5 DEF AnswerPreview
  <1>6. CASE Insert(r) BY <1>6 DEF Insert
  <1>7. CASE CommitSave(r)
    <2>1. r \in Saves /\ r \notin {day, None} /\ \A q \in Requests : found[q] # r
      BY <1>7 DEF CommitSave, NamesInv, Committed, Rows
    <2>2. Deleters' = {} /\ Referrers' = {}
      BY <1>7, <2>1 DEF CommitSave
    <2>3. \A s \in Saves : pc'[s] # "inserted"
      BY <1>7, <2>1 DEF CommitSave
    <2> QED BY <2>2, <2>3 DEF LocksInv
  <1>8. CASE AnswerSave(r) BY <1>8 DEF AnswerSave
  <1>9. CASE CommitDelete(r) BY <1>9 DEF CommitDelete
  <1>10. CASE PickSnapshot(r) BY <1>10 DEF PickSnapshot
  <1>11. CASE FlushAdvice(r) BY <1>11 DEF FlushAdvice
  <1>12. CASE StoreAdvice(r) BY <1>12 DEF StoreAdvice
  <1>13. CASE Abort(r) BY <1>13 DEF Abort
  <1> QED BY <1>1, <1>2, <1>3, <1>4, <1>5, <1>6, <1>7, <1>8,
            <1>9, <1>10, <1>11, <1>12, <1>13 DEF Step

LEMMA RefsStep ==
    ASSUME TypeOK, KindInv, NamesInv, LocksInv, ReferencesHold, NEW r \in Requests,
           Step(r) \/ Abort(r)
    PROVE  ReferencesHold'
  <1> USE RequestAssumption DEF TypeOK, KindInv, ReferencesHold, Goto, Requests, Writers
  <1>1. CASE Look(r) BY <1>1 DEF Look, Deleters, Referrers, LocksInv, Detach
  <1>2. CASE DeleteOld(r) BY <1>2 DEF DeleteOld, Deleters, Referrers, LocksInv, Detach
  <1>3. CASE Gather(r) BY <1>3 DEF Gather, Deleters, Referrers, LocksInv, Detach
  <1>4. CASE GatherFails(r) BY <1>4 DEF GatherFails, Deleters, Referrers, LocksInv, Detach
  <1>5. CASE AnswerPreview(r) BY <1>5 DEF AnswerPreview, Deleters, Referrers, LocksInv, Detach
  <1>6. CASE Insert(r) BY <1>6 DEF Insert, Deleters, Referrers, LocksInv, Detach
  <1>7. CASE CommitSave(r) BY <1>7 DEF CommitSave, Deleters, Referrers, LocksInv, Detach
  <1>8. CASE AnswerSave(r) BY <1>8 DEF AnswerSave, Deleters, Referrers, LocksInv, Detach
  <1>9. CASE CommitDelete(r) BY <1>9 DEF CommitDelete, Deleters, Referrers, LocksInv, Detach
  <1>10. CASE PickSnapshot(r) BY <1>10 DEF PickSnapshot, Deleters, Referrers, LocksInv, Detach
  <1>11. CASE FlushAdvice(r) BY <1>11 DEF FlushAdvice, Deleters, Referrers, LocksInv, Detach
  <1>12. CASE StoreAdvice(r) BY <1>12 DEF StoreAdvice, Deleters, Referrers, LocksInv, Detach
  <1>13. CASE Abort(r) BY <1>13 DEF Abort, Deleters, Referrers, LocksInv, Detach
  <1> QED BY <1>1, <1>2, <1>3, <1>4, <1>5, <1>6, <1>7, <1>8,
            <1>9, <1>10, <1>11, <1>12, <1>13 DEF Step

LEMMA Inductive == IInv /\ [Next]_vars => IInv'
  <1> SUFFICES ASSUME IInv, [Next]_vars PROVE IInv'
    OBVIOUS
  <1>1. CASE UNCHANGED vars BY <1>1, Stutter
  <1>2. ASSUME NEW r \in Requests, Step(r) \/ Abort(r) PROVE IInv'
    BY <1>2, TypeStep, KindStep, NamesStep, LocksStep, RefsStep DEF IInv
  <1>3. CASE Done BY <1>3, Stutter DEF Done
  <1> QED BY <1>1, <1>2, <1>3 DEF Next

LEMMA Always == Spec => []IInv
  BY Initial, Inductive, PTL DEF Spec

-----------------------------------------------------------------------------
(* Every variable keeps its type.                                          *)
THEOREM TypeCorrect == Spec => []TypeOK
  BY Always, PTL DEF IInv

(* However requests overlap, a stored advice refers to the day's snapshot  *)
(* or to none: replacing a snapshot leaves no dangling reference.          *)
THEOREM ReferencesAreGood == Spec => []ReferencesHold
  BY Always, PTL DEF IInv

(* Only two actions change the committed row, one refuses a save.          *)
LEMMA DayChanges ==
    ASSUME NEW r \in Requests, Step(r) \/ Abort(r), day' # day
    PROVE  CommitSave(r) \/ CommitDelete(r)
  BY DEF Step, Look, DeleteOld, Gather, GatherFails, AnswerPreview, Insert, AnswerSave,
     PickSnapshot, FlushAdvice, StoreAdvice, Abort

LEMMA Refuses ==
    ASSUME TypeOK, NEW r \in Requests, Step(r) \/ Abort(r), NEW s \in Requests,
           pc[s] # "conflict", pc'[s] = "conflict"
    PROVE  s = r /\ Insert(r)
  <1>1. s = r
    BY DEF TypeOK, Step, Goto, Look, DeleteOld, Gather, GatherFails, AnswerPreview, Insert,
       CommitSave, AnswerSave, CommitDelete, PickSnapshot, FlushAdvice, StoreAdvice, Abort
  <1>2. Insert(r)
    BY <1>1 DEF TypeOK, Step, Goto, Look, DeleteOld, Gather, GatherFails, AnswerPreview,
       CommitSave, AnswerSave, CommitDelete, PickSnapshot, FlushAdvice, StoreAdvice, Abort
  <1> QED BY <1>1, <1>2

(* A save only ever replaces the snapshot it looked at: the row it         *)
(* deleted is the one that is there when it commits.                       *)
THEOREM NothingOverwritten == Spec => ReplacesWhatItSaw
  <1> DEFINE Saw == \A r \in Saves : day' = r /\ day \notin {r, None} => found[r] = day
  <1>1. ASSUME IInv, [Next]_vars PROVE [Saw]_vars
    <2> SUFFICES ASSUME NEW r \in Saves, day' = r, day \notin {r, None} PROVE found[r] = day
      OBVIOUS
    <2>1. PICK s \in Requests : CommitSave(s) \/ CommitDelete(s)
      BY <1>1, DayChanges DEF Next, vars, Done
    <2>2. CASE CommitDelete(s)
      BY <2>2, RequestAssumption DEF CommitDelete, Rows
    <2>3. CASE CommitSave(s)
      <3>1. pc[r] = "inserted" BY <2>3 DEF CommitSave
      <3>2. r \in Deleters BY <1>1, <3>1 DEF IInv, LocksInv
      <3> QED BY <3>2 DEF Deleters
    <2> QED BY <2>1, <2>2, <2>3
  <1> QED BY <1>1, Always, PTL DEF Spec, ReplacesWhatItSaw

(* No save that fails or is abandoned loses the snapshot it was to         *)
(* replace, and a delete removes the one it was asked to.                  *)
THEOREM NothingLost == Spec => KeptUntilDeleted
  <1> DEFINE Kept == day # None /\ day' = None =>
               \E d \in Deletes : pc[d] # "removed" /\ pc'[d] = "removed" /\ found[d] = day
  <1>1. ASSUME IInv, [Next]_vars PROVE [Kept]_vars
    <2> SUFFICES ASSUME day # None, day' = None
                 PROVE \E d \in Deletes : pc[d] # "removed" /\ pc'[d] = "removed" /\ found[d] = day
      OBVIOUS
    <2>1. PICK s \in Requests : CommitSave(s) \/ CommitDelete(s)
      BY <1>1, DayChanges DEF Next, vars, Done
    <2>2. CASE CommitSave(s)
      BY <1>1, <2>2, RequestAssumption DEF CommitSave, IInv, KindInv, Rows
    <2>3. CASE CommitDelete(s)
      <3>1. s \in Deletes /\ pc[s] = "deleted" /\ pc'[s] = "removed"
        BY <1>1, <2>3 DEF CommitDelete, Goto, IInv, TypeOK
      <3>2. found[s] = day BY <2>3 DEF CommitDelete, Deleters
      <3> QED BY <3>1, <3>2
    <2> QED BY <2>1, <2>2, <2>3
  <1> QED BY <1>1, Always, PTL DEF Spec, KeptUntilDeleted

(* The unique constraint refuses a save only because of a snapshot that    *)
(* was saved after it looked.                                              *)
THEOREM RefusalsAreJust == Spec => RefusedOnlyByNewer
  <1> DEFINE Just == \A r \in Saves : pc[r] # "conflict" /\ pc'[r] = "conflict" =>
                        day # None /\ day # found[r]
  <1>1. ASSUME IInv, [Next]_vars PROVE [Just]_vars
    <2> SUFFICES ASSUME NEW r \in Saves, pc[r] # "conflict", pc'[r] = "conflict"
                 PROVE day # None /\ day # found[r]
      OBVIOUS
    <2>1. Insert(r)
      BY <1>1, Refuses DEF Next, vars, Done, IInv, Requests, Writers
    <2>2. pc[r] = "gathered" /\ day # None /\ r \notin Deleters
      BY <1>1, <2>1 DEF Insert, Goto, IInv, TypeOK, Requests, Writers
    <2> QED BY <2>2 DEF Deleters, Writers
  <1> QED BY <1>1, Always, PTL DEF Spec, RefusedOnlyByNewer

=============================================================================
