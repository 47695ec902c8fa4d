----------------------------- MODULE BillProofs -----------------------------
(***************************************************************************)
(* What is proved of the photos of bills, the store of receipts and the    *)
(* notices of payments, each as in OrderProofs.                            *)
(***************************************************************************)
EXTENDS BackOffice, FiniteSetTheorems, WellFoundedInduction, NaturalsInduction, TLAPS

-----------------------------------------------------------------------------
(* The photos of bills.                                                    *)

\* The entries of the map: none, one that runs, one that ended.
PhotosEntries ==
  {Photos!Missing, Photos!Fails}
    \cup [status : {"processing"}, step : {"read", "judge", "structure"}, photo : Photos!Photos]
    \cup [status : {"done"}, date : {"read", "today"}]

PhotosIInv ==
  /\ jobTime \in 0..JobTime /\ begun \in [Jobs -> 0..Photos!Never] /\ restarts \in 0..MaxFaults
  /\ jobs \in [Jobs -> PhotosEntries]

LEMMA PhotosInitIInv ==
  ASSUME Photos!JobsAssumption, Photos!Init PROVE PhotosIInv
<1>1. 0 \in 0..JobTime /\ 0 \in 0..MaxFaults /\ Photos!Never \in 0..Photos!Never
  BY DEF Photos!JobsAssumption, Photos!Never
<1> QED
  BY <1>1 DEF Photos!Init, PhotosIInv, PhotosEntries

\* The pipeline of a job that runs ends in an entry.
LEMMA PhotosStepKeeps ==
  ASSUME Photos!JobsAssumption, PhotosIInv, [Photos!Next]_Photos!vars PROVE PhotosIInv'
<1>1. jobTime \in Nat /\ jobTime <= JobTime /\ JobTime \in Nat /\ restarts \in Nat /\ restarts <= MaxFaults
      /\ MaxFaults \in Nat
  BY DEF Photos!JobsAssumption, PhotosIInv
<1>2. \A e \in PhotosEntries : e.status = "processing" => e.photo \in Photos!Photos
  BY DEF PhotosEntries, Photos!Missing, Photos!Fails
<1>3. \A p \in Photos!Photos, s \in {"read", "judge", "structure"} : Photos!At(s, p) \in PhotosEntries
  BY DEF Photos!At, PhotosEntries
<1>4. /\ Photos!Missing \in PhotosEntries /\ Photos!Fails \in PhotosEntries
      /\ \A d \in {"read", "today"} : [status |-> "done", date |-> d] \in PhotosEntries
  BY DEF PhotosEntries
<1>5. ASSUME NEW j \in Jobs, Photos!Start(j) PROVE PhotosIInv'
  <2>1. PICK p \in Photos!Photos :
          jobs' = [i \in Jobs |->
            IF i = j THEN Photos!At("read", p) ELSE IF Photos!Swept(i) THEN Photos!Missing ELSE jobs[i]]
    BY <1>5 DEF Photos!Start
  <2>2. Photos!At("read", p) \in PhotosEntries /\ \A i \in Jobs : jobs[i] \in PhotosEntries
    BY <1>3 DEF PhotosIInv
  <2>3. jobs' \in [Jobs -> PhotosEntries]
    BY <2>1, <2>2, <1>4
  <2>4. jobTime \in 0..Photos!Never
    BY <1>1 DEF Photos!Never
  <2>5. begun' \in [Jobs -> 0..Photos!Never]
    BY <1>5, <2>4 DEF Photos!Start, PhotosIInv
  <2> QED BY <1>5, <2>3, <2>5 DEF Photos!Start, PhotosIInv, Photos!Never
<1>6. ASSUME NEW j \in Jobs, NEW step, NEW entries \in SUBSET PhotosEntries, Photos!Runs(j, step, entries)
      PROVE  PhotosIInv'
  BY <1>6 DEF Photos!Runs, PhotosIInv, Photos!Never
<1>7. ASSUME NEW j \in Jobs, Photos!ReadText(j) PROVE PhotosIInv'
  <2>1. jobs[j].photo \in Photos!Photos
    BY <1>2, <1>7 DEF Photos!ReadText, Photos!Runs, PhotosIInv
  <2>2. {IF Photos!Unreadable(jobs[j].photo) THEN Photos!Fails ELSE Photos!At("judge", jobs[j].photo)} \in SUBSET PhotosEntries
    BY <2>1, <1>3, <1>4
  <2> QED BY <1>6, <1>7, <2>2 DEF Photos!ReadText
<1>8. ASSUME NEW j \in Jobs, Photos!Judge(j) PROVE PhotosIInv'
  <2>1. jobs[j].photo \in Photos!Photos
    BY <1>2, <1>8 DEF Photos!Judge, Photos!Runs, PhotosIInv
  <2>2. {IF Photos!Passes(jobs[j].photo, w) THEN Photos!At("structure", jobs[j].photo) ELSE Photos!Fails : w \in Photos!Words}
          \in SUBSET PhotosEntries
    BY <2>1, <1>3, <1>4
  <2> QED BY <1>6, <1>8, <2>2 DEF Photos!Judge
<1>9. ASSUME NEW j \in Jobs, Photos!Structure(j) PROVE PhotosIInv'
  <2>1. {Photos!Fails} \cup {[status |-> "done", date |-> d] : d \in {"read", "today"}} \in SUBSET PhotosEntries
    BY <1>4
  <2> QED BY <1>6, <1>9, <2>1 DEF Photos!Structure
<1>10. CASE Photos!Tick
  BY <1>1, <1>10 DEF Photos!Tick, PhotosIInv, Photos!Never
<1>11. CASE Photos!Restart
  BY <1>1, <1>4, <1>11 DEF Photos!Restart, PhotosIInv, Photos!Never
<1>12. CASE UNCHANGED Photos!vars
  BY <1>12 DEF Photos!vars, PhotosIInv, Photos!Never
<1> QED
  BY <1>5, <1>7, <1>8, <1>9, <1>10, <1>11, <1>12 DEF Photos!Next

LEMMA PhotosIInvAlways ==
  ASSUME Photos!JobsAssumption PROVE Photos!Spec => []PhotosIInv
<1>1. Photos!Init => PhotosIInv
  BY PhotosInitIInv
<1>2. PhotosIInv /\ [Photos!Next]_Photos!vars => PhotosIInv'
  BY PhotosStepKeeps
<1> QED
  BY <1>1, <1>2, PTL DEF Photos!Spec

LEMMA PhotosTypesFollow ==
  ASSUME PhotosIInv PROVE Photos!TypeOK
<1>1. \A e \in PhotosEntries : /\ e.status \in {"missing", "processing", "done", "error"}
                               /\ e.status = "processing" =>
                                    e.step \in {"read", "judge", "structure"} /\ e.photo \in Photos!Photos
  BY DEF PhotosEntries, Photos!Missing, Photos!Fails
<1> QED
  BY <1>1 DEF PhotosIInv, Photos!TypeOK

\* A behaviour of the back office is one of the part.
LEMMA PhotosRuns == Spec => Photos!Spec
  <1>1. Init => Photos!Init
    BY DEF Init
  <1>2. [Next]_vars => [Photos!Next]_Photos!vars
    BY DEF Next, Rest, vars, photoVars, Photos!vars
  <1> QED BY <1>1, <1>2, PTL DEF Spec, Photos!Spec

LEMMA PhotosAlwaysTyped == Spec => []Photos!TypeOK
  <1>1. Photos!JobsAssumption
    BY BackOfficeAssumption
  <1>2. PhotosIInv => Photos!TypeOK
    BY <1>1, PhotosTypesFollow
  <1> QED BY <1>1, <1>2, PhotosRuns, PhotosIInvAlways, PTL

-----------------------------------------------------------------------------
(* The receipts of a supplier.                                             *)

\* The rows, and a call under way.
StoreRow == [id : 1..saved, hash : Hashes, source : Store!Sources, reconciled : BOOLEAN]
StoreSaving == [pc : {"checked", "added"}, id : 1..saved, hash : Hashes, source : Store!Sources]
StoreDeleting == [pc : {"found", "deleted"}, id : 1..saved]
StoreCounting == [pc : {"counted"}, id : 1..saved, n : Nat, crossed : BOOLEAN]

StoreRowsOK ==
  /\ receipts \subseteq StoreRow /\ IsFiniteSet(receipts)
  /\ \A r, q \in receipts : r.id = q.id => r = q
StoreCallsOK == storeCalls \in [Clerks -> {Store!Free} \cup StoreSaving \cup StoreDeleting \cup StoreCounting]
StoreRestOK ==
  /\ count \in Nat /\ lock \in Clerks \cup {Store!Nobody}
  /\ saved \in 0..MaxReceipts /\ drifted \in BOOLEAN
StoreTyped == StoreRowsOK /\ StoreCallsOK /\ StoreRestOK

\* The saves that have not committed, by the ids of their receipts.
StoreSaves(c) == storeCalls[c].pc \in {"checked", "added"}
StoreOpen == {n \in 1..saved : \E c \in Clerks : StoreSaves(c) /\ storeCalls[c].id = n}
StoreSettled == saved - Cardinality(StoreOpen)

\* Nothing counts more receipts than were ever saved.
StoreBounded ==
  /\ count <= StoreSettled /\ Cardinality(receipts) <= StoreSettled
  /\ \A c \in Clerks : storeCalls[c].pc = "counted" => storeCalls[c].n <= StoreSettled

\* A delete that no commit crossed has counted the receipts that will remain.
StoreOthers(id) == {r \in receipts : r.id # id}
StoreCounts ==
  \A c \in Clerks :
    storeCalls[c].pc = "counted" /\ ~storeCalls[c].crossed => storeCalls[c].n = Cardinality(StoreOthers(storeCalls[c].id))

\* The receipt of a save that has not committed is not another's.
StoreUnmet(c) ==
  /\ \A r \in receipts : r.id # storeCalls[c].id
  /\ \A d \in Clerks : StoreSaves(d) => (storeCalls[d].id = storeCalls[c].id => d = c)

StoreIInv ==
  /\ StoreTyped /\ StoreBounded /\ StoreCounts
  /\ \A c \in Clerks : StoreSaves(c) => StoreUnmet(c)
  /\ ~drifted => count = Cardinality(receipts)

LEMMA StoreRemainingIs == ASSUME NEW id PROVE Store!Remaining(id) = Cardinality(StoreOthers(id))
  <1>1. Store!Cardinality(StoreOthers(id)) = Cardinality(StoreOthers(id))
    BY Zenon DEF Store!Cardinality, Cardinality
  <1> QED BY <1>1 DEF Store!Remaining, StoreOthers

LEMMA StoreInitIInv == ASSUME Store!StoreAssumption, Store!Init PROVE StoreIInv
  <1>1. Cardinality({}) = 0 /\ IsFiniteSet({})
    BY FS_EmptySet
  <1>2. receipts = {} /\ count = 0 /\ saved = 0 /\ drifted = FALSE /\ lock = Store!Nobody
    BY DEF Store!Init
  <1>3. \A c \in Clerks : storeCalls[c] = Store!Free /\ storeCalls[c].pc = "free"
    BY DEF Store!Init, Store!Free
  <1>4. StoreRowsOK
    BY <1>1, <1>2 DEF StoreRowsOK
  <1>5. StoreCallsOK
    BY DEF Store!Init, StoreCallsOK
  <1>6. StoreRestOK
    <2>1. 0 \in 0..MaxReceipts
      BY DEF Store!StoreAssumption
    <2> QED BY <1>2, <2>1 DEF StoreRestOK
  <1>7. StoreOpen = {}
    BY <1>3 DEF StoreOpen, StoreSaves
  <1>8. StoreBounded
    BY <1>1, <1>2, <1>3, <1>7 DEF StoreBounded, StoreSettled
  <1>9. StoreCounts
    BY <1>3 DEF StoreCounts
  <1> QED BY <1>1, <1>2, <1>3, <1>4, <1>5, <1>6, <1>8, <1>9
             DEF StoreIInv, StoreTyped, StoreSaves

\* What a call that has not ended holds.
LEMMA StoreAtCall ==
  ASSUME StoreTyped, NEW c \in Clerks
  PROVE  /\ storeCalls[c] \in {Store!Free} \cup StoreSaving \cup StoreDeleting \cup StoreCounting
         /\ storeCalls[c] = Store!Free <=> storeCalls[c].pc = "free"
         /\ StoreSaves(c) <=> storeCalls[c] \in StoreSaving
         /\ storeCalls[c].pc \in {"found", "deleted"} <=> storeCalls[c] \in StoreDeleting
         /\ storeCalls[c].pc = "counted" <=> storeCalls[c] \in StoreCounting
  BY DEF StoreTyped, StoreCallsOK, Store!Free, StoreSaving, StoreDeleting, StoreCounting,
       StoreSaves

\* The saves under way are finitely many.
LEMMA StoreOpenIsFinite ==
  ASSUME StoreTyped, Store!StoreAssumption
  PROVE  IsFiniteSet(StoreOpen) /\ Cardinality(StoreOpen) \in 0..saved /\ saved \in Nat /\ StoreSettled \in 0..saved
  <1>1. saved \in Nat
    BY DEF StoreTyped, StoreRestOK, Store!StoreAssumption
  <1>2. IsFiniteSet(1..saved) /\ Cardinality(1..saved) = saved
    BY <1>1, FS_Interval
  <1>3. StoreOpen \subseteq 1..saved
    BY DEF StoreOpen
  <1>4. IsFiniteSet(StoreOpen) /\ Cardinality(StoreOpen) <= saved
    BY <1>2, <1>3, FS_Subset
  <1>5. Cardinality(StoreOpen) \in Nat
    BY <1>4, FS_CardinalityType
  <1> QED BY <1>1, <1>4, <1>5 DEF StoreSettled

\* A part of the receipts is no more than all of them.
LEMMA StoreFewerReceipts ==
  ASSUME StoreTyped, NEW S, S \subseteq receipts
  PROVE  IsFiniteSet(S) /\ Cardinality(S) \in Nat /\ Cardinality(S) <= Cardinality(receipts)
         /\ Cardinality(receipts) \in Nat
  BY FS_Subset, FS_CardinalityType DEF StoreTyped, StoreRowsOK

\* The rows and the calls of fewer ids are rows and calls of more.
LEMMA StoreRowsGrow ==
  ASSUME StoreTyped, StoreRestOK', Store!StoreAssumption, saved <= saved'
  PROVE  /\ StoreRow \subseteq StoreRow' /\ StoreSaving \subseteq StoreSaving'
         /\ StoreDeleting \subseteq StoreDeleting' /\ StoreCounting \subseteq StoreCounting'
  <1>1. 1..saved \subseteq 1..saved'
    BY DEF StoreTyped, StoreRestOK, Store!StoreAssumption
  <1> QED BY <1>1 DEF StoreRow, StoreSaving, StoreDeleting, StoreCounting

\* One call moves, and the rows stay.
LEMMA StoreCallMoves ==
  ASSUME Store!StoreAssumption, StoreTyped, StoreRestOK', saved <= saved', NEW c \in Clerks,
         NEW new \in {Store!Free} \cup StoreSaving' \cup StoreDeleting' \cup StoreCounting',
         storeCalls' = [storeCalls EXCEPT ![c] = new]
  PROVE  StoreCallsOK' /\ storeCalls'[c] = new /\ \A d \in Clerks \ {c} : storeCalls'[d] = storeCalls[d]
  <1>1. storeCalls'[c] = new /\ \A d \in Clerks \ {c} : storeCalls'[d] = storeCalls[d]
    BY DEF StoreTyped, StoreCallsOK
  <1>2. \A d \in Clerks : storeCalls'[d] \in {Store!Free} \cup StoreSaving' \cup StoreDeleting' \cup StoreCounting'
    BY <1>1, StoreRowsGrow DEF StoreTyped, StoreCallsOK
  <1>3. storeCalls' \in [Clerks -> {Store!Free} \cup StoreSaving' \cup StoreDeleting' \cup StoreCounting']
    BY <1>2 DEF StoreTyped, StoreCallsOK
  <1> QED BY <1>1, <1>3 DEF StoreCallsOK

\* The rows stay when only calls move.
LEMMA StoreRowsStay ==
  ASSUME Store!StoreAssumption, StoreTyped, StoreRestOK', saved <= saved', receipts' = receipts
  PROVE  StoreRowsOK'
  BY StoreRowsGrow DEF StoreTyped, StoreRowsOK

LEMMA StoreSaveKeeps ==
  ASSUME Store!StoreAssumption, StoreIInv, NEW c \in Clerks, Store!Save(c) PROVE StoreIInv'
  <1>1. PICK hash \in Hashes, source \in Store!Sources :
          /\ source = "ocr" => ~Store!Duplicate(hash)
          /\ storeCalls' = [storeCalls EXCEPT ![c] =
               [pc |-> "checked", id |-> saved', hash |-> hash, source |-> source]]
    BY DEF Store!Save
  <1>2. /\ storeCalls[c] = Store!Free /\ saved < MaxReceipts /\ saved' = saved + 1
        /\ UNCHANGED <<receipts, count, lock, drifted>>
    BY DEF Store!Save
  <1> DEFINE new == [pc |-> "checked", id |-> saved', hash |-> hash, source |-> source]
  <1>3. saved \in Nat /\ StoreRestOK' /\ saved <= saved' /\ StoreTyped
    BY <1>2 DEF StoreIInv, StoreTyped, StoreRestOK, Store!StoreAssumption
  <1>4. \A r \in receipts : r.id \in 1..saved
    BY DEF StoreIInv, StoreTyped, StoreRowsOK, StoreRow
  <1>6. new \in StoreSaving'
    BY <1>2, <1>3 DEF StoreSaving
  <1>7. /\ StoreCallsOK' /\ storeCalls'[c] = new
        /\ \A d \in Clerks \ {c} : storeCalls'[d] = storeCalls[d]
    BY <1>1, <1>3, <1>6, StoreCallMoves
  <1>8. StoreTyped'
    BY <1>2, <1>3, <1>7, StoreRowsStay DEF StoreTyped
  <1>9. storeCalls[c].pc = "free"
    BY <1>2 DEF Store!Free
  <1>10. \A d \in Clerks : StoreSaves(d) => storeCalls[d].id \in 1..saved
    BY <1>3, StoreAtCall DEF StoreSaving
  <1>11. StoreOpen' = StoreOpen \cup {saved + 1}
    <2>1. ASSUME NEW n \in StoreOpen' PROVE n \in StoreOpen \cup {saved + 1}
      BY <2>1, <1>2, <1>7, <1>3, <1>10 DEF StoreOpen, StoreSaves
    <2>2. ASSUME NEW n \in StoreOpen PROVE n \in StoreOpen'
      <3>1. PICK d \in Clerks : StoreSaves(d) /\ storeCalls[d].id = n
        BY <2>2 DEF StoreOpen
      <3>2. d # c
        BY <1>9, <3>1 DEF StoreSaves
      <3>3. n \in 1..saved'
        BY <2>2, <1>2, <1>3 DEF StoreOpen
      <3> QED BY <3>1, <3>2, <3>3, <1>7 DEF StoreOpen, StoreSaves
    <2>3. saved + 1 \in StoreOpen'
      BY <1>2, <1>3, <1>7 DEF StoreOpen, StoreSaves
    <2> QED BY <2>1, <2>2, <2>3
  <1>12. StoreSettled' = StoreSettled
    <2>1. saved + 1 \notin StoreOpen
      BY <1>3 DEF StoreOpen
    <2>2. Cardinality(StoreOpen') = Cardinality(StoreOpen) + 1 /\ Cardinality(StoreOpen) \in Nat
      <3>1. IsFiniteSet(StoreOpen) /\ Cardinality(StoreOpen) \in Nat
        BY <1>3, StoreOpenIsFinite
      <3> QED BY <1>11, <2>1, <3>1, FS_AddElement
    <2> QED BY <1>2, <1>3, <2>2 DEF StoreSettled
  <1>13. StoreBounded'
    BY <1>2, <1>7, <1>12 DEF StoreIInv, StoreBounded
  <1>14. StoreCounts'
    BY <1>2, <1>7 DEF StoreIInv, StoreCounts, StoreOthers
  <1>15. ASSUME NEW d \in Clerks, StoreSaves(d)' PROVE StoreUnmet(d)'
    <2>1. \A r \in receipts : r.id # saved'
      BY <1>2, <1>3, <1>4
    <2>2. \A e \in Clerks : StoreSaves(e) => storeCalls[e].id # saved'
      BY <1>2, <1>3, <1>10
    <2>3. CASE d = c
      BY <2>3, <1>2, <1>7, <2>1, <2>2 DEF StoreUnmet, StoreSaves
    <2>4. CASE d # c
      <3>1. StoreSaves(d) /\ storeCalls'[d] = storeCalls[d] /\ StoreUnmet(d)
        BY <2>4, <1>7, <1>15 DEF StoreSaves, StoreIInv
      <3> QED BY <2>4, <1>2, <1>7, <2>2, <3>1 DEF StoreUnmet, StoreSaves
    <2> QED BY <2>3, <2>4
  <1>16. ~drifted' => count' = Cardinality(receipts')
    BY <1>2 DEF StoreIInv
  <1> QED BY <1>8, <1>13, <1>14, <1>15, <1>16 DEF StoreIInv

\* Calls that add to the supplier, delete, count or wait change no receipt and no save.
LEMMA StoreQuietKeeps ==
  ASSUME Store!StoreAssumption, StoreIInv, NEW c \in Clerks,
         NEW new \in StoreSaving \cup StoreDeleting \cup StoreCounting,
         storeCalls' = [storeCalls EXCEPT ![c] = new],
         new \in StoreSaving <=> StoreSaves(c),
         StoreSaves(c) => /\ new.id = storeCalls[c].id /\ new.hash = storeCalls[c].hash
                          /\ new.source = storeCalls[c].source,
         new.pc = "counted" => /\ new.n <= StoreSettled
                               /\ ~new.crossed => new.n = Cardinality(StoreOthers(new.id)),
         StoreRestOK', UNCHANGED <<receipts, count, saved, drifted>>
  PROVE  StoreIInv'
  <1>1. saved \in Nat /\ saved <= saved' /\ StoreTyped
    BY DEF StoreIInv, StoreTyped, StoreRestOK, Store!StoreAssumption
  <1>2. StoreSaving' = StoreSaving /\ StoreDeleting' = StoreDeleting /\ StoreCounting' = StoreCounting
    BY DEF StoreSaving, StoreDeleting, StoreCounting
  <1>3. StoreCallsOK' /\ storeCalls'[c] = new /\ \A d \in Clerks \ {c} : storeCalls'[d] = storeCalls[d]
    BY <1>1, <1>2, StoreCallMoves
  <1>4. StoreTyped'
    BY <1>1, <1>3, StoreRowsStay DEF StoreTyped
  <1>5. StoreSaves(c)' <=> StoreSaves(c)
    BY <1>3 DEF StoreSaves, StoreSaving, StoreDeleting, StoreCounting
  <1>6. \A d \in Clerks : /\ StoreSaves(d)' <=> StoreSaves(d)
                          /\ StoreSaves(d) => /\ storeCalls'[d].id = storeCalls[d].id /\ storeCalls'[d].hash = storeCalls[d].hash
                                              /\ storeCalls'[d].source = storeCalls[d].source
    BY <1>3, <1>5 DEF StoreSaves
  <1>7. StoreOpen' = StoreOpen
    BY <1>6 DEF StoreOpen
  <1>8. StoreBounded'
    BY <1>3, <1>7 DEF StoreIInv, StoreBounded, StoreSettled
  <1>9. StoreCounts'
    <2>1. ASSUME NEW d \in Clerks, storeCalls'[d].pc = "counted", ~storeCalls'[d].crossed
          PROVE  storeCalls'[d].n = Cardinality(StoreOthers(storeCalls'[d].id))
      <3>1. CASE d = c
        BY <2>1, <3>1, <1>3
      <3>2. CASE d # c
        BY <2>1, <3>2, <1>3 DEF StoreIInv, StoreCounts
      <3> QED BY <3>1, <3>2
    <2>2. \A d \in Clerks : StoreOthers(storeCalls[d].id)' = StoreOthers(storeCalls'[d].id)
      BY DEF StoreOthers
    <2> QED BY <2>1, <2>2 DEF StoreCounts
  <1>10. ASSUME NEW d \in Clerks, StoreSaves(d)' PROVE StoreUnmet(d)'
    <2>1. StoreSaves(d) /\ StoreUnmet(d)
      BY <1>6, <1>10 DEF StoreIInv
    <2> QED BY <1>6, <2>1 DEF StoreUnmet
  <1>11. ~drifted' => count' = Cardinality(receipts')
    BY DEF StoreIInv
  <1> QED BY <1>4, <1>8, <1>9, <1>10, <1>11 DEF StoreIInv

LEMMA StoreAddKeeps ==
  ASSUME Store!StoreAssumption, StoreIInv, NEW c \in Clerks, Store!AddToSupplier(c)
  PROVE  StoreIInv'
  <1> DEFINE new == [storeCalls[c] EXCEPT !.pc = "added"]
  <1>1. StoreSaves(c) /\ storeCalls[c] \in StoreSaving /\ storeCalls' = [storeCalls EXCEPT ![c] = new]
    BY StoreAtCall DEF Store!AddToSupplier, StoreIInv, StoreSaves
  <1>2. /\ new \in StoreSaving /\ new.id = storeCalls[c].id /\ new.hash = storeCalls[c].hash
        /\ new.source = storeCalls[c].source /\ new.pc = "added"
    BY <1>1 DEF StoreSaving
  <1>3. StoreRestOK' /\ UNCHANGED <<receipts, count, saved, drifted>>
    BY DEF Store!AddToSupplier, StoreIInv, StoreTyped, StoreRestOK
  <1> HIDE DEF new
  <1> QED BY <1>1, <1>2, <1>3, StoreQuietKeeps

LEMMA StoreDeleteKeeps ==
  ASSUME Store!StoreAssumption, StoreIInv, NEW c \in Clerks, Store!Delete(c) PROVE StoreIInv'
  <1>1. PICK r \in receipts : storeCalls' = [storeCalls EXCEPT ![c] = [pc |-> "found", id |-> r.id]]
    BY DEF Store!Delete
  <1> DEFINE new == [pc |-> "found", id |-> r.id]
  <1>2. new \in StoreDeleting /\ new \notin StoreSaving /\ new.pc = "found"
    BY DEF StoreIInv, StoreTyped, StoreRowsOK, StoreRow, StoreDeleting, StoreSaving
  <1>3. ~StoreSaves(c)
    BY DEF Store!Delete, Store!Free, StoreSaves
  <1>4. StoreRestOK' /\ UNCHANGED <<receipts, count, saved, drifted>>
    BY DEF Store!Delete, StoreIInv, StoreTyped, StoreRestOK
  <1> HIDE DEF new
  <1>5. storeCalls' = [storeCalls EXCEPT ![c] = new]
    BY <1>1 DEF new
  <1> QED BY <1>2, <1>3, <1>4, <1>5, StoreQuietKeeps

LEMMA StoreDeleteRowKeeps ==
  ASSUME Store!StoreAssumption, StoreIInv, NEW c \in Clerks, Store!DeleteRow(c) PROVE StoreIInv'
  <1> DEFINE new == [storeCalls[c] EXCEPT !.pc = "deleted"]
  <1>1. storeCalls[c] \in StoreDeleting /\ ~StoreSaves(c) /\ storeCalls' = [storeCalls EXCEPT ![c] = new]
    BY StoreAtCall DEF Store!DeleteRow, StoreIInv, StoreSaves
  <1>2. new \in StoreDeleting /\ new \notin StoreSaving /\ new.pc = "deleted"
    BY <1>1 DEF StoreDeleting, StoreSaving
  <1>3. StoreRestOK' /\ UNCHANGED <<receipts, count, saved, drifted>>
    BY DEF Store!DeleteRow, StoreIInv, StoreTyped, StoreRestOK
  <1> HIDE DEF new
  <1> QED BY <1>1, <1>2, <1>3, StoreQuietKeeps

LEMMA StoreCountKeeps ==
  ASSUME Store!StoreAssumption, StoreIInv, NEW c \in Clerks, Store!Count(c) PROVE StoreIInv'
  <1> DEFINE id == storeCalls[c].id
             n == Cardinality(StoreOthers(id))
             new == [pc |-> "counted", id |-> id, n |-> n, crossed |-> FALSE]
  <1>1. storeCalls[c].pc = "deleted" /\ storeCalls[c] \in StoreDeleting /\ ~StoreSaves(c)
    BY StoreAtCall DEF Store!Count, StoreIInv, StoreSaves
  <1>2. storeCalls' = [storeCalls EXCEPT ![c] = new]
    BY StoreRemainingIs DEF Store!Count
  <1>3. StoreOthers(id) \subseteq receipts
    BY DEF StoreOthers
  <1>4. n \in Nat /\ n <= Cardinality(receipts) /\ Cardinality(receipts) \in Nat
    BY <1>3, StoreFewerReceipts DEF StoreIInv
  <1>5. StoreSettled \in Nat /\ Cardinality(receipts) <= StoreSettled
    BY StoreOpenIsFinite DEF StoreIInv, StoreBounded
  <1> HIDE DEF n
  <1>6. new \in StoreCounting /\ new.pc = "counted" /\ new.n = n /\ new.id = id /\ new.crossed = FALSE
        /\ new \notin StoreSaving
    BY <1>1, <1>4 DEF StoreCounting, StoreDeleting, StoreSaving
  <1>7. StoreRestOK' /\ UNCHANGED <<receipts, count, saved, drifted>>
    BY DEF Store!Count, StoreIInv, StoreTyped, StoreRestOK
  <1>8. new.n <= StoreSettled /\ new.n = Cardinality(StoreOthers(new.id))
    BY <1>4, <1>5, <1>6 DEF n
  <1> HIDE DEF new
  <1> QED BY <1>1, <1>2, <1>6, <1>7, <1>8, StoreQuietKeeps

LEMMA StoreRowKeeps ==
  ASSUME Store!StoreAssumption, StoreIInv, NEW c \in Clerks, Store!GetRow(c) PROVE StoreIInv'
  <1>1. storeCalls[c] \in StoreCounting /\ ~StoreSaves(c) /\ storeCalls[c] \notin StoreSaving
    BY StoreAtCall DEF Store!GetRow, StoreIInv, StoreSaves
  <1>2. storeCalls' = [storeCalls EXCEPT ![c] = storeCalls[c]]
    BY DEF Store!GetRow, StoreIInv, StoreTyped, StoreCallsOK
  <1>3. StoreRestOK' /\ UNCHANGED <<receipts, count, saved, drifted>>
    BY DEF Store!GetRow, StoreIInv, StoreTyped, StoreRestOK
  <1>4. storeCalls[c].pc = "counted" => /\ storeCalls[c].n <= StoreSettled
                                        /\ ~storeCalls[c].crossed => storeCalls[c].n = Cardinality(StoreOthers(storeCalls[c].id))
    BY DEF StoreIInv, StoreBounded, StoreCounts
  <1> QED BY <1>1, <1>2, <1>3, <1>4, StoreQuietKeeps


\* What a commit makes of the calls: c has ended, and those that counted are crossed.
StoreCrossed(call) == IF call.pc = "counted" THEN [call EXCEPT !.crossed = TRUE] ELSE call

LEMMA StoreCommitCalls ==
  ASSUME Store!StoreAssumption, StoreTyped, NEW c \in Clerks,
         storeCalls' = [Store!Unseen EXCEPT ![c] = Store!Free],
         saved' = saved
  PROVE  /\ StoreCallsOK' /\ ~StoreSaves(c)' /\ storeCalls'[c].pc = "free"
         /\ \A d \in Clerks \ {c} :
              /\ storeCalls'[d].pc = storeCalls[d].pc
              /\ StoreSaves(d) => storeCalls'[d] = storeCalls[d]
              /\ storeCalls[d].pc = "counted" =>
                   /\ storeCalls'[d].crossed = TRUE /\ storeCalls'[d].n = storeCalls[d].n
                   /\ storeCalls'[d].id = storeCalls[d].id
  <1>1. storeCalls'[c] = Store!Free /\ \A d \in Clerks \ {c} : storeCalls'[d] = StoreCrossed(storeCalls[d])
    BY DEF Store!Unseen, StoreCrossed
  <1>2. StoreSaving' = StoreSaving /\ StoreDeleting' = StoreDeleting /\ StoreCounting' = StoreCounting
    BY DEF StoreSaving, StoreDeleting, StoreCounting
  <1>3. ASSUME NEW call \in StoreCounting
        PROVE  [call EXCEPT !.crossed = TRUE] \in [pc : {"counted"}, id : {call.id}, n : {call.n}, crossed : {TRUE}]
    BY DEF StoreCounting
  <1>4. ASSUME NEW call \in StoreCounting, NEW k \in [pc : {"counted"}, id : {call.id}, n : {call.n}, crossed : {TRUE}]
        PROVE  k \in StoreCounting /\ k.crossed = TRUE /\ k.n = call.n /\ k.id = call.id /\ k.pc = call.pc
    BY DEF StoreCounting
  <1>5. \A d \in Clerks : storeCalls[d] \in {Store!Free} \cup StoreSaving \cup StoreDeleting \cup StoreCounting
    BY DEF StoreTyped, StoreCallsOK
  <1>6. ASSUME NEW d \in Clerks, storeCalls[d].pc = "counted"
        PROVE  LET k == StoreCrossed(storeCalls[d])
               IN k \in StoreCounting /\ k.crossed = TRUE /\ k.n = storeCalls[d].n /\ k.id = storeCalls[d].id
                  /\ k.pc = storeCalls[d].pc
    <2>1. storeCalls[d] \in StoreCounting
      BY <1>6, StoreAtCall
    <2>2. StoreCrossed(storeCalls[d]) = [storeCalls[d] EXCEPT !.crossed = TRUE]
      BY <1>6 DEF StoreCrossed
    <2>3. StoreCrossed(storeCalls[d]) \in [pc : {"counted"}, id : {storeCalls[d].id}, n : {storeCalls[d].n}, crossed : {TRUE}]
      BY <2>1, <2>2, <1>3, Zenon
    <2> QED BY <2>1, <2>3, <1>4
  <1>7. \A d \in Clerks : storeCalls[d].pc # "counted" => StoreCrossed(storeCalls[d]) = storeCalls[d]
    BY DEF StoreCrossed
  <1>8. \A d \in Clerks : StoreCrossed(storeCalls[d]) \in {Store!Free} \cup StoreSaving \cup StoreDeleting \cup StoreCounting
    BY <1>5, <1>6, <1>7
  <1>9. storeCalls' \in [Clerks -> {Store!Free} \cup StoreSaving \cup StoreDeleting \cup StoreCounting]
    <2>1. \A d \in Clerks : storeCalls'[d] \in {Store!Free} \cup StoreSaving \cup StoreDeleting \cup StoreCounting
      BY <1>1, <1>8
    <2>2. storeCalls' = [d \in Clerks |-> storeCalls'[d]]
      BY DEF Store!Unseen
    <2> QED BY <2>1, <2>2
  <1>10. StoreCallsOK'
    BY <1>2, <1>9 DEF StoreCallsOK
  <1>11. ~StoreSaves(c)' /\ storeCalls'[c].pc = "free"
    BY <1>1 DEF StoreSaves, Store!Free
  <1>12. \A d \in Clerks : StoreSaves(d) => storeCalls[d].pc # "counted"
    BY DEF StoreSaves
  <1> QED BY <1>1, <1>6, <1>7, <1>10, <1>11, <1>12

LEMMA StoreCommitSaveKeeps ==
  ASSUME Store!StoreAssumption, StoreIInv, NEW c \in Clerks, Store!CommitSave(c) PROVE StoreIInv'
  <1> DEFINE row == [id |-> storeCalls[c].id, hash |-> storeCalls[c].hash, source |-> storeCalls[c].source,
                     reconciled |-> FALSE]
  <1>1. /\ receipts' = receipts \cup {row} /\ count' = count + 1 /\ lock' = Store!Nobody
        /\ storeCalls' = [Store!Unseen EXCEPT ![c] = Store!Free] /\ UNCHANGED <<saved, drifted>>
    BY DEF Store!CommitSave
  <1>2. StoreSaves(c) /\ storeCalls[c] \in StoreSaving /\ StoreUnmet(c) /\ StoreTyped
    BY StoreAtCall DEF Store!CommitSave, StoreSaves, StoreIInv
  <1>3. row \in StoreRow
    BY <1>2 DEF StoreSaving, StoreRow
  <1>4. row.id = storeCalls[c].id
    OBVIOUS
  <1> HIDE DEF row
  <1>5. /\ StoreCallsOK' /\ ~StoreSaves(c)' /\ storeCalls'[c].pc = "free"
        /\ \A d \in Clerks \ {c} :
             /\ storeCalls'[d].pc = storeCalls[d].pc
             /\ StoreSaves(d) => storeCalls'[d] = storeCalls[d]
             /\ storeCalls[d].pc = "counted" =>
                  /\ storeCalls'[d].crossed = TRUE /\ storeCalls'[d].n = storeCalls[d].n
                  /\ storeCalls'[d].id = storeCalls[d].id
    BY <1>1, <1>2, StoreCommitCalls
  <1>6. \A r \in receipts : r.id # row.id
    BY <1>2, <1>4 DEF StoreUnmet
  <1>7. row \notin receipts
    BY <1>6
  <1>8. IsFiniteSet(receipts') /\ Cardinality(receipts') = Cardinality(receipts) + 1
    BY <1>1, <1>2, <1>7, FS_AddElement DEF StoreTyped, StoreRowsOK
  <1>9. StoreRowsOK'
    <2>1. StoreRow' = StoreRow
      BY <1>1 DEF StoreRow
    <2>2. \A r, q \in receipts' : r.id = q.id => r = q
      BY <1>1, <1>2, <1>6 DEF StoreTyped, StoreRowsOK
    <2> QED BY <1>1, <1>2, <1>3, <1>8, <2>1, <2>2 DEF StoreTyped, StoreRowsOK
  <1>10. StoreRestOK'
    BY <1>1, <1>2 DEF StoreTyped, StoreRestOK
  <1>11. \A d \in Clerks : StoreSaves(d)' <=> StoreSaves(d) /\ d # c
    BY <1>5 DEF StoreSaves
  <1>12. StoreOpen' = StoreOpen \ {storeCalls[c].id}
    <2>1. ASSUME NEW n \in StoreOpen' PROVE n \in StoreOpen /\ n # storeCalls[c].id
      <3>1. PICK d \in Clerks : StoreSaves(d)' /\ storeCalls'[d].id = n
        BY <2>1 DEF StoreOpen
      <3>2. d # c /\ StoreSaves(d) /\ storeCalls[d].id = n
        BY <3>1, <1>5, <1>11
      <3>3. n # storeCalls[c].id
        BY <3>2, <1>2 DEF StoreUnmet
      <3> QED BY <2>1, <1>1, <3>2, <3>3 DEF StoreOpen
    <2>2. ASSUME NEW n \in StoreOpen, n # storeCalls[c].id PROVE n \in StoreOpen'
      <3>1. PICK d \in Clerks : StoreSaves(d) /\ storeCalls[d].id = n
        BY <2>2 DEF StoreOpen
      <3>2. StoreSaves(d)' /\ storeCalls'[d].id = n
        BY <2>2, <3>1, <1>5, <1>11
      <3> QED BY <2>2, <3>2, <1>1 DEF StoreOpen
    <2> QED BY <2>1, <2>2
  <1>13. StoreSettled' = StoreSettled + 1
    <2>1. IsFiniteSet(StoreOpen) /\ Cardinality(StoreOpen) \in Nat /\ saved \in Nat
      BY <1>2, StoreOpenIsFinite
    <2>2. storeCalls[c].id \in StoreOpen
      BY <1>2 DEF StoreOpen, StoreSaving
    <2>3. Cardinality(StoreOpen') = Cardinality(StoreOpen) - 1
      BY <1>12, <2>1, <2>2, FS_RemoveElement
    <2> QED BY <1>1, <2>1, <2>3 DEF StoreSettled
  <1>14. StoreSettled \in Nat /\ Cardinality(receipts) \in Nat /\ count \in Nat
    BY <1>2, StoreOpenIsFinite, StoreFewerReceipts DEF StoreTyped, StoreRestOK
  <1>15. StoreBounded'
    <2>1. \A d \in Clerks : storeCalls'[d].pc = "counted" => storeCalls'[d].n <= StoreSettled'
      <3>1. \A d \in Clerks : storeCalls[d].pc = "counted" => storeCalls[d].n <= StoreSettled /\ storeCalls[d].n \in Nat
        BY <1>2, StoreAtCall DEF StoreIInv, StoreBounded, StoreCounting
      <3>2. \A d \in Clerks : storeCalls'[d].pc = "counted" => storeCalls[d].pc = "counted" /\ storeCalls'[d].n = storeCalls[d].n
        BY <1>5
      <3> QED BY <3>1, <3>2, <1>13, <1>14
    <2> QED BY <1>1, <1>8, <1>13, <1>14, <2>1 DEF StoreIInv, StoreBounded
  <1>16. StoreCounts'
    BY <1>5 DEF StoreCounts
  <1>17. ASSUME NEW d \in Clerks, StoreSaves(d)' PROVE StoreUnmet(d)'
    <2>1. d # c /\ StoreSaves(d) /\ StoreUnmet(d) /\ storeCalls'[d] = storeCalls[d]
      BY <1>5, <1>11, <1>17 DEF StoreIInv
    <2>2. storeCalls[d].id # storeCalls[c].id
      BY <1>2, <2>1 DEF StoreUnmet
    <2> QED BY <1>1, <1>4, <1>5, <1>11, <2>1, <2>2 DEF StoreUnmet
  <1>18. ~drifted' => count' = Cardinality(receipts')
    BY <1>1, <1>8 DEF StoreIInv
  <1> QED BY <1>5, <1>9, <1>10, <1>15, <1>16, <1>17, <1>18 DEF StoreIInv, StoreTyped

LEMMA StoreCommitDeleteKeeps ==
  ASSUME Store!StoreAssumption, StoreIInv, NEW c \in Clerks, Store!CommitDelete(c)
  PROVE  StoreIInv'
  <1>1. /\ receipts' = StoreOthers(storeCalls[c].id) /\ count' = storeCalls[c].n /\ lock' = Store!Nobody
        /\ drifted' = storeCalls[c].crossed
        /\ storeCalls' = [Store!Unseen EXCEPT ![c] = Store!Free] /\ saved' = saved
    BY DEF Store!CommitDelete, StoreOthers
  <1>2. storeCalls[c].pc = "counted" /\ storeCalls[c] \in StoreCounting /\ StoreTyped /\ ~StoreSaves(c)
    BY StoreAtCall DEF Store!CommitDelete, StoreIInv, StoreSaves
  <1>3. /\ StoreCallsOK' /\ ~StoreSaves(c)' /\ storeCalls'[c].pc = "free"
        /\ \A d \in Clerks \ {c} :
             /\ storeCalls'[d].pc = storeCalls[d].pc
             /\ StoreSaves(d) => storeCalls'[d] = storeCalls[d]
             /\ storeCalls[d].pc = "counted" =>
                  /\ storeCalls'[d].crossed = TRUE /\ storeCalls'[d].n = storeCalls[d].n
                  /\ storeCalls'[d].id = storeCalls[d].id
    BY <1>1, <1>2, StoreCommitCalls
  <1>4. receipts' \subseteq receipts
    BY <1>1 DEF StoreOthers
  <1>5. IsFiniteSet(receipts') /\ Cardinality(receipts') \in Nat
        /\ Cardinality(receipts') <= Cardinality(receipts) /\ Cardinality(receipts) \in Nat
    BY <1>2, <1>4, StoreFewerReceipts
  <1>6. StoreRowsOK'
    <2>1. StoreRow' = StoreRow
      BY <1>1 DEF StoreRow
    <2> QED BY <1>2, <1>4, <1>5, <2>1 DEF StoreTyped, StoreRowsOK
  <1>7. StoreRestOK'
    BY <1>1, <1>2 DEF StoreTyped, StoreRestOK, StoreCounting
  <1>8. \A d \in Clerks : StoreSaves(d)' <=> StoreSaves(d)
    BY <1>2, <1>3 DEF StoreSaves
  <1>9. \A d \in Clerks : StoreSaves(d) => storeCalls'[d] = storeCalls[d]
    BY <1>2, <1>3
  <1>10. StoreOpen' = StoreOpen
    BY <1>1, <1>8, <1>9 DEF StoreOpen
  <1>11. StoreSettled' = StoreSettled /\ StoreSettled \in Nat
    BY <1>1, <1>2, <1>10, StoreOpenIsFinite DEF StoreSettled
  <1>12. StoreBounded'
    <2>1. \A d \in Clerks : storeCalls'[d].pc = "counted" => storeCalls'[d].n <= StoreSettled'
      BY <1>3, <1>11 DEF StoreIInv, StoreBounded
    <2> QED BY <1>1, <1>2, <1>5, <1>11, <2>1 DEF StoreIInv, StoreBounded
  <1>13. StoreCounts'
    BY <1>3 DEF StoreCounts
  <1>14. ASSUME NEW d \in Clerks, StoreSaves(d)' PROVE StoreUnmet(d)'
    <2>1. StoreSaves(d) /\ StoreUnmet(d) /\ storeCalls'[d] = storeCalls[d]
      BY <1>8, <1>9, <1>14 DEF StoreIInv
    <2> QED BY <1>4, <1>8, <1>9, <2>1 DEF StoreUnmet
  <1>15. ~drifted' => count' = Cardinality(receipts')
    BY <1>1, <1>2 DEF StoreIInv, StoreCounts
  <1> QED BY <1>3, <1>6, <1>7, <1>12, <1>13, <1>14, <1>15 DEF StoreIInv, StoreTyped

\* A payment changes a receipt, and neither their number nor what remains without one of them.
LEMMA StoreReconcileKeeps ==
  ASSUME Store!StoreAssumption, StoreIInv, Store!Reconcile PROVE StoreIInv'
  <1>1. PICK r \in receipts : receipts' = (receipts \ {r}) \cup {[r EXCEPT !.reconciled = ~@]}
    BY DEF Store!Reconcile
  <1> DEFINE q == [r EXCEPT !.reconciled = ~@]
  <1>2. UNCHANGED <<count, lock, storeCalls, saved, drifted>>
    BY DEF Store!Reconcile
  <1>3. StoreTyped /\ r \in StoreRow
    BY DEF StoreIInv, StoreTyped, StoreRowsOK
  <1>4. /\ q \in StoreRow /\ q.id = r.id /\ q.hash = r.hash /\ q.source = r.source
    BY <1>3 DEF StoreRow
  <1>5. receipts' = (receipts \ {r}) \cup {q}
    BY <1>1
  <1> HIDE DEF q
  <1>6. \A p \in receipts \ {r} : p.id # q.id
    BY <1>3, <1>4 DEF StoreTyped, StoreRowsOK
  <1>7. ASSUME NEW S, IsFiniteSet(S), r \in S, S \subseteq receipts
        PROVE  LET T == (S \ {r}) \cup {q} IN IsFiniteSet(T) /\ Cardinality(T) = Cardinality(S)
    <2>1. q \notin S \ {r}
      BY <1>6, <1>7
    <2>2. IsFiniteSet(S \ {r}) /\ Cardinality(S \ {r}) = Cardinality(S) - 1
      BY <1>7, FS_RemoveElement
    <2>3. Cardinality(S) \in Nat
      BY <1>7, FS_CardinalityType
    <2> DEFINE U == S \ {r}
    <2>4. IsFiniteSet(U) /\ Cardinality(U) = Cardinality(S) - 1 /\ q \notin U
      BY <2>1, <2>2
    <2> HIDE DEF U
    <2>5. IsFiniteSet(U \cup {q}) /\ Cardinality(U \cup {q}) = Cardinality(U) + 1
      BY <2>4, FS_AddElement
    <2>6. IsFiniteSet(U \cup {q}) /\ Cardinality(U \cup {q}) = Cardinality(S)
      BY <2>3, <2>4, <2>5
    <2> QED BY <2>6 DEF U
  <1>8. IsFiniteSet(receipts') /\ Cardinality(receipts') = Cardinality(receipts)
    BY <1>3, <1>5, <1>7 DEF StoreTyped, StoreRowsOK
  <1>9. ASSUME NEW id
        PROVE  Cardinality({p \in receipts' : p.id # id}) = Cardinality(StoreOthers(id))
    <2>1. CASE r.id = id
      <3>1. {p \in receipts' : p.id # id} = StoreOthers(id)
        BY <1>4, <1>5, <2>1 DEF StoreOthers
      <3> QED BY <3>1
    <2>2. CASE r.id # id
      <3>1. r \in StoreOthers(id) /\ StoreOthers(id) \subseteq receipts
        BY <2>2 DEF StoreOthers
      <3>2. {p \in receipts' : p.id # id} = (StoreOthers(id) \ {r}) \cup {q}
        BY <1>4, <1>5, <2>2 DEF StoreOthers
      <3>3. IsFiniteSet(StoreOthers(id))
        BY <1>3, <3>1, StoreFewerReceipts
      <3> QED BY <1>7, <3>1, <3>2, <3>3
    <2> QED BY <2>1, <2>2
  <1>10. StoreTyped'
    <2>1. StoreRow' = StoreRow
      BY <1>2 DEF StoreRow
    <2>2. \A p, s \in receipts' : p.id = s.id => p = s
      BY <1>3, <1>5, <1>6 DEF StoreTyped, StoreRowsOK
    <2>3. StoreRowsOK'
      BY <1>3, <1>4, <1>5, <1>8, <2>1, <2>2 DEF StoreTyped, StoreRowsOK
    <2> QED BY <1>2, <1>3, <2>3
            DEF StoreTyped, StoreCallsOK, StoreRestOK, StoreSaving, StoreDeleting, StoreCounting
  <1>11. StoreOpen' = StoreOpen
    BY <1>2 DEF StoreOpen, StoreSaves
  <1>12. StoreBounded'
    BY <1>2, <1>8, <1>11 DEF StoreIInv, StoreBounded, StoreSettled
  <1>13. StoreCounts'
    <2>1. \A id : Cardinality(StoreOthers(id)) = Cardinality({p \in receipts' : p.id # id})
      BY <1>9
    <2>2. \A d \in Clerks : storeCalls[d].pc = "counted" /\ ~storeCalls[d].crossed =>
            storeCalls[d].n = Cardinality({p \in receipts' : p.id # storeCalls[d].id})
      BY <2>1 DEF StoreIInv, StoreCounts
    <2> QED BY <1>2, <2>2 DEF StoreCounts, StoreOthers
  <1>14. ASSUME NEW d \in Clerks, StoreSaves(d)' PROVE StoreUnmet(d)'
    <2>1. StoreSaves(d) /\ StoreUnmet(d)
      BY <1>2, <1>14 DEF StoreIInv, StoreSaves
    <2> QED BY <1>2, <1>4, <1>5, <2>1 DEF StoreUnmet, StoreSaves
  <1>15. ~drifted' => count' = Cardinality(receipts')
    BY <1>2, <1>8 DEF StoreIInv
  <1> QED BY <1>10, <1>12, <1>13, <1>14, <1>15 DEF StoreIInv

LEMMA StoreStepKeeps ==
  ASSUME Store!StoreAssumption, StoreIInv, [Store!Next]_Store!vars PROVE StoreIInv'
  <1>1. CASE UNCHANGED Store!vars
    <2>1. /\ StoreTyped' /\ StoreOpen' = StoreOpen
      BY <1>1
         DEF Store!vars, StoreIInv, StoreTyped, StoreRowsOK, StoreCallsOK, StoreRestOK, StoreRow,
             StoreSaving, StoreDeleting, StoreCounting, StoreOpen, StoreSaves
    <2>2. StoreBounded' /\ StoreCounts' /\ (~drifted' => count' = Cardinality(receipts'))
      BY <1>1, <2>1
         DEF Store!vars, StoreIInv, StoreBounded, StoreSettled, StoreCounts, StoreOthers
    <2>3. \A c \in Clerks : StoreSaves(c)' => StoreUnmet(c)'
      BY <1>1 DEF Store!vars, StoreIInv, StoreUnmet, StoreSaves
    <2> QED BY <2>1, <2>2, <2>3 DEF StoreIInv
  <1> QED BY <1>1, StoreSaveKeeps, StoreAddKeeps, StoreCommitSaveKeeps, StoreDeleteKeeps,
               StoreDeleteRowKeeps, StoreCountKeeps, StoreRowKeeps,
             StoreCommitDeleteKeeps, StoreReconcileKeeps DEF Store!Next

LEMMA StoreIInvAlways == ASSUME Store!StoreAssumption PROVE Store!Spec => []StoreIInv
  <1>1. Store!Init => StoreIInv
    BY StoreInitIInv
  <1>2. StoreIInv /\ [Store!Next]_Store!vars => StoreIInv'
    BY StoreStepKeeps
  <1> QED BY <1>1, <1>2, PTL DEF Store!Spec

LEMMA StoreTypesFollow == ASSUME Store!StoreAssumption, StoreIInv PROVE Store!TypeOK
  <1>1. saved \in 0..MaxReceipts /\ StoreTyped
    BY DEF StoreIInv, StoreTyped, StoreRestOK
  <1>2. 1..saved \subseteq 1..MaxReceipts
    BY <1>1 DEF Store!StoreAssumption
  <1>3. receipts \subseteq [id : 1..MaxReceipts, hash : Hashes, source : Store!Sources,
                            reconciled : BOOLEAN]
    BY <1>1, <1>2 DEF StoreTyped, StoreRowsOK, StoreRow
  <1>4. \A c \in Clerks : storeCalls[c].pc \in {"free", "checked", "added", "found", "deleted", "counted"}
    BY <1>1 DEF StoreTyped, StoreCallsOK, Store!Free, StoreSaving, StoreDeleting, StoreCounting
  <1>5. count \in 0..MaxReceipts
    BY <1>1, StoreOpenIsFinite
       DEF StoreIInv, StoreBounded, StoreTyped, StoreRestOK, Store!StoreAssumption
  <1> QED BY <1>1, <1>3, <1>4, <1>5 DEF Store!TypeOK, StoreTyped, StoreRestOK

LEMMA StoreCountFollows == ASSUME StoreIInv PROVE Store!SupplierCounted
  <1>1. Store!Cardinality(receipts) = Cardinality(receipts)
    BY Zenon DEF Store!Cardinality, Cardinality
  <1> QED BY <1>1 DEF StoreIInv, Store!SupplierCounted

\* A behaviour of the back office is one of the part.
LEMMA StoreRuns == Spec => Store!Spec
  <1>1. Init => Store!Init
    BY DEF Init
  <1>2. [Next]_vars => [Store!Next]_Store!vars
    BY DEF Next, Rest, vars, storeVars, Store!vars
  <1> QED BY <1>1, <1>2, PTL DEF Spec, Store!Spec

LEMMA StoreAlwaysTyped == Spec => []Store!TypeOK
  <1>1. Store!StoreAssumption
    BY BackOfficeAssumption
  <1>2. StoreIInv => Store!TypeOK
    BY <1>1, StoreTypesFollow
  <1> QED BY <1>1, <1>2, StoreRuns, StoreIInvAlways, PTL

\* However saves and deletes cross and fail half way, the supplier counts the receipts it has,
\* unless a delete counted while another call had not committed (receipt_count).
THEOREM SuppliersCounted == Spec => []SupplierCounted
  <1>1. Store!StoreAssumption
    BY BackOfficeAssumption
  <1>2. StoreIInv => SupplierCounted
    BY <1>1, StoreCountFollows DEF SupplierCounted
  <1> QED BY <1>1, <1>2, StoreRuns, StoreIInvAlways, PTL

\* What was read from photos of one bill, and the saves of it that have not committed.
StoreRead(hash) == {r \in receipts : r.source = "ocr" /\ r.hash = hash}
StoreReading(hash) ==
  {c \in Clerks : StoreSaves(c) /\ storeCalls[c].source = "ocr" /\ storeCalls[c].hash = hash}

\* Both together are no more than the clerks: inductive, for who begins finds none there.
StoreWithin ==
  \A hash \in Hashes :
    Cardinality(StoreRead(hash)) + Cardinality(StoreReading(hash)) <= Cardinality(Clerks)

LEMMA StoreClerksFinite == ASSUME Store!StoreAssumption PROVE IsFiniteSet(Clerks)
  <1>1. Store!IsFiniteSet(Clerks) <=> IsFiniteSet(Clerks)
    BY Zenon DEF Store!IsFiniteSet, IsFiniteSet
  <1> QED BY <1>1 DEF Store!StoreAssumption

LEMMA StoreReadFinite ==
  ASSUME Store!StoreAssumption, StoreTyped, NEW hash
  PROVE  /\ IsFiniteSet(StoreRead(hash)) /\ Cardinality(StoreRead(hash)) \in Nat
         /\ IsFiniteSet(StoreReading(hash)) /\ Cardinality(StoreReading(hash)) \in Nat
         /\ Cardinality(StoreReading(hash)) <= Cardinality(Clerks) /\ Cardinality(Clerks) \in Nat
  <1>1. StoreRead(hash) \subseteq receipts /\ StoreReading(hash) \subseteq Clerks
    BY DEF StoreRead, StoreReading
  <1>2. IsFiniteSet(StoreRead(hash)) /\ Cardinality(StoreRead(hash)) \in Nat
    BY <1>1, StoreFewerReceipts
  <1>3. IsFiniteSet(StoreReading(hash)) /\ Cardinality(StoreReading(hash)) <= Cardinality(Clerks)
    BY <1>1, StoreClerksFinite, FS_Subset
  <1> QED BY <1>2, <1>3, StoreClerksFinite, FS_CardinalityType

LEMMA StoreWithinInit == ASSUME Store!StoreAssumption, StoreIInv, Store!Init PROVE StoreWithin
  <1>1. ASSUME NEW hash \in Hashes
        PROVE  Cardinality(StoreRead(hash)) + Cardinality(StoreReading(hash)) <= Cardinality(Clerks)
    <2>1. StoreRead(hash) = {}
      BY DEF StoreRead, Store!Init
    <2>2. Cardinality(StoreRead(hash)) = 0
      BY <2>1, FS_EmptySet
    <2> QED BY <2>2, StoreReadFinite DEF StoreIInv
  <1> QED BY <1>1 DEF StoreWithin

\* What adds neither a receipt that was read nor a save of one keeps it.
LEMMA StoreFewerKeeps ==
  ASSUME Store!StoreAssumption, StoreIInv, StoreWithin,
         \A hash \in Hashes : /\ StoreRead(hash)' \subseteq StoreRead(hash)
                              /\ StoreReading(hash)' \subseteq StoreReading(hash)
  PROVE  StoreWithin'
  <1>1. ASSUME NEW hash \in Hashes
        PROVE  Cardinality(StoreRead(hash)') + Cardinality(StoreReading(hash)') <= Cardinality(Clerks)
    <2>1. /\ IsFiniteSet(StoreRead(hash)) /\ IsFiniteSet(StoreReading(hash))
          /\ Cardinality(StoreRead(hash)) \in Nat /\ Cardinality(StoreReading(hash)) \in Nat
          /\ Cardinality(Clerks) \in Nat
      BY StoreReadFinite DEF StoreIInv
    <2>2. IsFiniteSet(StoreRead(hash)') /\ Cardinality(StoreRead(hash)') <= Cardinality(StoreRead(hash))
      BY <2>1, FS_Subset
    <2>3. IsFiniteSet(StoreReading(hash)') /\ Cardinality(StoreReading(hash)') <= Cardinality(StoreReading(hash))
      BY <2>1, FS_Subset
    <2>4. Cardinality(StoreRead(hash)') \in Nat /\ Cardinality(StoreReading(hash)') \in Nat
      BY <2>2, <2>3, FS_CardinalityType
    <2>5. Cardinality(StoreRead(hash)) + Cardinality(StoreReading(hash)) <= Cardinality(Clerks)
      BY DEF StoreWithin
    <2> QED BY <2>1, <2>2, <2>3, <2>4, <2>5
  <1> QED BY <1>1 DEF StoreWithin

\* A save begins when nothing of its bill is there, and is at most one of all the clerks.
LEMMA StoreSaveWithin ==
  ASSUME Store!StoreAssumption, StoreIInv, StoreIInv', StoreWithin, NEW c \in Clerks, Store!Save(c)
  PROVE  StoreWithin'
  <1>1. PICK bill \in Hashes, source \in Store!Sources :
          /\ source = "ocr" => ~Store!Duplicate(bill)
          /\ storeCalls' = [storeCalls EXCEPT ![c] =
               [pc |-> "checked", id |-> saved', hash |-> bill, source |-> source]]
    BY DEF Store!Save
  <1>2. receipts' = receipts
    BY DEF Store!Save
  <1>3. storeCalls'[c] = [pc |-> "checked", id |-> saved', hash |-> bill, source |-> source]
        /\ \A d \in Clerks \ {c} : storeCalls'[d] = storeCalls[d]
    BY <1>1 DEF StoreIInv, StoreTyped, StoreCallsOK
  <1>4. ASSUME NEW hash \in Hashes
        PROVE  Cardinality(StoreRead(hash)') + Cardinality(StoreReading(hash)') <= Cardinality(Clerks)
    <2>1. StoreRead(hash)' = StoreRead(hash)
      BY <1>2 DEF StoreRead
    <2>2. CASE source = "ocr" /\ hash = bill
      <3>1. StoreRead(hash) = {}
        BY <1>1, <2>2 DEF StoreRead, Store!Duplicate
      <3>2. Cardinality(StoreRead(hash)') = 0
        BY <2>1, <3>1, FS_EmptySet
      <3>3. StoreReading(hash)' \subseteq Clerks
        BY DEF StoreReading
      <3>4. Cardinality(StoreReading(hash)') <= Cardinality(Clerks)
            /\ Cardinality(StoreReading(hash)') \in Nat /\ Cardinality(Clerks) \in Nat
        BY <3>3, StoreClerksFinite, FS_Subset, FS_CardinalityType
      <3> QED BY <3>2, <3>4
    <2>3. CASE ~(source = "ocr" /\ hash = bill)
      <3>1. StoreReading(hash)' \subseteq StoreReading(hash)
        BY <1>3, <2>3 DEF StoreReading, StoreSaves
      <3>2. /\ IsFiniteSet(StoreReading(hash)) /\ Cardinality(StoreReading(hash)) \in Nat
            /\ Cardinality(StoreRead(hash)) \in Nat /\ Cardinality(Clerks) \in Nat
        BY StoreReadFinite DEF StoreIInv
      <3>3. Cardinality(StoreReading(hash)') <= Cardinality(StoreReading(hash))
            /\ Cardinality(StoreReading(hash)') \in Nat
        BY <3>1, <3>2, FS_Subset, FS_CardinalityType
      <3>4. Cardinality(StoreRead(hash)) + Cardinality(StoreReading(hash)) <= Cardinality(Clerks)
        BY DEF StoreWithin
      <3> QED BY <2>1, <3>2, <3>3, <3>4
    <2> QED BY <2>2, <2>3
  <1> QED BY <1>4 DEF StoreWithin

\* A save that commits makes a receipt of itself.
LEMMA StoreCommitSaveWithin ==
  ASSUME Store!StoreAssumption, StoreIInv, StoreWithin, NEW c \in Clerks, Store!CommitSave(c)
  PROVE  StoreWithin'
  <1> DEFINE row == [id |-> storeCalls[c].id, hash |-> storeCalls[c].hash, source |-> storeCalls[c].source,
                     reconciled |-> FALSE]
  <1>1. /\ receipts' = receipts \cup {row} /\ StoreSaves(c) /\ StoreTyped /\ saved' = saved
        /\ storeCalls' = [Store!Unseen EXCEPT ![c] = Store!Free]
    BY DEF Store!CommitSave, StoreSaves, StoreIInv
  <1>2. row.source = storeCalls[c].source /\ row.hash = storeCalls[c].hash /\ row.id = storeCalls[c].id
    OBVIOUS
  <1> HIDE DEF row
  <1>3. row \notin receipts
    BY <1>1, <1>2 DEF StoreIInv, StoreUnmet
  <1>4. /\ \A d \in Clerks : StoreSaves(d)' <=> StoreSaves(d) /\ d # c
        /\ \A d \in Clerks \ {c} : StoreSaves(d) => storeCalls'[d] = storeCalls[d]
    <2>1. /\ ~StoreSaves(c)'
          /\ \A d \in Clerks \ {c} :
               storeCalls'[d].pc = storeCalls[d].pc /\ (StoreSaves(d) => storeCalls'[d] = storeCalls[d])
      BY <1>1, StoreCommitCalls
    <2> QED BY <2>1 DEF StoreSaves
  <1>5. ASSUME NEW hash \in Hashes
        PROVE  Cardinality(StoreRead(hash)') + Cardinality(StoreReading(hash)') <= Cardinality(Clerks)
    <2>1. /\ IsFiniteSet(StoreReading(hash)) /\ Cardinality(StoreReading(hash)) \in Nat
          /\ IsFiniteSet(StoreRead(hash)) /\ Cardinality(StoreRead(hash)) \in Nat
          /\ Cardinality(Clerks) \in Nat
      BY <1>1, StoreReadFinite
    <2>2. StoreReading(hash)' = StoreReading(hash) \ {c}
      <3>1. \A d \in Clerks : d \in StoreReading(hash)' <=> d # c /\ d \in StoreReading(hash)
        BY <1>4 DEF StoreReading, StoreSaves
      <3>2. StoreReading(hash)' \subseteq Clerks /\ StoreReading(hash) \subseteq Clerks
        BY DEF StoreReading
      <3> QED BY <3>1, <3>2
    <2>3. Cardinality(StoreRead(hash)) + Cardinality(StoreReading(hash)) <= Cardinality(Clerks)
      BY DEF StoreWithin
    <2>4. CASE storeCalls[c].source = "ocr" /\ storeCalls[c].hash = hash
      <3>1. c \in StoreReading(hash)
        BY <1>1, <2>4 DEF StoreReading
      <3>2. Cardinality(StoreReading(hash)') = Cardinality(StoreReading(hash)) - 1
        BY <2>1, <2>2, <3>1, FS_RemoveElement
      <3>3. StoreRead(hash)' = StoreRead(hash) \cup {row} /\ row \notin StoreRead(hash)
        BY <1>1, <1>2, <1>3, <2>4 DEF StoreRead
      <3>4. Cardinality(StoreRead(hash)') = Cardinality(StoreRead(hash)) + 1
        BY <2>1, <3>3, FS_AddElement
      <3> QED BY <2>1, <2>3, <3>2, <3>4
    <2>5. CASE ~(storeCalls[c].source = "ocr" /\ storeCalls[c].hash = hash)
      <3>1. StoreRead(hash)' = StoreRead(hash)
        BY <1>1, <1>2, <2>5 DEF StoreRead
      <3>2. StoreReading(hash)' = StoreReading(hash)
        BY <2>2, <2>5 DEF StoreReading
      <3> QED BY <2>3, <3>1, <3>2
    <2> QED BY <2>4, <2>5
  <1> QED BY <1>5 DEF StoreWithin

\* A payment leaves a receipt what it is but for its flag.
LEMMA StoreReconcileWithin ==
  ASSUME Store!StoreAssumption, StoreIInv, StoreWithin, Store!Reconcile PROVE StoreWithin'
  <1>1. PICK r \in receipts : receipts' = (receipts \ {r}) \cup {[r EXCEPT !.reconciled = ~@]}
    BY DEF Store!Reconcile
  <1> DEFINE q == [r EXCEPT !.reconciled = ~@]
  <1>2. storeCalls' = storeCalls /\ StoreTyped /\ r \in StoreRow
    BY DEF Store!Reconcile, StoreIInv, StoreTyped, StoreRowsOK
  <1>3. q.id = r.id /\ q.hash = r.hash /\ q.source = r.source
    BY <1>2 DEF StoreRow
  <1>4. receipts' = (receipts \ {r}) \cup {q}
    BY <1>1
  <1> HIDE DEF q
  <1>5. q \notin receipts \ {r}
    BY <1>2, <1>3 DEF StoreTyped, StoreRowsOK
  <1>6. ASSUME NEW hash \in Hashes
        PROVE  Cardinality(StoreRead(hash)') + Cardinality(StoreReading(hash)') <= Cardinality(Clerks)
    <2>1. StoreReading(hash)' = StoreReading(hash)
      BY <1>2 DEF StoreReading, StoreSaves
    <2>2. IsFiniteSet(StoreRead(hash)) /\ Cardinality(StoreRead(hash)) \in Nat
      BY <1>2, StoreReadFinite
    <2>3. Cardinality(StoreRead(hash)) + Cardinality(StoreReading(hash)) <= Cardinality(Clerks)
      BY DEF StoreWithin
    <2>4. CASE r.source = "ocr" /\ r.hash = hash
      <3> DEFINE others == StoreRead(hash) \ {r}
      <3>1. r \in StoreRead(hash)
        BY <2>4 DEF StoreRead
      <3>2. IsFiniteSet(others) /\ Cardinality(others) = Cardinality(StoreRead(hash)) - 1
        BY <2>2, <3>1, FS_RemoveElement
      <3>3. StoreRead(hash)' = others \cup {q} /\ q \notin others
        BY <1>3, <1>4, <1>5, <2>4 DEF StoreRead
      <3> HIDE DEF others
      <3>4. Cardinality(StoreRead(hash)') = Cardinality(others) + 1
        BY <3>2, <3>3, FS_AddElement
      <3> QED BY <2>1, <2>2, <2>3, <3>2, <3>4
    <2>5. CASE ~(r.source = "ocr" /\ r.hash = hash)
      <3>1. StoreRead(hash)' = StoreRead(hash)
        BY <1>3, <1>4, <2>5 DEF StoreRead
      <3> QED BY <2>1, <2>3, <3>1
    <2> QED BY <2>4, <2>5
  <1> QED BY <1>6 DEF StoreWithin

\* The other steps of a call neither begin a save nor end one.
LEMMA StoreOtherWithin ==
  ASSUME Store!StoreAssumption, StoreIInv, StoreWithin, NEW c \in Clerks,
         \/ Store!AddToSupplier(c) \/ Store!Delete(c) \/ Store!DeleteRow(c) \/ Store!Count(c)
         \/ Store!GetRow(c) \/ Store!CommitDelete(c)
  PROVE  StoreWithin'
  <1>1. StoreTyped
    BY DEF StoreIInv
  <1>2. receipts' \subseteq receipts
    BY DEF Store!AddToSupplier, Store!Delete, Store!DeleteRow, Store!Count, Store!GetRow,
           Store!CommitDelete
  <1>3. \A d \in Clerks : StoreSaves(d)' =>
          /\ StoreSaves(d) /\ storeCalls'[d].hash = storeCalls[d].hash
          /\ storeCalls'[d].source = storeCalls[d].source
    <2>1. CASE Store!AddToSupplier(c)
      <3>1. /\ StoreSaves(c) /\ storeCalls[c] \in StoreSaving
            /\ storeCalls' = [storeCalls EXCEPT ![c] = [storeCalls[c] EXCEPT !.pc = "added"]]
        BY <1>1, <2>1, StoreAtCall DEF Store!AddToSupplier, StoreSaves
      <3>2. LET new == [storeCalls[c] EXCEPT !.pc = "added"]
            IN new.hash = storeCalls[c].hash /\ new.source = storeCalls[c].source
        BY <3>1 DEF StoreSaving
      <3>3. storeCalls'[c] = [storeCalls[c] EXCEPT !.pc = "added"]
            /\ \A d \in Clerks \ {c} : storeCalls'[d] = storeCalls[d]
        BY <1>1, <3>1 DEF StoreTyped, StoreCallsOK
      <3> QED BY <3>1, <3>2, <3>3 DEF StoreSaves
    <2>2. CASE Store!Delete(c)
      <3>1. PICK r \in receipts : storeCalls' = [storeCalls EXCEPT ![c] = [pc |-> "found", id |-> r.id]]
        BY <2>2 DEF Store!Delete
      <3> QED BY <1>1, <3>1 DEF StoreTyped, StoreCallsOK, StoreSaves
    <2>3. CASE Store!DeleteRow(c)
      <3>1. /\ storeCalls' = [storeCalls EXCEPT ![c] = [storeCalls[c] EXCEPT !.pc = "deleted"]]
            /\ storeCalls[c] \in StoreDeleting
        BY <1>1, <2>3, StoreAtCall DEF Store!DeleteRow
      <3>2. [storeCalls[c] EXCEPT !.pc = "deleted"].pc = "deleted"
        BY <3>1 DEF StoreDeleting
      <3> QED BY <1>1, <3>1, <3>2 DEF StoreTyped, StoreCallsOK, StoreSaves
    <2>4. CASE Store!Count(c)
      <3>1. PICK n : storeCalls' = [storeCalls EXCEPT ![c] =
              [pc |-> "counted", id |-> storeCalls[c].id, n |-> n, crossed |-> FALSE]]
        BY <2>4 DEF Store!Count
      <3> QED BY <1>1, <3>1 DEF StoreTyped, StoreCallsOK, StoreSaves
    <2>5. CASE Store!GetRow(c)
      BY <2>5 DEF Store!GetRow, StoreSaves
    <2>6. CASE Store!CommitDelete(c)
      <3>1. storeCalls' = [Store!Unseen EXCEPT ![c] = Store!Free] /\ saved' = saved
        BY <2>6 DEF Store!CommitDelete
      <3>2. ~StoreSaves(c)' /\ \A d \in Clerks \ {c} :
              storeCalls'[d].pc = storeCalls[d].pc /\ (StoreSaves(d) => storeCalls'[d] = storeCalls[d])
        BY <1>1, <3>1, StoreCommitCalls
      <3> QED BY <3>2 DEF StoreSaves
    <2> QED BY <2>1, <2>2, <2>3, <2>4, <2>5, <2>6
  <1>4. \A hash \in Hashes : /\ StoreRead(hash)' \subseteq StoreRead(hash)
                             /\ StoreReading(hash)' \subseteq StoreReading(hash)
    BY <1>2, <1>3 DEF StoreRead, StoreReading
  <1> QED BY <1>4, StoreFewerKeeps

LEMMA StoreWithinKept ==
  ASSUME Store!StoreAssumption, StoreIInv, StoreIInv', StoreWithin, [Store!Next]_Store!vars
  PROVE  StoreWithin'
  <1>1. CASE UNCHANGED Store!vars
    <2>1. \A hash \in Hashes : /\ StoreRead(hash)' \subseteq StoreRead(hash)
                               /\ StoreReading(hash)' \subseteq StoreReading(hash)
      BY <1>1 DEF Store!vars, StoreRead, StoreReading, StoreSaves
    <2> QED BY <2>1, StoreFewerKeeps
  <1> QED BY <1>1, StoreSaveWithin, StoreCommitSaveWithin, StoreReconcileWithin, StoreOtherWithin
          DEF Store!Next

\* However people save, pay and delete the receipts of a supplier, a bill that was read from a
\* photo is there at most as often as it could be being saved at once (DUPLICATE_BILL).
THEOREM BillsWithinBound == Spec => []BillsBounded
  <1>1. Store!StoreAssumption
    BY BackOfficeAssumption
  <1>2. Store!Init => StoreWithin
    BY <1>1, StoreInitIInv, StoreWithinInit
  <1>3. StoreIInv /\ StoreIInv' /\ StoreWithin /\ [Store!Next]_Store!vars => StoreWithin'
    BY <1>1, StoreWithinKept
  <1>4. StoreIInv /\ StoreWithin => BillsBounded
    <2> SUFFICES ASSUME StoreIInv, StoreWithin, NEW hash \in Hashes
                 PROVE  Store!Cardinality(Store!ReadOf(hash)) <= Store!Cardinality(Clerks)
      BY DEF BillsBounded, Store!BillsBounded
    <2>1. \A S : Store!Cardinality(S) = Cardinality(S)
      BY Zenon DEF Store!Cardinality, Cardinality
    <2>2. Store!ReadOf(hash) = StoreRead(hash)
      BY DEF Store!ReadOf, StoreRead
    <2>3. Cardinality(StoreRead(hash)) + Cardinality(StoreReading(hash)) <= Cardinality(Clerks)
      BY DEF StoreWithin
    <2>4. Cardinality(StoreRead(hash)) \in Nat /\ Cardinality(StoreReading(hash)) \in Nat
          /\ Cardinality(Clerks) \in Nat
      BY <1>1, StoreReadFinite DEF StoreIInv
    <2> QED BY <2>1, <2>2, <2>3, <2>4
  <1> QED BY <1>1, <1>2, <1>3, <1>4, StoreRuns, StoreIInvAlways, PTL DEF Store!Spec

-----------------------------------------------------------------------------
(* The notices of payments.                                                *)

NoticesStates == [Notices!Handlers -> Notices!Outcomes \cup {Notices!Idle, Notices!Absent}]

NoticesTypes ==
  /\ outcome \in [Transfers -> Notices!Outcomes \cup {Notices!Unknown}]
  /\ runs \in [Transfers -> NoticesStates]
  /\ reports \in 0..MaxReports
  /\ toasts \in [Transfers -> Nat] /\ messages \in [Transfers -> Nat]
  /\ retained \in Orders \cup {Notices!NoQr} /\ timers \subseteq Orders /\ connected \in BOOLEAN
  /\ paid \subseteq Orders /\ lost \subseteq Orders
  /\ unheard \subseteq Transfers /\ overlapped \subseteq Transfers

\* What a handler may still tell of t: once, if it is at work on it.
NoticesDue(t, h) == IF runs[t][h] = Notices!Idle THEN 0 ELSE 1

\* A transfer is told by each handler that has found no row of it, and there are two of them
\* only if their lookups overlapped.
NoticesShared(t) ==
  LET due == NoticesDue(t, "worker") + NoticesDue(t, "request")
      most == IF t \in overlapped THEN 2 ELSE 1
  IN messages[t] + due <= most /\ toasts[t] + due <= most

\* What there is no row of has not been told, and nobody is about to.
NoticesUnwritten(t) ==
  outcome[t] = Notices!Unknown =>
    /\ messages[t] = 0 /\ toasts[t] = 0 /\ t \notin unheard
    /\ \A h \in Notices!Handlers : runs[t][h] \notin Notices!Outcomes

\* Without an overlap the handler that writes the row is the only one at work, and what it is
\* to tell is what it wrote.
NoticesAlone(t) ==
  t \notin overlapped =>
    \A h \in Notices!Handlers :
      /\ runs[t][h] = Notices!Absent => outcome[t] = Notices!Unknown
      /\ runs[t][h] \in Notices!Outcomes => outcome[t] = runs[t][h] /\ t \notin unheard

\* ToldOnce, of one transfer.
NoticesTold(t) ==
  LET hears == outcome[t] # Notices!Unknown /\ ~Notices!Telling(t) /\ t \notin unheard IN
  IF t \in overlapped
  THEN /\ messages[t] <= 2 /\ toasts[t] <= 2
       /\ hears /\ t \notin Untold => messages[t] > 0
  ELSE /\ messages[t] = IF hears /\ t \notin Untold THEN 1 ELSE 0
       /\ toasts[t] = IF hears /\ outcome[t].kind = "matched" THEN 1 ELSE 0

NoticesOf(t) == NoticesShared(t) /\ NoticesUnwritten(t) /\ NoticesAlone(t) /\ NoticesTold(t)

\* The inductive invariant.
NoticesIInv == NoticesTypes /\ (\A t \in Transfers : NoticesOf(t)) /\ Notices!PaidQrGone

\* The states of a handler differ, and so do a transfer without a row and one with.
LEMMA NoticesKinds ==
  /\ \A o \in Notices!Outcomes :
       o # Notices!Unknown /\ o # Notices!Idle /\ o # Notices!Absent
  /\ Notices!Idle # Notices!Absent
  /\ \A o \in Notices!Outcomes : o.kind = "matched" => o.order \in Orders
  BY DEF Notices!Outcomes, Notices!Unknown, Notices!Idle, Notices!Absent

LEMMA NoticesInitIInv == ASSUME Notices!NoticesAssumption, Notices!Init PROVE NoticesIInv
  <1>1. NoticesTypes
    BY DEF Notices!NoticesAssumption, Notices!Init, NoticesTypes, NoticesStates
  <1>2. ASSUME NEW t \in Transfers PROVE NoticesOf(t)
    <2>1. \A h \in Notices!Handlers : runs[t][h] = Notices!Idle
      BY DEF Notices!Init
    <2>2. ~Notices!Telling(t) /\ outcome[t] = Notices!Unknown /\ messages[t] = 0 /\ toasts[t] = 0
          /\ t \notin unheard /\ t \notin overlapped
      BY <2>1, NoticesKinds DEF Notices!Init, Notices!Telling
    <2> QED BY <2>1, <2>2, NoticesKinds
               DEF NoticesOf, NoticesShared, NoticesDue, NoticesUnwritten, NoticesAlone,
                   NoticesTold, Notices!Handlers
  <1> QED BY <1>1, <1>2 DEF NoticesIInv, Notices!Init, Notices!PaidQrGone

\* A step that leaves a transfer alone.
NoticesSame(u) ==
  /\ outcome'[u] = outcome[u] /\ messages'[u] = messages[u] /\ toasts'[u] = toasts[u]
  /\ \A h \in Notices!Handlers : runs'[u][h] = runs[u][h]
  /\ (u \in unheard' <=> u \in unheard) /\ (u \in overlapped' <=> u \in overlapped)

LEMMA NoticesSameKeeps == ASSUME NEW u, NoticesOf(u), NoticesSame(u) PROVE NoticesOf(u)'
  <1>1. Notices!Telling(u)' <=> Notices!Telling(u)
    BY DEF NoticesSame, Notices!Telling
  <1> QED BY <1>1
             DEF NoticesSame, NoticesOf, NoticesShared, NoticesDue, NoticesUnwritten,
                 NoticesAlone, NoticesTold, Notices!Handlers

\* What a handler that moves leaves as it was.
LEMMA NoticesRunMoves ==
  ASSUME NoticesTypes, NEW t \in Transfers, NEW h \in Notices!Handlers, NEW v,
         runs' = [runs EXCEPT ![t][h] = v]
  PROVE  /\ runs'[t][h] = v
         /\ \A u \in Transfers, g \in Notices!Handlers : u # t \/ g # h => runs'[u][g] = runs[u][g]
         /\ v \in Notices!Outcomes \cup {Notices!Idle, Notices!Absent} =>
              runs' \in [Transfers -> NoticesStates]
  BY DEF NoticesTypes, NoticesStates

LEMMA NoticesOtherIs ==
  ASSUME NEW h \in Notices!Handlers
  PROVE  /\ Notices!Other(h) \in Notices!Handlers /\ Notices!Other(h) # h
         /\ Notices!Handlers = {h, Notices!Other(h)}
         /\ \A t : NoticesDue(t, "worker") + NoticesDue(t, "request")
                    = NoticesDue(t, h) + NoticesDue(t, Notices!Other(h))
  <1>1. \A t, g : NoticesDue(t, g) \in Nat
    BY DEF NoticesDue
  <1> QED BY <1>1 DEF Notices!Handlers, Notices!Other

LEMMA NoticesLookupKeeps ==
  ASSUME Notices!NoticesAssumption, NoticesIInv, NEW t \in Transfers, NEW h \in Notices!Handlers,
         Notices!Lookup(t, h)
  PROVE  NoticesIInv'
  <1>1. reports' \in 0..MaxReports
    BY DEF Notices!Lookup, NoticesIInv, NoticesTypes, Notices!NoticesAssumption
  <1>2. CASE UNCHANGED <<runs, overlapped>>
    <2>1. NoticesTypes'
      BY <1>1, <1>2 DEF Notices!Lookup, NoticesIInv, NoticesTypes
    <2>2. \A u \in Transfers : NoticesSame(u)
      BY <1>2 DEF Notices!Lookup, NoticesSame
    <2> QED BY <2>1, <2>2, NoticesSameKeeps DEF Notices!Lookup, NoticesIInv, Notices!PaidQrGone
  <1>3. CASE /\ ~Notices!Found(t)
             /\ runs' = [runs EXCEPT ![t][h] = Notices!Absent]
             /\ overlapped' = IF runs[t][Notices!Other(h)] = Notices!Absent
                              THEN overlapped \cup {t} ELSE overlapped
    <2> DEFINE g == Notices!Other(h)
    <2>1. g \in Notices!Handlers /\ g # h /\ Notices!Handlers = {h, g}
      BY NoticesOtherIs
    <2>2. /\ runs'[t][h] = Notices!Absent /\ runs'[t][g] = runs[t][g]
          /\ runs[t][h] = Notices!Idle
          /\ \A u \in Transfers \ {t}, f \in Notices!Handlers : runs'[u][f] = runs[u][f]
      BY <1>3, <2>1, NoticesRunMoves DEF Notices!Lookup, Notices!Free, NoticesIInv
    <2>3. NoticesTypes'
      BY <1>1, <1>3, NoticesRunMoves DEF Notices!Lookup, NoticesIInv, NoticesTypes
    <2>4. /\ outcome[t] = Notices!Unknown /\ messages[t] = 0 /\ toasts[t] = 0 /\ t \notin unheard
          /\ runs[t][g] \in {Notices!Idle, Notices!Absent}
      BY <1>3, <2>1
         DEF Notices!Found, NoticesIInv, NoticesOf, NoticesUnwritten, NoticesTypes, NoticesStates
    <2>5. ~Notices!Telling(t)'
      BY <2>1, <2>2, <2>4, NoticesKinds DEF Notices!Telling
    <2>6. NoticesOf(t)'
      <3>1. NoticesShared(t)'
        <4>1. (NoticesDue(t, "worker") + NoticesDue(t, "request"))'
              = NoticesDue(t, h)' + NoticesDue(t, g)'
          <5>1. \A f : NoticesDue(t, f)' \in Nat
            BY DEF NoticesDue
          <5> QED BY <5>1 DEF Notices!Handlers, Notices!Other
        <4>2. NoticesDue(t, h)' = 1 /\ NoticesDue(t, g)' \in {0, 1}
              /\ (t \notin overlapped' => NoticesDue(t, g)' = 0)
          BY <1>3, <2>2, <2>4, NoticesKinds DEF NoticesDue
        <4> QED BY <4>1, <4>2, <2>4 DEF NoticesShared, Notices!Lookup
      <3>2. NoticesUnwritten(t)' /\ NoticesAlone(t)' /\ NoticesTold(t)'
        BY <2>1, <2>2, <2>4, <2>5, NoticesKinds
           DEF Notices!Lookup, NoticesUnwritten, NoticesAlone, NoticesTold
      <3> QED BY <3>1, <3>2 DEF NoticesOf
    <2>7. \A u \in Transfers \ {t} : NoticesSame(u)
      BY <1>3, <2>2 DEF Notices!Lookup, NoticesSame
    <2> QED BY <2>3, <2>6, <2>7, NoticesSameKeeps
            DEF Notices!Lookup, NoticesIInv, Notices!PaidQrGone
  <1> QED BY <1>2, <1>3 DEF Notices!Lookup

LEMMA NoticesCommitKeeps ==
  ASSUME Notices!NoticesAssumption, NoticesIInv, NEW t \in Transfers, NEW h \in Notices!Handlers,
         Notices!Commit(t, h)
  PROVE  NoticesIInv'
  <1> DEFINE g == Notices!Other(h)
  <1>1. g \in Notices!Handlers /\ g # h /\ Notices!Handlers = {h, g}
    BY NoticesOtherIs
  <1>2. PICK o \in Notices!Outcomes :
          /\ outcome' = [outcome EXCEPT ![t] = o]
          /\ \/ runs' = [runs EXCEPT ![t][h] = o] /\ unheard' = unheard
             \/ runs' = [runs EXCEPT ![t][h] = Notices!Idle] /\ unheard' = unheard \cup {t}
    BY DEF Notices!Commit
  <1>3. /\ outcome'[t] = o /\ \A u \in Transfers \ {t} : outcome'[u] = outcome[u]
        /\ outcome' \in [Transfers -> Notices!Outcomes \cup {Notices!Unknown}]
    BY <1>2 DEF NoticesIInv, NoticesTypes
  <1>4. /\ (runs'[t][h] = o /\ unheard' = unheard) \/ (runs'[t][h] = Notices!Idle /\ t \in unheard')
        /\ runs'[t][g] = runs[t][g]
        /\ \A u \in Transfers \ {t} : u \in unheard' <=> u \in unheard
        /\ \A u \in Transfers \ {t}, f \in Notices!Handlers : runs'[u][f] = runs[u][f]
        /\ runs' \in [Transfers -> NoticesStates]
    BY <1>1, <1>2, NoticesRunMoves DEF NoticesIInv
  <1>5. runs[t][h] = Notices!Absent /\ overlapped' = overlapped
        /\ messages' = messages /\ toasts' = toasts
    BY DEF Notices!Commit
  <1>6. NoticesTypes'
    BY <1>2, <1>3, <1>4, <1>5 DEF Notices!Commit, NoticesIInv, NoticesTypes
  <1>7. NoticesOf(t)'
    <2>1. NoticesOf(t) /\ messages[t] \in Nat /\ toasts[t] \in Nat
      BY DEF NoticesIInv, NoticesTypes
    <2>2. NoticesDue(t, h) = 1 /\ NoticesDue(t, h)' \in {0, 1}
          /\ NoticesDue(t, g)' = NoticesDue(t, g) /\ NoticesDue(t, g) \in {0, 1}
      BY <1>4, <1>5, NoticesKinds DEF NoticesDue
    <2>3. /\ NoticesDue(t, "worker") + NoticesDue(t, "request") = NoticesDue(t, h) + NoticesDue(t, g)
          /\ (NoticesDue(t, "worker") + NoticesDue(t, "request"))'
             = NoticesDue(t, h)' + NoticesDue(t, g)'
      BY <1>1, <2>2 DEF Notices!Handlers, Notices!Other
    <2>4. NoticesShared(t)'
      BY <1>5, <2>1, <2>2, <2>3 DEF NoticesOf, NoticesShared
    <2>5. NoticesUnwritten(t)'
      BY <1>3, NoticesKinds DEF NoticesUnwritten
    <2>6. t \notin overlapped =>
            /\ outcome[t] = Notices!Unknown /\ runs[t][g] = Notices!Idle /\ t \notin unheard
            /\ messages[t] = 0 /\ toasts[t] = 0
      <3>1. t \notin overlapped => NoticesDue(t, g) = 0
        BY <2>1, <2>2, <2>3 DEF NoticesOf, NoticesShared
      <3> QED BY <1>5, <2>1, <3>1 DEF NoticesOf, NoticesAlone, NoticesUnwritten, NoticesDue
    <2>7. NoticesAlone(t)'
      BY <1>1, <1>3, <1>4, <1>5, <2>6, NoticesKinds DEF NoticesAlone
    <2>8. Notices!Telling(t)' \/ t \in unheard'
      BY <1>4 DEF Notices!Telling
    <2>9. NoticesTold(t)'
      BY <1>5, <2>1, <2>6, <2>8 DEF NoticesTold, NoticesOf
    <2> QED BY <2>4, <2>5, <2>7, <2>9 DEF NoticesOf
  <1>8. \A u \in Transfers \ {t} : NoticesSame(u)
    BY <1>3, <1>4, <1>5 DEF NoticesSame
  <1> QED BY <1>6, <1>7, <1>8, NoticesSameKeeps DEF Notices!Commit, NoticesIInv, Notices!PaidQrGone

LEMMA NoticesAbortKeeps ==
  ASSUME Notices!NoticesAssumption, NoticesIInv, NEW t \in Transfers, NEW h \in Notices!Handlers,
         Notices!Abort(t, h)
  PROVE  NoticesIInv'
  <1> DEFINE g == Notices!Other(h)
  <1>1. g \in Notices!Handlers /\ g # h /\ Notices!Handlers = {h, g}
    BY NoticesOtherIs
  <1>2. /\ runs'[t][h] = Notices!Idle /\ runs'[t][g] = runs[t][g] /\ runs[t][h] = Notices!Absent
        /\ \A u \in Transfers \ {t}, f \in Notices!Handlers : runs'[u][f] = runs[u][f]
        /\ runs' \in [Transfers -> NoticesStates]
    BY <1>1, NoticesRunMoves DEF Notices!Abort, NoticesIInv
  <1>3. NoticesTypes'
    BY <1>2 DEF Notices!Abort, NoticesIInv, NoticesTypes
  <1>4. NoticesOf(t)'
    <2>1. NoticesOf(t) /\ messages[t] \in Nat /\ toasts[t] \in Nat
      BY DEF NoticesIInv, NoticesTypes
    <2>2. Notices!Telling(t)' <=> Notices!Telling(t)
      BY <1>1, <1>2, NoticesKinds DEF Notices!Telling
    <2>3. NoticesDue(t, h) = 1 /\ NoticesDue(t, h)' = 0
          /\ NoticesDue(t, g)' = NoticesDue(t, g) /\ NoticesDue(t, g) \in {0, 1}
      BY <1>2, NoticesKinds DEF NoticesDue
    <2>4. /\ NoticesDue(t, "worker") + NoticesDue(t, "request") = NoticesDue(t, h) + NoticesDue(t, g)
          /\ (NoticesDue(t, "worker") + NoticesDue(t, "request"))'
             = NoticesDue(t, h)' + NoticesDue(t, g)'
      BY <1>1, <2>3 DEF Notices!Handlers, Notices!Other
    <2>5. NoticesShared(t)'
      BY <2>1, <2>3, <2>4 DEF Notices!Abort, NoticesOf, NoticesShared
    <2>6. NoticesUnwritten(t)' /\ NoticesAlone(t)' /\ NoticesTold(t)'
      BY <1>1, <1>2, <2>1, <2>2, NoticesKinds
         DEF Notices!Abort, NoticesOf, NoticesUnwritten, NoticesAlone, NoticesTold
    <2> QED BY <2>5, <2>6 DEF NoticesOf
  <1>5. \A u \in Transfers \ {t} : NoticesSame(u)
    BY <1>2 DEF Notices!Abort, NoticesSame
  <1> QED BY <1>3, <1>4, <1>5, NoticesSameKeeps DEF Notices!Abort, NoticesIInv, Notices!PaidQrGone

LEMMA NoticesTellKeeps ==
  ASSUME Notices!NoticesAssumption, NoticesIInv, NEW t \in Transfers, NEW h \in Notices!Handlers,
         Notices!Tell(t, h)
  PROVE  NoticesIInv'
  <1> DEFINE g == Notices!Other(h)
  <1>1. g \in Notices!Handlers /\ g # h /\ Notices!Handlers = {h, g}
    BY NoticesOtherIs
  <1>2. /\ runs[t][h] \in Notices!Outcomes
        /\ runs'[t][h] = Notices!Idle /\ runs'[t][g] = runs[t][g]
        /\ \A u \in Transfers \ {t}, f \in Notices!Handlers : runs'[u][f] = runs[u][f]
        /\ runs' \in [Transfers -> NoticesStates]
    BY <1>1, NoticesRunMoves DEF Notices!Tell, NoticesIInv
  <1>3. /\ messages' \in [Transfers -> Nat]
        /\ messages'[t] = IF t \in Untold THEN messages[t] ELSE messages[t] + 1
        /\ \A u \in Transfers \ {t} : messages'[u] = messages[u]
    BY DEF Notices!Tell, Notices!SendZalo, NoticesIInv, NoticesTypes
  <1>4. /\ toasts' \in [Transfers -> Nat]
        /\ toasts'[t] = IF runs[t][h].kind = "matched" THEN toasts[t] + 1 ELSE toasts[t]
        /\ \A u \in Transfers \ {t} : toasts'[u] = toasts[u]
    BY DEF Notices!Tell, Notices!EmitOrderPaid, NoticesIInv, NoticesTypes
  <1>5. /\ timers \subseteq timers' /\ timers' \subseteq Orders
        /\ paid' \subseteq Orders /\ paid' \ paid \subseteq timers'
    BY <1>2, NoticesKinds DEF Notices!Tell, Notices!EmitOrderPaid, NoticesIInv, NoticesTypes
  <1>6. NoticesTypes'
    BY <1>2, <1>3, <1>4, <1>5 DEF Notices!Tell, NoticesIInv, NoticesTypes
  <1>7. NoticesOf(t)'
    <2>1. NoticesOf(t) /\ messages[t] \in Nat /\ toasts[t] \in Nat
      BY DEF NoticesIInv, NoticesTypes
    <2>2. outcome' = outcome /\ unheard' = unheard /\ overlapped' = overlapped
      BY DEF Notices!Tell
    <2>3. NoticesDue(t, h) = 1 /\ NoticesDue(t, h)' = 0
          /\ NoticesDue(t, g)' = NoticesDue(t, g) /\ NoticesDue(t, g) \in {0, 1}
      BY <1>2, NoticesKinds DEF NoticesDue
    <2>4. /\ NoticesDue(t, "worker") + NoticesDue(t, "request") = NoticesDue(t, h) + NoticesDue(t, g)
          /\ (NoticesDue(t, "worker") + NoticesDue(t, "request"))'
             = NoticesDue(t, h)' + NoticesDue(t, g)'
      BY <1>1, <2>3 DEF Notices!Handlers, Notices!Other
    <2>5. NoticesShared(t)'
      BY <1>3, <1>4, <2>1, <2>2, <2>3, <2>4 DEF NoticesOf, NoticesShared
    <2>6. outcome[t] # Notices!Unknown
      BY <1>2, <2>1 DEF NoticesOf, NoticesUnwritten
    <2>7. NoticesUnwritten(t)'
      BY <2>2, <2>6 DEF NoticesUnwritten
    <2>8. t \notin overlapped =>
            /\ runs[t][g] = Notices!Idle /\ outcome[t] = runs[t][h] /\ t \notin unheard
            /\ messages[t] = 0 /\ toasts[t] = 0
      <3>1. t \notin overlapped => NoticesDue(t, g) = 0 /\ messages[t] = 0 /\ toasts[t] = 0
        BY <2>1, <2>3, <2>4 DEF NoticesOf, NoticesShared
      <3> QED BY <1>2, <2>1, <3>1 DEF NoticesOf, NoticesAlone, NoticesDue
    <2>9. NoticesAlone(t)'
      BY <1>1, <1>2, <2>2, <2>8, NoticesKinds DEF NoticesAlone
    <2>10. t \notin overlapped => ~Notices!Telling(t)'
      BY <1>1, <1>2, <2>8, NoticesKinds DEF Notices!Telling
    <2>11. messages'[t] <= 2 /\ toasts'[t] <= 2
      BY <1>3, <1>4, <2>5, <2>3, <2>4, <1>6 DEF NoticesShared, NoticesTypes
    <2>12. NoticesTold(t)'
      BY <1>3, <1>4, <2>1, <2>2, <2>6, <2>8, <2>10, <2>11 DEF NoticesTold
    <2> QED BY <2>5, <2>7, <2>9, <2>12 DEF NoticesOf
  <1>8. \A u \in Transfers \ {t} : NoticesSame(u)
    BY <1>2, <1>3, <1>4 DEF Notices!Tell, NoticesSame
  <1>9. Notices!PaidQrGone'
    BY <1>5 DEF Notices!Tell, NoticesIInv, Notices!PaidQrGone
  <1> QED BY <1>6, <1>7, <1>8, <1>9, NoticesSameKeeps DEF NoticesIInv

LEMMA NoticesRestartKeeps ==
  ASSUME Notices!NoticesAssumption, NoticesIInv, Notices!Restart PROVE NoticesIInv'
  <1>1. NoticesTypes'
    BY DEF Notices!Restart, NoticesIInv, NoticesTypes, NoticesStates
  <1>2. ASSUME NEW t \in Transfers PROVE NoticesOf(t)'
    <2>1. \A h \in Notices!Handlers : runs'[t][h] = Notices!Idle
      BY DEF Notices!Restart
    <2>2. t \in unheard' <=> t \in unheard \/ Notices!Telling(t)
      BY DEF Notices!Restart
    <2>3. ~Notices!Telling(t)'
      BY <2>1, NoticesKinds DEF Notices!Telling
    <2>4. NoticesOf(t) /\ messages[t] \in Nat /\ toasts[t] \in Nat
      BY DEF NoticesIInv, NoticesTypes
    <2>5. \A h \in Notices!Handlers : NoticesDue(t, h)' = 0 /\ NoticesDue(t, h) \in {0, 1}
      BY <2>1 DEF NoticesDue
    <2>6. NoticesShared(t)'
      BY <2>4, <2>5 DEF Notices!Restart, NoticesOf, NoticesShared, Notices!Handlers
    <2>7. NoticesUnwritten(t)' /\ NoticesAlone(t)'
      BY <2>1, <2>2, <2>4, NoticesKinds
         DEF Notices!Restart, NoticesOf, NoticesUnwritten, NoticesAlone, Notices!Telling
    <2>8. NoticesTold(t)'
      BY <2>2, <2>3, <2>4 DEF Notices!Restart, NoticesOf, NoticesTold
    <2> QED BY <2>6, <2>7, <2>8 DEF NoticesOf
  <1> QED BY <1>1, <1>2 DEF Notices!Restart, NoticesIInv, Notices!PaidQrGone

\* The device, the broker and the clerk at the screen touch no transfer.
LEMMA NoticesQuietKeeps ==
  ASSUME NoticesIInv, NoticesTypes', Notices!PaidQrGone',
         UNCHANGED <<outcome, runs, toasts, messages, unheard, overlapped>>
  PROVE  NoticesIInv'
  <1>1. \A u \in Transfers : NoticesSame(u)
    BY DEF NoticesSame
  <1> QED BY <1>1, NoticesSameKeeps DEF NoticesIInv

LEMMA NoticesStepKeeps ==
  ASSUME Notices!NoticesAssumption, NoticesIInv, [Notices!Next]_Notices!vars PROVE NoticesIInv'
  <1>1. ASSUME NEW t \in Transfers, NEW h \in Notices!Handlers,
               Notices!Lookup(t, h) \/ Notices!Commit(t, h) \/ Notices!Abort(t, h) \/ Notices!Tell(t, h)
        PROVE  NoticesIInv'
    BY <1>1, NoticesLookupKeeps, NoticesCommitKeeps, NoticesAbortKeeps, NoticesTellKeeps
  <1>2. ASSUME NEW o \in Orders, Notices!Timer(o) PROVE NoticesIInv'
    <2>1. NoticesTypes' /\ Notices!PaidQrGone'
      BY <1>2 DEF Notices!Timer, Notices!Cleared, Notices!NoticesAssumption, NoticesIInv,
                  NoticesTypes, Notices!PaidQrGone
    <2> QED BY <1>2, <2>1, NoticesQuietKeeps DEF Notices!Timer
  <1>3. ASSUME NEW o \in Orders, Notices!ShowQr(o) PROVE NoticesIInv'
    <2>1. NoticesTypes' /\ Notices!PaidQrGone'
      BY <1>3 DEF Notices!ShowQr, NoticesIInv, NoticesTypes, Notices!PaidQrGone
    <2> QED BY <1>3, <2>1, NoticesQuietKeeps DEF Notices!ShowQr
  <1>4. CASE Notices!Clear
    <2>1. NoticesTypes' /\ Notices!PaidQrGone'
      BY <1>4 DEF Notices!Clear, Notices!Cleared, Notices!NoticesAssumption, NoticesIInv,
                  NoticesTypes, Notices!PaidQrGone
    <2> QED BY <1>4, <2>1, NoticesQuietKeeps DEF Notices!Clear
  <1>5. CASE Notices!Connection
    <2>1. NoticesTypes' /\ Notices!PaidQrGone'
      BY <1>5 DEF Notices!Connection, NoticesIInv, NoticesTypes, Notices!PaidQrGone
    <2> QED BY <1>5, <2>1, NoticesQuietKeeps DEF Notices!Connection
  <1>6. CASE Notices!Restart
    BY <1>6, NoticesRestartKeeps
  <1>7. CASE UNCHANGED Notices!vars
    <2>1. NoticesTypes' /\ Notices!PaidQrGone'
      BY <1>7 DEF Notices!vars, NoticesIInv, NoticesTypes, Notices!PaidQrGone
    <2> QED BY <1>7, <2>1, NoticesQuietKeeps DEF Notices!vars
  <1> QED BY <1>1, <1>2, <1>3, <1>4, <1>5, <1>6, <1>7 DEF Notices!Next

LEMMA NoticesIInvAlways == ASSUME Notices!NoticesAssumption PROVE Notices!Spec => []NoticesIInv
  <1>1. Notices!Init => NoticesIInv
    BY NoticesInitIInv
  <1>2. NoticesIInv /\ [Notices!Next]_Notices!vars => NoticesIInv'
    BY NoticesStepKeeps
  <1> QED BY <1>1, <1>2, PTL DEF Notices!Spec

LEMMA NoticesToldFollows == ASSUME NoticesIInv PROVE Notices!ToldOnce
  BY DEF NoticesIInv, NoticesOf, NoticesTold, Notices!ToldOnce

\* The counters and the sets hold what they should: nothing is told more than twice
\* (handleSepay).
LEMMA NoticesTypesKept == ASSUME Notices!NoticesAssumption PROVE Notices!Spec => []Notices!TypeOK
  <1>1. ASSUME NoticesIInv PROVE Notices!TypeOK
    <2>1. ASSUME NEW t \in Transfers PROVE messages[t] \in 0..2 /\ toasts[t] \in 0..2
      <3>1. messages[t] \in Nat /\ toasts[t] \in Nat /\ NoticesTold(t)
        BY <1>1 DEF NoticesIInv, NoticesTypes, NoticesOf
      <3> QED BY <3>1 DEF NoticesTold
    <2> QED BY <1>1, <2>1 DEF NoticesIInv, NoticesTypes, NoticesStates, Notices!TypeOK
  <1> QED BY <1>1, NoticesIInvAlways, PTL

\* A behaviour of the back office is one of the part.
LEMMA NoticesRuns == Spec => Notices!Spec
  <1>1. Init => Notices!Init
    BY DEF Init
  <1>2. [Next]_vars => [Notices!Next]_Notices!vars
    BY DEF Next, Rest, vars, noticeVars, Notices!vars
  <1> QED BY <1>1, <1>2, PTL DEF Spec, Notices!Spec

LEMMA NoticesAlwaysTyped == Spec => []Notices!TypeOK
  <1>1. Notices!NoticesAssumption
    BY BackOfficeAssumption
  <1> QED BY <1>1, NoticesRuns, NoticesTypesKept, PTL

\* However often SePay reports a transfer, and whichever handler gets it, the group and the
\* staff are told once: twice only if both handlers looked before either wrote, and not at
\* all only if the one that wrote never heard of it (handleSepay).
THEOREM TransfersToldOnce == Spec => []ToldOnce
  <1>1. Notices!NoticesAssumption
    BY BackOfficeAssumption
  <1>2. NoticesIInv => ToldOnce
    BY NoticesToldFollows DEF ToldOnce
  <1> QED BY <1>1, <1>2, NoticesRuns, NoticesIInvAlways, PTL

\* The broker keeps the QR of a paid order no longer than its timer runs, unless the clearing
\* was lost (emitOrderPaid, MqttService).
THEOREM PaidQrsGone == Spec => []PaidQrGone
  <1>1. Notices!NoticesAssumption
    BY BackOfficeAssumption
  <1>2. NoticesIInv => PaidQrGone
    BY DEF NoticesIInv, PaidQrGone
  <1> QED BY <1>1, <1>2, NoticesRuns, NoticesIInvAlways, PTL
=============================================================================
