--------------------------- MODULE Snapshots_proofs ---------------------------
(***************************************************************************)
(* Proofs about Snapshots, for every set of series and every number of     *)
(* evaluations, snapshots, crashes and restarts.                           *)
(***************************************************************************)
EXTENDS Snapshots, TLAPS

SaveRecord == [at : {"idle", "series", "write", "done"},
               left : SUBSET Series, there : SUBSET Series,
               findings : Findings, began : 0 .. MaxRound]
DiskRecord == [there : SUBSET Series, findings : Findings, began : 0 .. MaxRound]
KeptRecord == [ok : BOOLEAN, findings : Findings]

-------------------------------------------------------------------------------
(* The inductive invariant.                                                *)

\* Series are walked and events wait only while an evaluation is under way,
\* which happens only while the server is up.
Judged == /\ judging => mode = "up" /\ round >= 1
          /\ ~judging => todo = {} /\ event = NoEvents

\* The flag of a series is ahead of its finding by the queued event.
EventsFit ==
  \A s \in Series :
    /\ s \in todo => s \in there /\ event[s] = "none"
    /\ event[s] = "none" => (active[s] # None <=> s \in firing)
    /\ event[s] = "fire" => s \in firing
    /\ event[s] = "resolve" => s \notin firing

UnderWay(k) == save[k].at \in {"series", "write"}

\* One save at a time, none in a process that is gone, and the last one only
\* while stopping; what is saved is not older than the file.
OneSave ==
  /\ save["final"].at # "idle" => mode = "stopping" /\ ~UnderWay("tick")
  /\ mode = "down" => \A k \in Savers : ~UnderWay(k)
  /\ disk.began <= round
  /\ \A k \in Savers :
       UnderWay(k) => disk.began <= save[k].began /\ save[k].began <= round

\* The last save has, or will copy, every series with a finding.
FinalCopy ==
  /\ save["final"].at = "series" =>
       firing \subseteq save["final"].left \cup save["final"].there
  /\ save["final"].at = "write" =>
       save["final"].findings = active /\ firing \subseteq save["final"].there

\* After a clean stop the file is what was kept, and no save can touch it.
KeptIsDisk ==
  kept.ok => /\ mode = "down" \/ save["final"].at = "done"
             /\ disk.findings = kept.findings
             /\ \A s \in Series : disk.findings[s] # None => s \in disk.there

Live == Judged /\ EventsFit
Saved == OneSave /\ FinalCopy /\ KeptIsDisk

IInv == TypeOK /\ Live /\ Saved

-------------------------------------------------------------------------------
(* Types.                                                                  *)

LEMMA Types ==
  ASSUME TypeOK
  PROVE  /\ \A k \in Savers : save[k] \in SaveRecord
         /\ save \in [Savers -> SaveRecord]
         /\ disk \in DiskRecord /\ kept \in KeptRecord
         /\ round \in Nat /\ round \in 0 .. MaxRound /\ MaxRound \in Nat
         /\ active \in Findings /\ NoFindings \in Findings
         /\ \A s \in Series : active[s] \in Nat /\ NoFindings[s] = None
         /\ event \in [Series -> {"none", "fire", "resolve"}]
         /\ \A s \in Series : NoEvents[s] = "none"
         /\ there \subseteq Series /\ firing \subseteq there /\ todo \subseteq Series
         /\ "tick" \in Savers /\ "final" \in Savers
BY RoundAssumption
DEF TypeOK, SaveRecord, DiskRecord, KeptRecord, Findings, NoFindings, NoEvents,
    Savers, None

LEMMA IdleType ==
  /\ Idle \in SaveRecord /\ Idle.at = "idle" /\ NoFile \in DiskRecord
  /\ NoFile.began = 0
  /\ [Idle EXCEPT !.at = "done"] \in SaveRecord
  /\ [Idle EXCEPT !.at = "done"].at = "done"
<1>1. NoFindings \in Findings
  BY RoundAssumption DEF NoFindings, Findings, None
<1> QED
  BY <1>1, RoundAssumption DEF Idle, SaveRecord, NoFile, DiskRecord

\* A save that goes from one record to another.
LEMMA SaveType ==
  ASSUME NEW k \in Savers, NEW r \in SaveRecord, save \in [Savers -> SaveRecord],
         save' = [save EXCEPT ![k] = r]
  PROVE  /\ save' \in [Savers -> SaveRecord]
         /\ \A j \in Savers : save'[j] = IF j = k THEN r ELSE save[j]
OBVIOUS

LEMMA FinishedSave ==
  ASSUME NEW k \in Savers, save \in [Savers -> SaveRecord], Finished(k)
  PROVE  /\ save' \in [Savers -> SaveRecord]
         /\ \A j \in Savers : j # k => save'[j] = save[j]
         /\ save'[k].at = IF k = "tick" THEN "idle" ELSE "done"
<1> DEFINE r == IF k = "tick" THEN Idle ELSE [Idle EXCEPT !.at = "done"]
<1>1. r \in SaveRecord /\ r.at = (IF k = "tick" THEN "idle" ELSE "done")
  BY IdleType
<1>2. save' = [save EXCEPT ![k] = r]
  BY DEF Finished
<1> HIDE DEF r
<1> QED
  BY <1>1, <1>2, SaveType

\* The steps of copyState as records.
LEMMA BegunRecord ==
  ASSUME TypeOK, NEW k \in Savers, SaveBegin(k)
  PROVE  \E r \in SaveRecord :
           /\ save' = [save EXCEPT ![k] = r]
           /\ r.at = "series" /\ r.left = Series /\ r.began = round
<1> DEFINE r == [Idle EXCEPT !.at = "series", !.left = Series, !.began = round]
<1>1. r \in SaveRecord /\ r.at = "series" /\ r.left = Series /\ r.began = round
  BY Types DEF Idle, SaveRecord
<1>2. save' = [save EXCEPT ![k] = r]
  BY DEF SaveBegin
<1> HIDE DEF r
<1> QED
  BY <1>1, <1>2

LEMMA CopiedSeriesRecord ==
  ASSUME TypeOK, NEW k \in Savers, NEW s \in Series, CopySeries(k, s)
  PROVE  \E r \in SaveRecord :
           /\ save' = [save EXCEPT ![k] = r]
           /\ r.at = "series" /\ r.began = save[k].began
           /\ r.left = save[k].left \ {s}
           /\ r.there = IF s \in there THEN save[k].there \cup {s} ELSE save[k].there
<1> DEFINE r == [save[k] EXCEPT
                   !.left = @ \ {s},
                   !.there = IF s \in there THEN @ \cup {s} ELSE @]
<1>1. save[k] \in SaveRecord /\ save \in [Savers -> SaveRecord]
  BY Types
<1>2. /\ r \in SaveRecord /\ r.at = save[k].at /\ r.began = save[k].began
      /\ r.left = save[k].left \ {s}
      /\ r.there = IF s \in there THEN save[k].there \cup {s} ELSE save[k].there
  BY <1>1 DEF SaveRecord
<1>3. save' = [save EXCEPT ![k] = r]
  BY <1>1 DEF CopySeries, SaveRecord
<1> HIDE DEF r
<1> QED
  BY <1>2, <1>3 DEF CopySeries

LEMMA CopiedFindingsRecord ==
  ASSUME TypeOK, NEW k \in Savers, CopyFindings(k)
  PROVE  \E r \in SaveRecord :
           /\ save' = [save EXCEPT ![k] = r]
           /\ r.at = "write" /\ r.began = save[k].began /\ r.findings = active
           /\ r.left = {} /\ r.there = save[k].there
<1> DEFINE r == [save[k] EXCEPT !.at = "write", !.findings = active]
<1>1. save[k] \in SaveRecord /\ save \in [Savers -> SaveRecord] /\ active \in Findings
  BY Types
<1>2. /\ r \in SaveRecord /\ r.at = "write" /\ r.began = save[k].began
      /\ r.findings = active /\ r.left = save[k].left /\ r.there = save[k].there
  BY <1>1 DEF SaveRecord
<1>3. save' = [save EXCEPT ![k] = r]
  BY <1>1 DEF CopyFindings, SaveRecord
<1> HIDE DEF r
<1> QED
  BY <1>2, <1>3 DEF CopyFindings

-------------------------------------------------------------------------------
(* The initial state and the end of a process.                             *)

LEMMA InitInv == Init => IInv
<1> SUFFICES ASSUME Init PROVE IInv
  OBVIOUS
<1>1. /\ NoFindings \in Findings /\ NoEvents \in [Series -> {"none", "fire", "resolve"}]
      /\ \A s \in Series : NoFindings[s] = None /\ NoEvents[s] = "none"
  BY RoundAssumption DEF NoFindings, Findings, None, NoEvents
<1>2. [ok |-> FALSE, findings |-> NoFindings] \in KeptRecord
  BY <1>1 DEF KeptRecord
<1>3. /\ save \in [Savers -> SaveRecord] /\ \A k \in Savers : save[k].at = "idle"
      /\ disk \in DiskRecord /\ disk.began = 0
      /\ "tick" \in Savers /\ "final" \in Savers
  BY IdleType DEF Init, Savers
<1>4. TypeOK
  <2>1. 0 \in 0 .. MaxRound
    BY RoundAssumption
  <2> QED
    BY <1>1, <1>2, <1>3, <2>1
    DEF Init, TypeOK, SaveRecord, DiskRecord, KeptRecord
<1>5. Live
  BY <1>1 DEF Init, Live, Judged, EventsFit
<1>6. Saved
  BY <1>3 DEF Init, Saved, OneSave, FinalCopy, KeptIsDisk, UnderWay
<1> QED
  BY <1>4, <1>5, <1>6 DEF IInv

\* The process ends, and what was kept stays kept or does not count any more.
LEMMA GoneInv ==
  ASSUME IInv, Gone, kept' \in KeptRecord,
         kept'.ok => /\ kept' = kept /\ save["final"].at = "done"
  PROVE  IInv'
<1>1. /\ NoFindings \in Findings /\ NoEvents \in [Series -> {"none", "fire", "resolve"}]
      /\ \A s \in Series : NoFindings[s] = None /\ NoEvents[s] = "none"
  BY RoundAssumption DEF NoFindings, Findings, None, NoEvents
<1>2. TypeOK /\ "tick" \in Savers /\ "final" \in Savers
  BY Types DEF IInv
<1>3. /\ save' \in [Savers -> SaveRecord] /\ \A k \in Savers : save'[k].at = "idle"
      /\ mode' = "down" /\ disk' = disk /\ round' = round
  BY IdleType DEF Gone
<1>4. TypeOK'
  BY <1>1, <1>2, <1>3, ZenonT(40)
  DEF IInv, Gone, TypeOK, SaveRecord, DiskRecord, KeptRecord
<1>5. Live'
  BY <1>1 DEF Gone, Live, Judged, EventsFit
<1>6. Saved'
  BY <1>2, <1>3 DEF IInv, Saved, OneSave, FinalCopy, KeptIsDisk, UnderWay
<1> QED
  BY <1>4, <1>5, <1>6 DEF IInv

-------------------------------------------------------------------------------
(* The evaluator and the store.                                            *)

\* While the server is up no last save runs and nothing is kept.
LEMMA SavedWhileUp ==
  ASSUME IInv, mode = "up", mode' \in {"up", "stopping"},
         UNCHANGED <<save, disk, kept>>, round' \in Nat, round' >= round
  PROVE  Saved'
<1>1. /\ TypeOK /\ "final" \in Savers /\ round \in Nat
      /\ disk \in DiskRecord /\ \A k \in Savers : save[k] \in SaveRecord
  BY Types DEF IInv
<1>2. save["final"].at = "idle" /\ ~kept.ok
  BY <1>1 DEF IInv, Saved, OneSave, KeptIsDisk
<1>3. OneSave'
  <2>1. /\ disk.began \in Nat /\ disk.began <= round
        /\ \A k \in Savers : save[k].began \in Nat
    BY <1>1, RoundAssumption DEF IInv, Saved, OneSave, DiskRecord, SaveRecord
  <2> QED
    BY <1>1, <1>2, <2>1 DEF IInv, Saved, OneSave, UnderWay
<1>4. FinalCopy' /\ KeptIsDisk'
  BY <1>2 DEF FinalCopy, KeptIsDisk
<1> QED
  BY <1>3, <1>4 DEF Saved

LEMMA CreateInv ==
  ASSUME IInv, NEW s \in Series, Create(s)
  PROVE  IInv'
<1>1. TypeOK'
  BY DEF IInv, TypeOK, Create, evaluator
<1>2. Live'
  BY DEF IInv, Live, Judged, EventsFit, Create, evaluator
<1>3. Saved'
  BY DEF IInv, Saved, OneSave, FinalCopy, KeptIsDisk, UnderWay, Create, evaluator
<1> QED
  BY <1>1, <1>2, <1>3 DEF IInv

LEMMA EvalBeginInv ==
  ASSUME IInv, EvalBegin
  PROVE  IInv'
<1>1. TypeOK /\ round \in Nat /\ MaxRound \in Nat /\ round' = round + 1
  BY Types DEF IInv, EvalBegin
<1>2. TypeOK'
  BY <1>1 DEF TypeOK, EvalBegin, store
<1>3. Live'
  BY <1>1, Types DEF IInv, Live, Judged, EventsFit, EvalBegin, store
<1>4. Saved'
  BY <1>1, SavedWhileUp DEF EvalBegin
<1> QED
  BY <1>2, <1>3, <1>4 DEF IInv

LEMMA JudgeInv ==
  ASSUME IInv, NEW s \in Series, Judge(s)
  PROVE  IInv'
<1>1. TypeOK /\ round \in Nat /\ event \in [Series -> {"none", "fire", "resolve"}]
  BY Types DEF IInv
<1>2. s \in there /\ event[s] = "none" /\ (active[s] # None <=> s \in firing)
  BY DEF IInv, Live, EventsFit, Judge
<1>3. TypeOK'
  BY <1>1, <1>2 DEF TypeOK, Judge
<1>4. Judged'
  BY DEF IInv, Live, Judged, Judge
<1>5. \A t \in Series \ {s} : /\ event'[t] = event[t]
                              /\ t \in firing' <=> t \in firing
                              /\ t \in todo' <=> t \in todo
  BY <1>1 DEF Judge
<1>6. /\ event'[s] = "none" => (s \in firing' <=> s \in firing)
      /\ event'[s] = "fire" => s \in firing'
      /\ event'[s] = "resolve" => s \notin firing'
      /\ s \notin todo'
  BY <1>1, <1>2 DEF Judge
<1>7. EventsFit'
  BY <1>2, <1>5, <1>6 DEF IInv, Live, EventsFit, Judge
<1>8. Saved'
  BY <1>1, SavedWhileUp DEF Judge
<1> QED
  BY <1>3, <1>4, <1>7, <1>8 DEF IInv, Live

LEMMA ApplyInv ==
  ASSUME IInv, Apply
  PROVE  IInv'
<1>1. /\ TypeOK /\ round \in Nat /\ round \in 0 .. MaxRound /\ round >= 1
      /\ \A s \in Series : NoEvents[s] = "none"
      /\ event \in [Series -> {"none", "fire", "resolve"}]
      /\ active \in [Series -> 0 .. MaxRound]
  BY Types DEF IInv, Live, Judged, Apply, Findings
<1>2. \A s \in Series :
        active'[s] = CASE event[s] = "fire" -> round
                       [] event[s] = "resolve" -> None
                       [] OTHER -> active[s]
  BY DEF Apply
<1>3. active' \in Findings
  <2>1. 0 \in 0 .. MaxRound
    BY RoundAssumption
  <2>2. \A s \in Series :
          (CASE event[s] = "fire" -> round
             [] event[s] = "resolve" -> None
             [] OTHER -> active[s]) \in 0 .. MaxRound
    BY <1>1, <2>1 DEF None
  <2> QED
    BY <2>2 DEF Apply, Findings
<1>4. NoEvents \in [Series -> {"none", "fire", "resolve"}]
  BY DEF NoEvents
<1>5. TypeOK'
  BY <1>3, <1>4 DEF IInv, TypeOK, Apply, store
<1>6. Judged' /\ todo' = {} /\ event' = NoEvents /\ firing' = firing
  BY DEF Judged, Apply, store
<1>7. EventsFit'
  <2> SUFFICES ASSUME NEW s \in Series
               PROVE  active'[s] # None <=> s \in firing
    BY <1>1, <1>6 DEF EventsFit
  <2>1. event[s] \in {"none", "fire", "resolve"}
    BY <1>1
  <2> QED
    BY <1>1, <1>2, <2>1 DEF IInv, Live, EventsFit, None
<1>8. Saved'
  BY <1>1, SavedWhileUp DEF Apply
<1> QED
  BY <1>5, <1>6, <1>7, <1>8 DEF IInv, Live

LEMMA DeleteInv ==
  ASSUME IInv, NEW s \in Series, Delete(s)
  PROVE  IInv'
<1>1. TypeOK /\ round \in Nat /\ round' = round
  BY Types DEF IInv, Delete, evaluator
<1>2. TypeOK'
  BY <1>1 DEF TypeOK, Delete, evaluator
<1>3. Live'
  BY DEF IInv, Live, Judged, EventsFit, Delete, evaluator
<1>4. Saved'
  BY <1>1, SavedWhileUp DEF Delete
<1> QED
  BY <1>2, <1>3, <1>4 DEF IInv

LEMMA StopInv ==
  ASSUME IInv, Stop
  PROVE  IInv'
<1>1. TypeOK /\ round \in Nat /\ round' = round
  BY Types DEF IInv, Stop, evaluator
<1>2. TypeOK'
  BY <1>1 DEF TypeOK, Stop, store, evaluator
<1>3. Live'
  BY DEF IInv, Live, Judged, EventsFit, Stop, store, evaluator
<1>4. Saved'
  BY <1>1, SavedWhileUp DEF Stop
<1> QED
  BY <1>2, <1>3, <1>4 DEF IInv

LEMMA StartInv ==
  ASSUME IInv, NEW loads \in BOOLEAN, Start(loads)
  PROVE  IInv'
<1>1. /\ TypeOK /\ disk \in DiskRecord /\ NoFindings \in Findings
      /\ there' \subseteq Series
  BY Types DEF IInv, Start, DiskRecord
<1>2. /\ active' = [s \in Series |-> IF s \in there' THEN disk.findings[s] ELSE None]
      /\ disk.findings \in [Series -> 0 .. MaxRound] /\ None \in 0 .. MaxRound
  BY <1>1, RoundAssumption DEF Start, Restored, DiskRecord, Findings, None
<1>3. active' \in Findings
  BY <1>2 DEF Findings
<1>4. TypeOK'
  BY <1>1, <1>3 DEF TypeOK, Start, Findings
<1>5. todo = {} /\ event = NoEvents /\ ~judging
  BY DEF IInv, Live, Judged, Start
<1>6. Live'
  <2>1. \A s \in Series : event'[s] = "none" /\ s \notin todo'
    BY <1>1, <1>5, Types DEF Start
  <2>2. \A s \in Series : active'[s] # None <=> s \in firing'
    BY <1>1, <1>2 DEF Start
  <2> QED
    BY <1>5, <2>1, <2>2 DEF Live, Judged, EventsFit, Start
<1>7. Saved'
  <2>1. save["final"].at = "idle" /\ \A k \in Savers : ~UnderWay(k)
    BY DEF IInv, Saved, OneSave, Start
  <2>2. ~kept'.ok
    BY DEF Start
  <2> QED
    BY <2>1, <2>2
    DEF IInv, Saved, OneSave, FinalCopy, KeptIsDisk, UnderWay, Start
<1> QED
  BY <1>4, <1>6, <1>7 DEF IInv

-------------------------------------------------------------------------------
(* Saving.                                                                 *)

LEMMA LiveWhileSaving ==
  ASSUME IInv, UNCHANGED <<mode, store, evaluator>>,
         save' \in [Savers -> SaveRecord], disk' \in DiskRecord, kept' \in KeptRecord
  PROVE  TypeOK' /\ Live'
BY DEF IInv, TypeOK, SaveRecord, DiskRecord, KeptRecord, Live, Judged, EventsFit,
       store, evaluator

LEMMA SaveBeginInv ==
  ASSUME IInv, NEW k \in Savers, SaveBegin(k)
  PROVE  IInv'
<1>1. /\ TypeOK /\ save \in [Savers -> SaveRecord] /\ round \in Nat
      /\ disk \in DiskRecord /\ kept \in KeptRecord /\ firing \subseteq Series
      /\ UNCHANGED <<mode, store, evaluator, disk, kept>>
  BY Types DEF IInv, SaveBegin
<1>2. PICK r \in SaveRecord : /\ save' = [save EXCEPT ![k] = r]
                              /\ r.at = "series" /\ r.left = Series
                              /\ r.began = round
  BY <1>1, BegunRecord
<1>3. /\ save' \in [Savers -> SaveRecord]
      /\ \A j \in Savers : save'[j] = IF j = k THEN r ELSE save[j]
  BY <1>1, <1>2, SaveType
<1>4. TypeOK' /\ Live'
  BY <1>1, <1>3, LiveWhileSaving
<1>5. /\ k \in {"tick", "final"} /\ \A j \in Savers : ~UnderWay(j)
      /\ save[k].at = "idle"
      /\ k = "tick" => mode = "up"
      /\ k = "final" => mode = "stopping"
  BY DEF SaveBegin, NoneSaving, UnderWay, Savers
<1>6. OneSave'
  <2>1. disk.began <= round /\ (k = "tick" => save["final"].at = "idle")
    BY <1>5 DEF IInv, Saved, OneSave
  <2> QED
    BY <1>1, <1>2, <1>3, <1>5, <2>1 DEF OneSave, UnderWay, Savers, evaluator
<1>7. FinalCopy'
  BY <1>1, <1>2, <1>3, <1>5 DEF FinalCopy, UnderWay, Savers, store
<1>8. ~kept.ok
  BY <1>5 DEF IInv, Saved, OneSave, KeptIsDisk
<1>9. KeptIsDisk'
  BY <1>1, <1>8 DEF KeptIsDisk
<1> QED
  BY <1>4, <1>6, <1>7, <1>9 DEF IInv, Saved

\* While a save is under way nothing is kept.
LEMMA NothingKept ==
  ASSUME IInv, NEW k \in Savers, UnderWay(k)
  PROVE  ~kept.ok
BY DEF IInv, Saved, OneSave, KeptIsDisk, UnderWay, Savers

LEMMA CopySeriesInv ==
  ASSUME IInv, NEW k \in Savers, NEW s \in Series, CopySeries(k, s)
  PROVE  IInv'
<1>1. /\ TypeOK /\ save \in [Savers -> SaveRecord] /\ firing \subseteq there
      /\ disk \in DiskRecord /\ kept \in KeptRecord
      /\ UNCHANGED <<mode, store, evaluator, disk, kept>>
  BY Types DEF IInv, CopySeries
<1>2. PICK r \in SaveRecord :
        /\ save' = [save EXCEPT ![k] = r]
        /\ r.at = "series" /\ r.began = save[k].began
        /\ r.left = save[k].left \ {s}
        /\ r.there = IF s \in there THEN save[k].there \cup {s} ELSE save[k].there
  BY <1>1, CopiedSeriesRecord
<1>3. /\ save' \in [Savers -> SaveRecord]
      /\ \A j \in Savers : save'[j] = IF j = k THEN r ELSE save[j]
  BY <1>1, <1>2, SaveType
<1>4. TypeOK' /\ Live'
  BY <1>1, <1>3, LiveWhileSaving
<1>5. save[k].at = "series" /\ UnderWay(k) /\ k \in {"tick", "final"}
  BY DEF CopySeries, UnderWay, Savers
<1>6. OneSave'
  BY <1>1, <1>2, <1>3, <1>5 DEF IInv, Saved, OneSave, UnderWay, Savers, evaluator
<1>7. FinalCopy'
  BY <1>1, <1>2, <1>3, <1>5
  DEF IInv, Saved, FinalCopy, Savers, store, evaluator
<1>8. KeptIsDisk'
  BY <1>1, <1>5, NothingKept DEF KeptIsDisk
<1> QED
  BY <1>4, <1>6, <1>7, <1>8 DEF IInv, Saved

LEMMA CopyFindingsInv ==
  ASSUME IInv, NEW k \in Savers, CopyFindings(k)
  PROVE  IInv'
<1>1. /\ TypeOK /\ save \in [Savers -> SaveRecord]
      /\ disk \in DiskRecord /\ kept \in KeptRecord
      /\ UNCHANGED <<mode, store, evaluator, disk, kept>>
  BY Types DEF IInv, CopyFindings
<1>2. PICK r \in SaveRecord :
        /\ save' = [save EXCEPT ![k] = r]
        /\ r.at = "write" /\ r.began = save[k].began /\ r.findings = active
        /\ r.left = {} /\ r.there = save[k].there
  BY <1>1, CopiedFindingsRecord
<1>3. /\ save' \in [Savers -> SaveRecord]
      /\ \A j \in Savers : save'[j] = IF j = k THEN r ELSE save[j]
  BY <1>1, <1>2, SaveType
<1>4. TypeOK' /\ Live'
  BY <1>1, <1>3, LiveWhileSaving
<1>5. /\ save[k].at = "series" /\ save[k].left = {} /\ UnderWay(k)
      /\ k \in {"tick", "final"}
  BY DEF CopyFindings, UnderWay, Savers
<1>6. OneSave'
  BY <1>1, <1>2, <1>3, <1>5 DEF IInv, Saved, OneSave, UnderWay, Savers, evaluator
<1>7. FinalCopy'
  BY <1>1, <1>2, <1>3, <1>5
  DEF IInv, Saved, FinalCopy, Savers, store, evaluator
<1>8. KeptIsDisk'
  BY <1>1, <1>5, NothingKept DEF KeptIsDisk
<1> QED
  BY <1>4, <1>6, <1>7, <1>8 DEF IInv, Saved

\* The file that WriteFile leaves is that of its save.
LEMMA WriteFileInv ==
  ASSUME IInv, NEW k \in Savers, WriteFile(k)
  PROVE  IInv' /\ disk'.began >= disk.began
<1>1. /\ TypeOK /\ save \in [Savers -> SaveRecord] /\ save[k] \in SaveRecord
      /\ disk \in DiskRecord /\ kept \in KeptRecord /\ active \in Findings
      /\ round \in Nat /\ UNCHANGED <<mode, store, evaluator>>
  BY Types DEF IInv, WriteFile
<1>2. /\ save' \in [Savers -> SaveRecord]
      /\ \A j \in Savers : j # k => save'[j] = save[j]
      /\ save'[k].at = IF k = "tick" THEN "idle" ELSE "done"
  BY <1>1, FinishedSave DEF WriteFile
<1>3. /\ disk' \in DiskRecord /\ disk'.there = save[k].there
      /\ disk'.findings = save[k].findings /\ disk'.began = save[k].began
  BY <1>1 DEF WriteFile, DiskRecord, SaveRecord
<1>4. /\ save[k].at = "write" /\ UnderWay(k) /\ k \in {"tick", "final"} /\ ~kept.ok
      /\ "tick" \in Savers /\ "final" \in Savers
  BY NothingKept DEF WriteFile, UnderWay, Savers
<1>5. kept' \in KeptRecord
  BY <1>1 DEF WriteFile, KeptRecord
<1>6. TypeOK' /\ Live'
  BY <1>1, <1>2, <1>3, <1>5, LiveWhileSaving
<1>7. disk.began <= save[k].began /\ save[k].began <= round
  BY <1>4 DEF IInv, Saved, OneSave
<1>8. \A j \in Savers : ~save'[j].at \in {"series", "write"}
  <2>1. \A j \in Savers : j # k => ~UnderWay(j)
    BY <1>4 DEF IInv, Saved, OneSave, UnderWay, Savers
  <2> QED
    BY <1>2, <2>1 DEF UnderWay
<1>9. OneSave'
  <2>1. save'["final"].at # "idle" => mode = "stopping"
    BY <1>2, <1>4 DEF IInv, Saved, OneSave
  <2> QED
    BY <1>1, <1>3, <1>4, <1>7, <1>8, <2>1 DEF OneSave, UnderWay, evaluator
<1>10. FinalCopy'
  BY <1>4, <1>8 DEF FinalCopy
<1>11. KeptIsDisk'
  <2>1. CASE k = "tick"
    BY <1>4, <2>1 DEF KeptIsDisk, WriteFile
  <2>2. CASE k = "final"
    <3>1. save["final"].findings = active /\ firing \subseteq save["final"].there
      BY <1>4, <2>2 DEF IInv, Saved, FinalCopy
    <3>2. ~judging
      BY <1>4, <2>2 DEF IInv, Live, Judged, Saved, OneSave
    <3>3. \A s \in Series : active[s] # None => s \in firing
      BY <3>2, Types DEF IInv, Live, Judged, EventsFit
    <3>4. kept'.findings = active
      BY <2>2 DEF WriteFile
    <3> QED
      BY <1>2, <1>3, <2>2, <3>1, <3>3, <3>4 DEF KeptIsDisk
  <2> QED
    BY <1>4, <2>1, <2>2
<1> QED
  BY <1>3, <1>6, <1>7, <1>9, <1>10, <1>11, <1>1 DEF IInv, Saved, DiskRecord, SaveRecord

LEMMA WriteFailInv ==
  ASSUME IInv, NEW k \in Savers, WriteFail(k)
  PROVE  IInv'
<1>1. /\ TypeOK /\ save \in [Savers -> SaveRecord]
      /\ disk \in DiskRecord /\ kept \in KeptRecord
      /\ UNCHANGED <<mode, store, evaluator, disk, kept>>
  BY Types DEF IInv, WriteFail
<1>2. /\ save' \in [Savers -> SaveRecord]
      /\ \A j \in Savers : j # k => save'[j] = save[j]
      /\ save'[k].at = IF k = "tick" THEN "idle" ELSE "done"
  BY <1>1, FinishedSave DEF WriteFail
<1>3. /\ UnderWay(k) /\ k \in {"tick", "final"} /\ ~kept.ok
      /\ "tick" \in Savers /\ "final" \in Savers
  BY NothingKept DEF WriteFail, UnderWay, Savers
<1>4. TypeOK' /\ Live'
  BY <1>1, <1>2, LiveWhileSaving
<1>5. \A j \in Savers : ~save'[j].at \in {"series", "write"}
  <2>1. \A j \in Savers : j # k => ~UnderWay(j)
    BY <1>3 DEF IInv, Saved, OneSave, UnderWay, Savers
  <2> QED
    BY <1>2, <2>1 DEF UnderWay
<1>6. OneSave'
  <2>1. save'["final"].at # "idle" => mode = "stopping"
    BY <1>2, <1>3 DEF IInv, Saved, OneSave, UnderWay
  <2> QED
    BY <1>1, <1>3, <1>5, <2>1 DEF IInv, Saved, OneSave, UnderWay, evaluator
<1>7. FinalCopy' /\ KeptIsDisk'
  BY <1>1, <1>3, <1>5 DEF FinalCopy, KeptIsDisk
<1> QED
  BY <1>4, <1>6, <1>7 DEF IInv, Saved

-------------------------------------------------------------------------------
(* Every step.                                                             *)

LEMMA ExitInv ==
  ASSUME IInv, Exit
  PROVE  IInv'
<1>1. kept' = kept /\ kept \in KeptRecord /\ save["final"].at = "done" /\ Gone
  BY Types DEF IInv, Exit
<1> QED
  BY <1>1, GoneInv

LEMMA CrashInv ==
  ASSUME IInv, Crash
  PROVE  IInv'
<1>1. kept' = [ok |-> FALSE, findings |-> NoFindings] /\ Gone
  BY DEF Crash
<1>2. NoFindings \in Findings
  BY Types DEF IInv
<1>3. kept' \in KeptRecord /\ ~kept'.ok
  BY <1>1, <1>2 DEF KeptRecord
<1> QED
  BY <1>1, <1>3, GoneInv

LEMMA NextInv == IInv /\ [Next]_vars => IInv'
<1> SUFFICES ASSUME IInv, [Next]_vars PROVE IInv'
  OBVIOUS
<1>1. ASSUME NEW s \in Series, Create(s) PROVE IInv'
  BY <1>1, CreateInv
<1>2. CASE Evaluate
  BY <1>2, EvalBeginInv, ApplyInv, JudgeInv, DeleteInv DEF Evaluate
<1>3. ASSUME NEW k \in Savers, SaveBegin(k) \/ Save(k) PROVE IInv'
  <2>1. CASE SaveBegin(k)
    BY <2>1, SaveBeginInv
  <2>2. CASE Save(k)
    BY <2>2, CopySeriesInv, CopyFindingsInv, WriteFileInv, WriteFailInv DEF Save
  <2> QED
    BY <1>3, <2>1, <2>2
<1>4. CASE Stop
  BY <1>4, StopInv
<1>5. CASE Exit \/ Crash
  BY <1>5, ExitInv, CrashInv
<1>6. ASSUME NEW loads \in BOOLEAN, Start(loads) PROVE IInv'
  BY <1>6, StartInv
<1>7. CASE UNCHANGED vars
  BY <1>7 DEF IInv, TypeOK, Live, Judged, EventsFit, Saved, OneSave, FinalCopy,
              KeptIsDisk, UnderWay, vars, store, evaluator
<1> QED
  BY <1>1, <1>2, <1>3, <1>4, <1>5, <1>6, <1>7 DEF Next, Saving

LEMMA Invariant == Spec => []IInv
<1>1. Init => IInv
  BY InitInv
<1>2. IInv /\ [Next]_vars => IInv'
  BY NextInv
<1> QED
  BY <1>1, <1>2, PTL DEF Spec

-------------------------------------------------------------------------------
(* What follows.                                                           *)

(***************************************************************************)
(* Every variable keeps its type; in particular a series with its firing   *)
(* flag set is in the store, so gc and restarts leave no flag behind.      *)
(***************************************************************************)
THEOREM TypeCorrect == Spec => []TypeOK
<1>1. IInv => TypeOK
  BY DEF IInv
<1> QED
  BY <1>1, Invariant, PTL

(***************************************************************************)
(* Between evaluations, after every restart too, findings and firing flags *)
(* agree: what copyState saw at two different moments never leaves a       *)
(* finding that no series resolves.                                        *)
(***************************************************************************)
THEOREM RestoredCanResolve == Spec => []RestoredFindingsCanResolve
<1>1. IInv => RestoredFindingsCanResolve
  BY Types DEF IInv, Live, Judged, EventsFit, RestoredFindingsCanResolve
<1> QED
  BY <1>1, Invariant, PTL

(***************************************************************************)
(* A restart after a clean shutdown whose last snapshot was written has    *)
(* the findings of that shutdown with their start times, whatever series   *)
(* requests create while the last snapshot is copied.                      *)
(***************************************************************************)
THEOREM RestartKeeps == Spec => RestartKeepsFindings
<1>1. IInv /\ [Next]_vars
        => (mode = "down" /\ mode' = "up" /\ kept.ok /\ there' = disk.there
              => active' = kept.findings)
  <2> SUFFICES ASSUME IInv, [Next]_vars, mode = "down", mode' = "up", kept.ok,
                      there' = disk.there
               PROVE  active' = kept.findings
    OBVIOUS
  <2>1. PICK loads \in BOOLEAN : Start(loads)
    BY DEF Next, Create, Evaluate, EvalBegin, Apply, Judge, Delete, Saving,
           SaveBegin, Save, CopySeries, CopyFindings, WriteFile, WriteFail, Stop,
           Exit, Crash, Gone, Running, vars
  <2>2. active' = [s \in Series |-> IF s \in disk.there THEN disk.findings[s]
                                                        ELSE None]
    BY <2>1 DEF Start, Restored
  <2>3. /\ disk.findings = kept.findings
        /\ \A s \in Series : disk.findings[s] # None => s \in disk.there
    BY DEF IInv, Saved, KeptIsDisk
  <2>4. disk.findings \in [Series -> 0 .. MaxRound]
    BY Types DEF IInv, DiskRecord, Findings
  <2> QED
    BY <2>2, <2>3, <2>4
<1> QED
  BY <1>1, Invariant, PTL DEF Spec, RestartKeepsFindings

(***************************************************************************)
(* The file never goes back to the state of an earlier evaluation: the     *)
(* saving channel orders the background snapshot and the last one.         *)
(***************************************************************************)
THEOREM NewestSnapshotStays == Spec => SnapshotsMoveOn
<1>1. IInv /\ [Next]_vars => disk'.began >= disk.began
  <2> SUFFICES ASSUME IInv, [Next]_vars PROVE disk'.began >= disk.began
    OBVIOUS
  <2>1. ASSUME NEW k \in Savers, WriteFile(k) PROVE disk'.began >= disk.began
    BY <2>1, WriteFileInv
  <2>2. disk.began \in Nat
    BY Types, RoundAssumption DEF IInv, DiskRecord
  <2>3. CASE UNCHANGED disk
    BY <2>2, <2>3
  <2> QED
    BY <2>1, <2>3
    DEF Next, Create, Evaluate, EvalBegin, Apply, Judge, Delete, Saving,
        SaveBegin, Save, CopySeries, CopyFindings, WriteFail, Stop, Exit, Crash,
        Gone, Start, vars
<1> QED
  BY <1>1, Invariant, PTL DEF Spec, SnapshotsMoveOn

===============================================================================
