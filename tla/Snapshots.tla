------------------------------ MODULE Snapshots ------------------------------
(***************************************************************************)
(* Snapshots, shutdown, crashes and restarts (internal/server/state.go and *)
(* the loop of server.go Run) around an evaluator that raises and clears   *)
(* one condition per series (module Evaluation has its detail, module      *)
(* Alarms its contract).                                                   *)
(*                                                                         *)
(* A save copies the series shard by shard, then the findings, and writes  *)
(* the file without any lock: series are created and deleted, the          *)
(* evaluator walks and applies its events, and the server may crash        *)
(* between any two of those steps.  The templates of a snapshot are the    *)
(* subject of module Templates.                                            *)
(***************************************************************************)
EXTENDS Integers

CONSTANTS
  Series,
  MaxRound     \* bound: evaluations

ASSUME RoundAssumption == MaxRound \in Nat

None == 0      \* no finding; a finding is the round it started in
Rounds == 1 .. MaxRound

VARIABLES
  mode,     \* "down", "up", "stopping" (the context is cancelled)
  there,    \* series in the store
  firing,   \* series whose firing flag is set
  round,    \* evaluations so far, the clock of StartsAt
  todo,     \* series the evaluation under way has not walked yet
  judging,  \* the evaluation walks, its events are not applied
  event,    \* event[s]: what Apply will do to s: "none", "fire", "resolve"
  active,   \* active[s]: the finding of s
  save,     \* save[k]: a save call and its copy of the state
  disk,     \* the snapshot file
  kept      \* history: the findings that a clean stop saved, if it was clean

store == <<there, firing>>
evaluator == <<round, todo, judging, event, active>>
vars == <<mode, store, evaluator, save, disk, kept>>

Savers == {"tick", "final"}   \* the background save and the one at shutdown

NoFindings == [s \in Series |-> None]
NoEvents == [s \in Series |-> "none"]
Idle == [at |-> "idle", left |-> {}, there |-> {}, findings |-> NoFindings,
         began |-> 0]
NoFile == [there |-> {}, findings |-> NoFindings, began |-> 0]

Running == mode \in {"up", "stopping"}

-------------------------------------------------------------------------------
(* The live server.                                                        *)

\* A push or a remote write creates a series.
Create(s) ==
  /\ Running /\ s \notin there
  /\ there' = there \cup {s}
  /\ UNCHANGED <<mode, firing, evaluator, save, disk, kept>>

EvalBegin ==
  /\ mode = "up" /\ ~judging /\ round < MaxRound
  /\ round' = round + 1
  /\ judging' = TRUE
  /\ todo' = there
  /\ UNCHANGED <<mode, store, event, active, save, disk, kept>>

\* evalSeries walks s: it may set or clear its flag and queues the event.
Judge(s) ==
  /\ mode = "up" /\ judging /\ s \in todo
  /\ todo' = todo \ {s}
  /\ \/ UNCHANGED <<firing, event>>
     \/ /\ s \notin firing
        /\ firing' = firing \cup {s}
        /\ event' = [event EXCEPT ![s] = "fire"]
     \/ /\ s \in firing
        /\ firing' = firing \ {s}
        /\ event' = [event EXCEPT ![s] = "resolve"]
  /\ UNCHANGED <<mode, there, round, judging, active, save, disk, kept>>

Apply ==
  /\ mode = "up" /\ judging /\ todo = {}
  /\ judging' = FALSE
  /\ active' = [s \in Series |-> CASE event[s] = "fire" -> round
                                   [] event[s] = "resolve" -> None
                                   [] OTHER -> active[s]]
  /\ event' = NoEvents
  /\ UNCHANGED <<mode, store, round, todo, save, disk, kept>>

\* gc deletes a series without data; such a series does not fire
\* (Evaluation!DeadIsQuiet).
Delete(s) ==
  /\ mode = "up" /\ ~judging /\ s \in there /\ s \notin firing
  /\ there' = there \ {s}
  /\ UNCHANGED <<mode, firing, evaluator, save, disk, kept>>

-------------------------------------------------------------------------------
(* Saving.                                                                 *)

\* Mutant: a save begins whether or not another is running.
NoneSavingUnchecked == TRUE

\* The saving channel, with room for one, is empty.
NoneSaving == \A k \in Savers : save[k].at \in {"idle", "done"}

SaveBegin(k) ==
  /\ save[k].at = "idle" /\ NoneSaving
  /\ mode = IF k = "tick" THEN "up" ELSE "stopping"
  /\ save' = [save EXCEPT ![k] = [Idle EXCEPT !.at = "series", !.left = Series,
                                              !.began = round]]
  /\ UNCHANGED <<mode, store, evaluator, disk, kept>>

\* copyState: one series under its shard lock.
CopySeries(k, s) ==
  /\ save[k].at = "series" /\ s \in save[k].left
  /\ save' = [save EXCEPT ![k].left = @ \ {s},
                          ![k].there = IF s \in there THEN @ \cup {s} ELSE @]
  /\ UNCHANGED <<mode, store, evaluator, disk, kept>>

\* copyState: the active findings under findMu, after the series.
CopyFindings(k) ==
  /\ save[k].at = "series" /\ save[k].left = {}
  /\ save' = [save EXCEPT ![k].at = "write", ![k].findings = active]
  /\ UNCHANGED <<mode, store, evaluator, disk, kept>>

\* The background save empties the channel; after the final one, Run returns.
Finished(k) == save' = [save EXCEPT ![k] =
                          IF k = "tick" THEN Idle ELSE [Idle EXCEPT !.at = "done"]]

\* The temporary file is complete and renamed.
WriteFile(k) ==
  /\ save[k].at = "write"
  /\ disk' = [there |-> save[k].there, findings |-> save[k].findings,
              began |-> save[k].began]
  /\ kept' = IF k = "final" THEN [ok |-> TRUE, findings |-> active] ELSE kept
  /\ Finished(k)
  /\ UNCHANGED <<mode, store, evaluator>>

\* Mutant: a failed save keeps the channel.
WriteFailHolds(k) ==
  /\ save[k].at = "write"
  /\ save' = [save EXCEPT ![k].at = "failed"]
  /\ UNCHANGED <<mode, store, evaluator, disk, kept>>

\* The disk is full or the directory is gone: the temporary file is removed.
WriteFail(k) ==
  /\ save[k].at = "write"
  /\ Finished(k)
  /\ UNCHANGED <<mode, store, evaluator, disk, kept>>

Save(k) == \/ \E s \in Series : CopySeries(k, s)
           \/ CopyFindings(k) \/ WriteFile(k) \/ WriteFail(k)

-------------------------------------------------------------------------------
(* The process.                                                            *)

\* The loop of Run sees the cancelled context between two evaluations.
Stop ==
  /\ mode = "up" /\ ~judging
  /\ mode' = "stopping"
  /\ UNCHANGED <<store, evaluator, save, disk, kept>>

\* The memory of the process is gone; a write under way is lost.
Gone ==
  /\ mode' = "down"
  /\ there' = {} /\ firing' = {} /\ todo' = {} /\ judging' = FALSE
  /\ event' = NoEvents /\ active' = NoFindings
  /\ save' = [k \in Savers |-> Idle]
  /\ UNCHANGED <<round, disk>>

Exit ==
  /\ mode = "stopping" /\ save["final"].at = "done"
  /\ Gone
  /\ UNCHANGED kept

\* A crash, or the listener failed: Run returns without a snapshot.
Crash ==
  /\ Running
  /\ Gone
  /\ kept' = [ok |-> FALSE, findings |-> NoFindings]

\* Mutant: a finding is restored whether or not its series is.
RestoredAlways(restored) == disk.findings

\* restoreFindings: findings whose series came back.
Restored(restored) ==
  [s \in Series |-> IF s \in restored THEN disk.findings[s] ELSE None]

\* The series come back unless the file does not decode or --step or the ring
\* sizes changed.
Start(loads) ==
  /\ mode = "down"
  /\ mode' = "up"
  /\ there' = IF loads THEN disk.there ELSE {}
  /\ active' = Restored(there')
  /\ firing' = {s \in there' : active'[s] # None}
  /\ kept' = [ok |-> FALSE, findings |-> NoFindings]
  /\ UNCHANGED <<round, todo, judging, event, save, disk>>

-------------------------------------------------------------------------------

Init ==
  /\ mode = "down"
  /\ there = {} /\ firing = {}
  /\ round = 0 /\ todo = {} /\ judging = FALSE
  /\ event = NoEvents /\ active = NoFindings
  /\ save = [k \in Savers |-> Idle]
  /\ disk = NoFile
  /\ kept = [ok |-> FALSE, findings |-> NoFindings]

Evaluate == EvalBegin \/ Apply \/ \E s \in Series : Judge(s) \/ Delete(s)

Saving == \E k \in Savers : SaveBegin(k) \/ Save(k)

Next ==
  \/ \E s \in Series : Create(s)
  \/ Evaluate \/ Saving \/ Stop \/ Exit \/ Crash
  \/ \E loads \in BOOLEAN : Start(loads)

Spec == Init /\ [][Next]_vars

\* Goroutines run: a save goes on, and so does a server that stops.
FairSpec == /\ Spec
            /\ \A k \in Savers : WF_vars(Save(k))
            /\ WF_vars(SaveBegin("final"))
            /\ WF_vars(Exit)

-------------------------------------------------------------------------------
(* Correctness.                                                            *)

Findings == [Series -> 0 .. MaxRound]

TypeOK ==
  /\ mode \in {"down", "up", "stopping"}
  /\ there \subseteq Series /\ firing \subseteq there
  /\ round \in 0 .. MaxRound /\ judging \in BOOLEAN
  /\ todo \subseteq Series
  /\ event \in [Series -> {"none", "fire", "resolve"}]
  /\ active \in Findings
  /\ save \in [Savers -> [at : {"idle", "series", "write", "done"},
                          left : SUBSET Series, there : SUBSET Series,
                          findings : Findings, began : 0 .. MaxRound]]
  /\ disk \in [there : SUBSET Series, findings : Findings, began : 0 .. MaxRound]
  /\ kept \in [ok : BOOLEAN, findings : Findings]

(***************************************************************************)
(* Between evaluations, and after every restart, a finding is active       *)
(* exactly when the flag of its series is set, whatever moment the         *)
(* snapshot was copied at and the crash came: a restored finding can       *)
(* always resolve through the normal path (state.go:264-266).              *)
(***************************************************************************)
RestoredFindingsCanResolve ==
  Running /\ ~judging =>
    \A s \in Series : active[s] # None <=> s \in firing

(***************************************************************************)
(* After a shutdown whose last save succeeded, a restart that finds its    *)
(* series again has the same findings with the same start times            *)
(* (state.go:34: a restart neither drops nor re-dates them).               *)
(***************************************************************************)
RestartKeepsFindings ==
  [][mode = "down" /\ mode' = "up" /\ kept.ok /\ there' = disk.there
       => active' = kept.findings]_vars

(***************************************************************************)
(* A snapshot never replaces one that was begun later (server.go:197, 205, *)
(* 217: one save at a time, and the last one waits).                       *)
(***************************************************************************)
SnapshotsMoveOn == [][disk'.began >= disk.began]_vars

(***************************************************************************)
(* A server asked to stop terminates, whether or not a snapshot runs and   *)
(* whether or not it can be written (server.go:200-210, 217-223).          *)
(***************************************************************************)
StopEnds == mode = "stopping" ~> mode = "down"

===============================================================================
