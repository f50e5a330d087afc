---------------------------- MODULE AlertDelivery ----------------------------
(***************************************************************************)
(* From findings to open alerts: apply, resolveLocked, the signatures of   *)
(* evalSignaturesLocked and sendAlerts (internal/server/eval.go), with     *)
(* what a snapshot keeps of them (state.go), against Alertmanagers that    *)
(* may be out of reach and a server that stops, crashes and starts.        *)
(*                                                                         *)
(* Time is counted in rounds: one --eval-interval, one Evaluate.  Module   *)
(* Evaluation says which findings fire and resolve; here any may, several  *)
(* times in a round (a round scores up to maxCatchUp buckets).  Peers      *)
(* gossip, so the Alertmanagers are one receiver, which accepts a post,    *)
(* takes it without an answer, or never hears of it (external): it keeps   *)
(* the last alert it was sent for a finding and closes it when its endsAt  *)
(* has passed.                                                             *)
(***************************************************************************)
EXTENDS Integers, Sequences

CONSTANTS
  Findings,   \* keys of the findings that Evaluation raises
  Signature,  \* key of a signature of a service
  Hold,       \* rounds an alert stays open without a post, at least 4
  Cap,        \* length of the list of resolved findings, 500 in the code
  SigEvery,   \* sigEvery, 24 h, in rounds
  TTL,        \* --novelty-ttl in rounds
  MaxFlips    \* bound: changes of findings in one round

ASSUME DeliveryAssumption == /\ Signature \notin Findings
                             /\ Hold \in Nat /\ Hold >= 4
                             /\ Cap \in Nat \ {0}
                             /\ SigEvery \in Nat /\ TTL \in Nat
                             /\ TTL < SigEvery /\ MaxFlips \in Nat

Keys == Findings \cup {Signature}

VARIABLES
  mode,      \* "down", "idle" between two rounds, "eval", "sign", "send"
  flips,     \* changes in this round
  active,    \* keys of the active findings
  resolved,  \* the resolved findings, newest first: key and resolveSent
  fired,     \* rounds since sigFired of the signature, at most SigEvery
  disk,      \* the snapshot
  open,      \* open[k]: rounds the receiver keeps the alert open, 0: closed
  ended,     \* history: rounds since k was last active, at most Hold
  posts,     \* history: accepted posts since k fired or was restored, up to 2
  silent,    \* history: rounds since an accepted post, at most Hold
  orphans,   \* history: keys whose unsent resolve was cut off or forgotten
  since,     \* history: rounds since the signature fired, at most SigEvery
  memory     \* history: who knows of that: "process" only, "snapshot", "none"

server == <<mode, flips, active, resolved, fired>>
history == <<ended, posts, silent, orphans, since, memory>>
vars == <<server, disk, open, history>>

Up == mode # "down"
Smaller(a, b) == IF a <= b THEN a ELSE b
Later(n, top) == Smaller(n + 1, top)

-------------------------------------------------------------------------------
(* Time.                                                                   *)

\* A round passes.  The snapshot holds times, so they age on disk too.
Passes ==
  /\ fired' = Later(fired, SigEvery)
  /\ disk' = [disk EXCEPT !.fired = Later(@, SigEvery)]
  /\ open' = [k \in Keys |-> IF open[k] = 0 THEN 0 ELSE open[k] - 1]
  /\ ended' = [k \in Keys |-> IF k \in active THEN 0 ELSE Later(ended[k], Hold)]
  /\ silent' = Later(silent, Hold)
  /\ since' = Later(since, SigEvery)
  /\ UNCHANGED <<active, resolved, posts, orphans, memory>>

\* The ticker of Run calls Evaluate.
Tick == mode = "idle" /\ mode' = "eval" /\ flips' = 0 /\ Passes

TickDown == mode = "down" /\ UNCHANGED <<mode, flips>> /\ Passes

-------------------------------------------------------------------------------
(* Evaluate.                                                               *)

\* apply, evFire.
Fire(k) ==
  /\ mode = "eval" /\ flips < MaxFlips /\ k \notin active
  /\ active' = active \cup {k}
  /\ flips' = flips + 1
  /\ posts' = [posts EXCEPT ![k] = 0]
  /\ orphans' = orphans \ {k}
  /\ UNCHANGED <<mode, resolved, fired, disk, open, ended, silent, since,
                 memory>>

\* Mutant: the list keeps its oldest entries.
ListedOldest(k) ==
  SubSeq(resolved \o <<[key |-> k, sent |-> FALSE]>>, 1,
         Smaller(Len(resolved) + 1, Cap))

\* Mutant: the list is never cut.
ListedUncut(k) == <<[key |-> k, sent |-> FALSE]>> \o resolved

\* resolveLocked: newest first, cut at the cap.
Listed(k) ==
  SubSeq(<<[key |-> k, sent |-> FALSE]>> \o resolved, 1,
         Smaller(Len(resolved) + 1, Cap))

\* The keys of which a resolve is owed to the receiver.
Owed(list) == {k \in Keys : \E i \in DOMAIN list :
                              list[i].key = k /\ ~list[i].sent}

Resolving(k) ==
  /\ active' = active \ {k}
  /\ resolved' = Listed(k)
  /\ ended' = [ended EXCEPT ![k] = 0]
  /\ orphans' = orphans \cup (IF Len(resolved) < Cap \/ resolved[Cap].sent THEN {}
                              ELSE {resolved[Cap].key} \ Owed(Listed(k)))

\* apply, evResolve.
Resolve(k) ==
  /\ mode = "eval" /\ flips < MaxFlips /\ k \in active
  /\ Resolving(k)
  /\ flips' = flips + 1
  /\ UNCHANGED <<mode, fired, disk, open, posts, silent, since, memory>>

Applied == /\ mode = "eval"
           /\ mode' = "sign"
           /\ UNCHANGED <<flips, active, resolved, fired, disk, open, history>>

SignatureMayFire == Signature \notin active /\ fired = SigEvery

\* evalSignaturesLocked: lines that match arrived.
SignatureFires ==
  /\ mode = "sign" /\ SignatureMayFire
  /\ mode' = "send"
  /\ active' = active \cup {Signature}
  /\ fired' = 0
  /\ posts' = [posts EXCEPT ![Signature] = 0]
  /\ orphans' = orphans \ {Signature}
  /\ since' = 0 /\ memory' = "process"
  /\ UNCHANGED <<flips, resolved, disk, open, ended, silent>>

\* No such lines, or too soon: an old finding resolves.
SignatureRests ==
  /\ mode = "sign"
  /\ mode' = "send"
  /\ IF Signature \in active /\ fired > TTL
     THEN Resolving(Signature)
     ELSE UNCHANGED <<active, resolved, ended, orphans>>
  /\ UNCHANGED <<flips, fired, disk, open, posts, silent, since, memory>>

\* Mutant: resolves are not marked as sent.
MarkedNever == resolved

Marked == [i \in DOMAIN resolved |-> [resolved[i] EXCEPT !.sent = TRUE]]

\* Mutant: a resolve is sent with the end of an active alert.
UntilForAll(k) == IF k \in active \cup Owed(resolved) THEN Hold ELSE open[k]

\* What the batch means to the receiver: the active findings come first, so an
\* unsent resolve of the same finding is what it keeps.
Until(k) == CASE k \in Owed(resolved) -> 0
              [] k \in active /\ k \notin Owed(resolved) -> Hold
              [] OTHER -> open[k]

\* sendAlerts; a post reaches at least one Alertmanager.
SendAccepted ==
  /\ mode = "send"
  /\ mode' = "idle"
  /\ open' = [k \in Keys |-> Until(k)]
  /\ resolved' = Marked
  /\ posts' = [k \in Keys |-> IF k \in active THEN Later(posts[k], 2) ELSE posts[k]]
  /\ silent' = 0
  /\ UNCHANGED <<flips, active, fired, disk, ended, orphans, since, memory>>

\* The receiver took the post, but no answer came: resolves stay unsent.
AnswerLost ==
  /\ mode = "send"
  /\ mode' = "idle"
  /\ open' = [k \in Keys |-> Until(k)]
  /\ UNCHANGED <<flips, active, resolved, fired, disk, history>>

\* The post reaches no Alertmanager, or none takes it.
SendFailed ==
  /\ mode = "send"
  /\ mode' = "idle"
  /\ UNCHANGED <<flips, active, resolved, fired, disk, open, history>>

-------------------------------------------------------------------------------
(* Snapshots and restarts (module Snapshots has their steps).              *)

Save ==
  /\ Up
  /\ disk' = [active |-> active, fired |-> fired]
  /\ memory' = IF memory = "process" THEN "snapshot" ELSE memory
  /\ UNCHANGED <<server, open, ended, posts, silent, orphans, since>>

\* The process ends: the findings and the unsent resolves are gone.
End ==
  /\ Up
  /\ mode' = "down"
  /\ active' = {} /\ resolved' = <<>> /\ fired' = SigEvery
  /\ flips' = 0
  /\ ended' = [k \in Keys |-> IF k \in active THEN 0 ELSE ended[k]]
  /\ orphans' = orphans \cup active \cup Owed(resolved)
  /\ UNCHANGED <<disk, open, posts, silent, since, memory>>

\* Mutant: the snapshot keeps the time of a signature with its finding only.
RestoredFiredActive == IF Signature \in disk.active THEN disk.fired ELSE SigEvery

RestoredFired == disk.fired

\* load and restoreFindings: a finding comes back if its series did, that of a
\* signature always.
Load ==
  /\ mode = "down"
  /\ mode' = "idle"
  /\ \E keep \in SUBSET disk.active :
       /\ Signature \in disk.active => Signature \in keep
       /\ active' = keep
       /\ fired' = RestoredFired
       /\ orphans' = orphans \ keep
       /\ posts' = [k \in Keys |-> IF k \in keep THEN 0 ELSE posts[k]]
  /\ memory' = IF memory = "process" THEN "none" ELSE memory
  /\ UNCHANGED <<flips, resolved, disk, open, ended, silent, since>>

NoDisk == [active |-> {}, fired |-> SigEvery]

\* There is no snapshot, or it cannot be read.
StartEmpty ==
  /\ mode = "down"
  /\ mode' = "idle"
  /\ memory' = "none"
  /\ disk' = NoDisk
  /\ UNCHANGED <<flips, active, resolved, fired, open, ended, posts, silent,
                 orphans, since>>

-------------------------------------------------------------------------------

Init ==
  /\ mode = "down" /\ flips = 0
  /\ active = {} /\ resolved = <<>> /\ fired = SigEvery
  /\ disk = NoDisk
  /\ open = [k \in Keys |-> 0]
  /\ ended = [k \in Keys |-> Hold] /\ posts = [k \in Keys |-> 0]
  /\ silent = Hold /\ orphans = {}
  /\ since = SigEvery /\ memory = "none"

Sign == SignatureFires \/ SignatureRests

Next ==
  \/ Tick \/ TickDown
  \/ \E k \in Findings : Fire(k) \/ Resolve(k)
  \/ Applied \/ Sign \/ SendAccepted \/ AnswerLost \/ SendFailed
  \/ Save \/ End \/ Load \/ StartEmpty

Spec == Init /\ [][Next]_vars

\* Evaluate is called again and again and returns, and an Alertmanager is not
\* out of reach for ever.
FairSpec == /\ Spec
            /\ WF_mode(Tick) /\ WF_mode(Applied) /\ WF_mode(Sign)
            /\ SF_mode(SendAccepted)

-------------------------------------------------------------------------------
(* Correctness.                                                            *)

TypeOK ==
  /\ mode \in {"down", "idle", "eval", "sign", "send"}
  /\ flips \in 0 .. MaxFlips
  /\ active \subseteq Keys
  /\ resolved \in Seq([key : Keys, sent : BOOLEAN]) /\ Len(resolved) <= Cap
  /\ fired \in 0 .. SigEvery
  /\ disk \in [active : SUBSET Keys, fired : 0 .. SigEvery]
  /\ open \in [Keys -> 0 .. Hold] /\ ended \in [Keys -> 0 .. Hold]
  /\ posts \in [Keys -> 0 .. 2] /\ silent \in 0 .. Hold
  /\ orphans \subseteq Keys
  /\ since \in 0 .. SigEvery /\ memory \in {"process", "snapshot", "none"}

(***************************************************************************)
(* Every alert open at the receiver is that of an active finding, or its   *)
(* resolve still waits in the list to be sent, whatever posts failed:      *)
(* resolves are lost only when the list is cut or the process ends         *)
(* (eval.go:267-273, 532-535).                                             *)
(***************************************************************************)
OpenIsOwed ==
  \A k \in Keys :
    open[k] > 0 => k \in active \cup Owed(resolved) \cup orphans

(***************************************************************************)
(* An alert is never open longer than Hold rounds after its finding was    *)
(* last active, even when posts fail, its resolve is cut off or the server *)
(* is gone (eval.go:540: endsAt lies at most that far in the future).      *)
(***************************************************************************)
ClosesInTime ==
  \A k \in Keys \ active : open[k] + ended[k] <= Hold

(***************************************************************************)
(* From the second accepted post on the alert of an active finding is      *)
(* open, unless no post is accepted for Hold rounds: the resolve of an     *)
(* earlier finding with its key cannot close it any more                   *)
(* (eval.go:532-535, 544-552).                                             *)
(***************************************************************************)
OpenAfterTwoPosts ==
  \A k \in active : posts[k] = 2 /\ silent < Hold => open[k] > 0

(***************************************************************************)
(* A signature fires at most once in SigEvery rounds, across restarts too  *)
(* unless the firing is in no snapshot that was read (README.md:236-237,   *)
(* eval.go:443-458, state.go:89-93).                                       *)
(***************************************************************************)
SignatureOnce ==
  [][Up /\ Signature \notin active /\ Signature \in active'
       => since = SigEvery \/ memory = "none"]_vars

(***************************************************************************)
(* A finding that stays active is shown by the receiver again and again,   *)
(* as long as some posts succeed.                                          *)
(***************************************************************************)
ActiveIsShown ==
  \A k \in Keys : <>[](k \in active) => []<>(open[k] > 0)

===============================================================================
