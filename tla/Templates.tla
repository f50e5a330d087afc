------------------------------ MODULE Templates ------------------------------
(***************************************************************************)
(* The log templates of one service: the miner with its LRU list and ids   *)
(* (internal/drain/drain.go), the aliases and metadata of the server       *)
(* (ingest.go globalTemplate, addLog), novelty and the deletion of         *)
(* metadata (eval.go evalNovelty, gc), and snapshots of all that           *)
(* (state.go copyState, load, restoreFindings).                            *)
(*                                                                         *)
(* What tokens a line has is left out: lines of one shape are similar      *)
(* enough to share a template, lines of two shapes are not.  A handler     *)
(* first maps its text to a template, under the miner lock and tmplMu, and *)
(* later counts it, under tmplMu and then under a shard lock; evaluation   *)
(* and a snapshot take one lock after the other too.  A push counts an     *)
(* item before it maps the next one; raw lines (handleLogs) are all mapped *)
(* before the first is counted.                                            *)
(*                                                                         *)
(* There is no clock: --novelty-warmup, --novelty-window and --novelty-ttl *)
(* may have passed or not whenever the code compares them.  A finding is   *)
(* dated with the start of the server it was announced under.  Signature   *)
(* findings and the overflow miner of the pool are left out.               *)
(***************************************************************************)
EXTENDS Integers, FiniteSets, Sequences, SequencesExt

CONSTANTS
  Texts,         \* texts that agents send
  ShapeOf,       \* ShapeOf[t]: the shape of t
  Handlers,      \* concurrent requests
  MaxClusters,   \* --drain-max-templates
  AliasCap,      \* 20 * max(MaxClusters, 1000) in the code
  Shards,        \* shards of the log store
  NoveltyMin,    \* --novelty-min-lines
  MaxBody,       \* bound: templates in a body of raw lines
  MaxId,         \* bound: ids
  MaxStarts      \* bound: starts of the server

ASSUME SizesAssumption == /\ MaxClusters \in Nat \ {0} /\ AliasCap \in Nat
                          /\ Shards \in Nat \ {0}
                          /\ NoveltyMin \in Nat \ {0} /\ MaxBody \in Nat \ {0}
                          /\ MaxId \in Nat /\ MaxStarts \in Nat

Shapes == {ShapeOf[t] : t \in Texts}
Ids == 1 .. MaxId

VARIABLES
  mode,      \* "down", "up", "stopping" (the context is cancelled)
  live,      \* the miner's templates, most recently used first
  nextID,    \* the id given last
  alias,     \* alias[t]: the id that t was mapped to, 0 for none
  meta,      \* meta[i]: the metadata of template i
  series,    \* series[i]: history: shapes of the lines in series i
  hand,      \* hand[h]: what handler h is about to do
  phase,     \* where evaluation stands
  verdict,   \* what its last step read
  active,    \* active[i]: StartsAt of the new-template finding of i, 0 for none
  save,      \* the snapshot under way
  disk,      \* the snapshot file
  starts,    \* starts of the server so far
  clean      \* history: findings of the last clean stop, <<>> if there was none

miner == <<live, nextID, alias>>
evaluator == <<phase, verdict>>
snapshot == <<save, disk>>
process == <<mode, starts, clean>>
vars == <<process, miner, meta, series, hand, evaluator, active, snapshot>>

NoMeta == [known |-> FALSE, novel |-> FALSE, count |-> 0, fired |-> 0]
Idle == [at |-> "idle", todo |-> {}]
NoAliases == [t \in Texts |-> 0]
NoFindings == [i \in Ids |-> 0]
NoSeries == [i \in Ids |-> {}]
NoFile == [series |-> NoSeries, active |-> NoFindings, live |-> <<>>]
NoSave == [at |-> "idle", shard |-> 0, file |-> NoFile]
NothingRead == [fire |-> {}, resolve |-> {}, dead |-> {}]

LiveIds == {live[i].id : i \in DOMAIN live}

\* A server that stops finishes the requests it accepted, item by item and line
\* by line.
Up == mode \in {"up", "stopping"}

-------------------------------------------------------------------------------
(* The miner.                                                              *)

\* The template at place i moves to the front.
Touch(i) == <<live[i]>> \o RemoveAt(live, i)

\* Mutant: nothing is evicted.
EvictedNever(l) == l

\* The least recently used templates beyond the cap are evicted.
Evicted(l) == SubSeq(l, 1, IF Len(l) > MaxClusters THEN MaxClusters ELSE Len(l))

\* search: the places of templates similar to the text.
Similar(t) == {i \in DOMAIN live : live[i].shape = ShapeOf[t]}

\* Aliases start over when there are too many.
Aliases == IF Cardinality({t \in Texts : alias[t] # 0}) > AliasCap
           THEN NoAliases ELSE alias

\* What is counted of a text that was mapped to template i.
Line(i, t) == [id |-> i, shape |-> ShapeOf[t]]

\* globalTemplate: a push counts its item before it maps another.
Counts(h, i, t) ==
  /\ hand[h] = Idle
  /\ hand' = [hand EXCEPT ![h] = [at |-> "meta", todo |-> {Line(i, t)}]]

\* handleLogs maps a raw line; lines of one template are counted together.
Mines(h, i, t) ==
  LET lines == hand[h].todo \cup {Line(i, t)}
  IN  /\ hand[h].at \in {"idle", "mining"} /\ Cardinality(lines) <= MaxBody
      /\ hand' = [hand EXCEPT ![h] = [at |-> "mining", todo |-> lines]]

\* globalTemplate: the alias leads to a live template.
HitAlias(h, t) ==
  /\ Up
  /\ \E i \in DOMAIN live :
       /\ live[i].id = Aliases[t]
       /\ live' = Touch(i)
       /\ Counts(h, live[i].id, t)
  /\ alias' = Aliases
  /\ UNCHANGED <<process, nextID, meta, series, evaluator, active, snapshot>>

\* globalTemplate: the text has no alias that leads to a live template.
Aliased(h, i, t) ==
  /\ Aliases[t] \notin LiveIds
  /\ alias' = [Aliases EXCEPT ![t] = i]
  /\ Counts(h, i, t)

Raw(h, i, t) == UNCHANGED alias /\ Mines(h, i, t)

Mapped(h, i, t) == Aliased(h, i, t) \/ Raw(h, i, t)

\* A similar template takes the text.
Join(h, t) ==
  /\ Up
  /\ \E i \in Similar(t) : live' = Touch(i) /\ Mapped(h, live[i].id, t)
  /\ UNCHANGED <<process, nextID, meta, series, evaluator, active, snapshot>>

\* The metadata of a new template, which is novel after the warm-up.
Born(novel) == [NoMeta EXCEPT !.known = TRUE, !.novel = novel]

\* No template is similar: a new one, its metadata, and evictions.
Create(h, t) ==
  /\ Up /\ nextID < MaxId
  /\ Similar(t) = {}
  /\ nextID' = nextID + 1
  /\ live' = Evicted(<<[id |-> nextID', shape |-> ShapeOf[t]]>> \o live)
  /\ \E novel \in BOOLEAN : meta' = [meta EXCEPT ![nextID'] = Born(novel)]
  /\ Mapped(h, nextID', t)
  /\ UNCHANGED <<process, series, evaluator, active, snapshot>>

\* handleLogs has read its body, or the body broke off or holds a line that is
\* too long: nothing of it is counted then.
BodyEnds(h, complete) ==
  /\ Up /\ hand[h].at = "mining"
  /\ hand' = [hand EXCEPT ![h] = IF complete THEN [@ EXCEPT !.at = "meta"] ELSE Idle]
  /\ UNCHANGED <<process, miner, meta, series, evaluator, active, snapshot>>

-------------------------------------------------------------------------------
(* Counting lines.                                                         *)

\* addLog, under tmplMu.  A count beyond NoveltyMin tells nothing more.
CountMeta(h, line) ==
  LET i == line.id
  IN  /\ Up /\ hand[h].at = "meta" /\ line \in hand[h].todo
      /\ hand' = [hand EXCEPT ![h] = [at |-> "series", todo |-> @.todo \ {line},
                                      line |-> line]]
      /\ meta' = IF meta[i].novel /\ meta[i].count < NoveltyMin
                 THEN [meta EXCEPT ![i].count = @ + 1] ELSE meta
      /\ UNCHANGED <<process, miner, series, evaluator, active,
                     snapshot>>

\* addLog, under the shard lock of the template's series.
CountSeries(h) ==
  /\ Up /\ hand[h].at = "series"
  /\ LET line == hand[h].line
         todo == hand[h].todo
     IN  /\ hand' = [hand EXCEPT ![h] = IF todo = {} THEN Idle
                                        ELSE [at |-> "meta", todo |-> todo]]
         /\ series' = [series EXCEPT ![line.id] = @ \cup {line.shape}]
  /\ UNCHANGED <<process, miner, meta, evaluator, active, snapshot>>

-------------------------------------------------------------------------------
(* Evaluation: novelty, then now and then the metadata of evicted          *)
(* templates.                                                              *)

Waiting(i) == meta[i].novel /\ meta[i].fired = 0

Announced == {i \in Ids : Waiting(i) /\ meta[i].count >= NoveltyMin}
Pending   == {i \in Ids : Waiting(i)} \ Announced
Firing    == {i \in Ids : meta[i].novel /\ meta[i].fired # 0}

\* evalNovelty, under tmplMu: the window of the pending templates in forgotten
\* and the time to live of the findings in over have passed.
WalkTemplates(forgotten, over) ==
  /\ mode = "up" /\ phase = "idle"
  /\ phase' = "novelty"
  /\ verdict' = [NothingRead EXCEPT !.fire = Announced, !.resolve = over]
  /\ meta' = [i \in Ids |->
                [meta[i] EXCEPT !.novel = @ /\ i \notin forgotten \cup over,
                                !.fired = IF i \in Announced THEN starts ELSE @]]
  /\ UNCHANGED <<process, miner, series, hand, active, snapshot>>

\* evalNovelty, under findMu: StartsAt is the time the walk put in fired.
Announce ==
  /\ mode = "up" /\ phase = "novelty"
  /\ phase' = "gc" /\ verdict' = NothingRead
  /\ active' = [i \in Ids |-> IF i \in verdict.resolve THEN 0
                              ELSE IF i \in verdict.fire THEN meta[i].fired
                              ELSE active[i]]
  /\ UNCHANGED <<process, miner, meta, series, hand, snapshot>>

\* gc looks at metadata in one evaluation of a hundred.
SkipGc ==
  /\ mode = "up" /\ phase = "gc"
  /\ phase' = "idle"
  /\ UNCHANGED <<process, miner, meta, series, hand, verdict,
                 active, snapshot>>

\* Metadata that existed before the scan, under tmplMu.
GcCandidates ==
  /\ mode = "up" /\ phase = "gc"
  /\ phase' = "scan"
  /\ verdict' = [verdict EXCEPT !.dead = {i \in Ids : meta[i].known /\ ~meta[i].novel}]
  /\ UNCHANGED <<process, miner, meta, series, hand, active, snapshot>>

\* Mutant: the scan takes whatever is not live, and no candidates.
GcScanAll ==
  /\ mode = "up" /\ phase = "scan"
  /\ phase' = "delete"
  /\ verdict' = [verdict EXCEPT !.dead = Ids \ LiveIds]
  /\ UNCHANGED <<process, miner, meta, series, hand, active, snapshot>>

\* What of them the miner still has, under the miner lock.
GcScan ==
  /\ mode = "up" /\ phase = "scan"
  /\ phase' = "delete"
  /\ verdict' = [verdict EXCEPT !.dead = @ \ LiveIds]
  /\ UNCHANGED <<process, miner, meta, series, hand, active, snapshot>>

\* The rest is deleted, under tmplMu.
GcDelete ==
  /\ mode = "up" /\ phase = "delete"
  /\ phase' = "idle" /\ verdict' = NothingRead
  /\ meta' = [i \in Ids |-> IF i \in verdict.dead /\ ~meta[i].novel
                            THEN NoMeta ELSE meta[i]]
  /\ UNCHANGED <<process, miner, series, hand, active, snapshot>>

Evaluate == \/ \E forgotten \in SUBSET Pending, over \in SUBSET Firing :
                 WalkTemplates(forgotten, over)
            \/ Announce \/ SkipGc
            \/ GcCandidates \/ GcScan \/ GcDelete

-------------------------------------------------------------------------------
(* A snapshot.                                                             *)

running == <<process, miner, meta, series, hand, evaluator, active>>

\* In the background, or the last one when the server stops.
SaveBegin ==
  /\ Up /\ save.at = "idle" /\ starts < MaxStarts
  /\ save' = [NoSave EXCEPT !.at = "series"]
  /\ UNCHANGED <<running, disk>>

\* One shard after the other.
CopySeries ==
  /\ save.at = "series"
  /\ save' = [save EXCEPT
                !.file.series = [i \in Ids |-> IF i % Shards = save.shard
                                              THEN series[i] ELSE @[i]],
                !.shard = @ + 1,
                !.at = IF save.shard + 1 = Shards THEN "findings" ELSE "series"]
  /\ UNCHANGED <<running, disk>>

CopyFindings ==
  /\ save.at = "findings"
  /\ save' = [save EXCEPT !.file.active = active, !.at = "templates"]
  /\ UNCHANGED <<running, disk>>

CopyTemplates ==
  /\ save.at = "templates"
  /\ save' = [save EXCEPT !.file.live = live, !.at = "write"]
  /\ UNCHANGED <<running, disk>>

\* A write that fails is the subject of Snapshots.
WriteFile ==
  /\ save.at = "write"
  /\ disk' = save.file
  /\ save' = [NoSave EXCEPT !.at = IF mode = "stopping" THEN "done" ELSE "idle"]
  /\ UNCHANGED running

Save == SaveBegin \/ CopySeries \/ CopyFindings \/ CopyTemplates \/ WriteFile

-------------------------------------------------------------------------------
(* The process.                                                            *)

\* Between two evaluations, and when no snapshot runs.
Stop ==
  /\ mode = "up" /\ phase = "idle" /\ save.at = "idle" /\ starts < MaxStarts
  /\ mode' = "stopping"
  /\ UNCHANGED <<starts, clean, miner, meta, series, hand, evaluator, active,
                 snapshot>>

\* The memory of the process is gone.
Gone ==
  /\ mode' = "down"
  /\ live' = <<>> /\ nextID' = 0 /\ alias' = NoAliases
  /\ meta' = [i \in Ids |-> NoMeta] /\ series' = NoSeries
  /\ hand' = [h \in Handlers |-> Idle]
  /\ phase' = "idle" /\ verdict' = NothingRead
  /\ active' = NoFindings
  /\ save' = NoSave
  /\ UNCHANGED <<disk, starts>>

Exit ==
  /\ mode = "stopping" /\ save.at = "done"
  /\ clean' = <<active>>
  /\ Gone

Crash ==
  /\ Up /\ starts < MaxStarts
  /\ clean' = <<>>
  /\ Gone

\* Mutant: ids go on after the number of templates.
RestoredIDByCount(l) == Len(l)

\* Restore: ids go on after the largest.
RestoredID(l) == Max({0} \cup {l[i].id : i \in DOMAIN l})

\* Mutant: findings are restored whether or not their template is.
RestorableAlways(i) == TRUE

\* restoreFindings: the template came back.
Restorable(i) == i \in {disk.live[j].id : j \in DOMAIN disk.live}

\* Series do not come back when --step or the ring size changed.
Start(loads) ==
  /\ mode = "down" /\ starts < MaxStarts
  /\ mode' = "up" /\ starts' = starts + 1 /\ clean' = <<>>
  /\ live' = disk.live
  /\ nextID' = RestoredID(disk.live)
  /\ series' = IF loads THEN disk.series ELSE NoSeries
  /\ active' = [i \in Ids |-> IF Restorable(i) THEN disk.active[i] ELSE 0]
  /\ meta' = [i \in Ids |->
                IF i \notin {disk.live[j].id : j \in DOMAIN disk.live} THEN NoMeta
                ELSE [NoMeta EXCEPT !.known = TRUE,
                                    !.novel = active'[i] # 0,
                                    !.fired = active'[i]]]
  /\ UNCHANGED <<alias, hand, evaluator, snapshot>>

-------------------------------------------------------------------------------

Init ==
  /\ mode = "down" /\ starts = 0 /\ clean = <<>>
  /\ live = <<>> /\ nextID = 0 /\ alias = NoAliases
  /\ meta = [i \in Ids |-> NoMeta] /\ series = NoSeries
  /\ hand = [h \in Handlers |-> Idle]
  /\ phase = "idle" /\ verdict = NothingRead
  /\ active = NoFindings
  /\ save = NoSave /\ disk = NoFile

Handle(h) ==
  \/ \E t \in Texts : HitAlias(h, t) \/ Join(h, t) \/ Create(h, t)
  \/ \E complete \in BOOLEAN : BodyEnds(h, complete)
  \/ \E line \in hand[h].todo : CountMeta(h, line)
  \/ CountSeries(h)

Next ==
  \/ \E h \in Handlers : Handle(h)
  \/ Evaluate \/ Save \/ Stop \/ Exit \/ Crash
  \/ \E loads \in BOOLEAN : Start(loads)

Spec == Init /\ [][Next]_vars

-------------------------------------------------------------------------------
(* Correctness.                                                            *)

Dates == 0 .. MaxStarts

TypeOK ==
  /\ mode \in {"down", "up", "stopping"} /\ starts \in 0 .. MaxStarts
  /\ live \in Seq([id : Ids, shape : Shapes]) /\ Len(live) <= MaxClusters
  /\ nextID \in 0 .. MaxId
  /\ alias \in [Texts -> 0 .. MaxId]
  /\ meta \in [Ids -> [known : BOOLEAN, novel : BOOLEAN, count : Nat, fired : Dates]]
  /\ series \in [Ids -> SUBSET Shapes] /\ active \in [Ids -> Dates]
  /\ phase \in {"idle", "novelty", "gc", "scan", "delete"}

(***************************************************************************)
(* Every live template has its metadata, although gc deletes metadata in   *)
(* three separately locked steps while pushes create and evict templates   *)
(* (eval.go:486-509).                                                      *)
(***************************************************************************)
LiveHasMeta == \A i \in LiveIds : meta[i].known

(***************************************************************************)
(* The counts of a template's series are of one template only: an id is    *)
(* never given to a second template while the first one's series exists,   *)
(* whatever restarts, snapshots between two steps, evictions and stale     *)
(* aliases do (drain.go:114-123, ingest.go:385-403, state.go:79-100).      *)
(***************************************************************************)
SeriesOfOneTemplate == \A i \in Ids : Cardinality(series[i]) <= 1

(***************************************************************************)
(* Between evaluations a new-template finding is active exactly for the    *)
(* templates whose metadata will resolve it after --novelty-ttl, and with  *)
(* the same start time, evicted templates, gc and restarts included        *)
(* (eval.go:379-441, state.go:264-282).                                    *)
(***************************************************************************)
NewFindingsCanResolve ==
  mode = "up" /\ phase # "novelty" =>
    \A i \in Ids : active[i] = IF meta[i].novel THEN meta[i].fired ELSE 0

(***************************************************************************)
(* Firing findings are saved too: after a clean stop and a start the same  *)
(* new-template findings are active, with the same start times             *)
(* (README.md:267-268; state.go:34).                                       *)
(***************************************************************************)
NewFindingsSurvive ==
  [][mode = "down" /\ mode' = "up" /\ clean # <<>> => active' = clean[1]]_vars

===============================================================================
