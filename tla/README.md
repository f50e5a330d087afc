# anomalyd in TLA+

This project models `src/anomalyd`, a self-hosted anomaly detector: agents tail
log files, mine templates and push counts; Prometheus remote-writes metrics; the
server keeps both as time series in rings of buckets, scores every closed bucket
against the season and raises, resolves and delivers findings. The modules are
translated from the Go source, TLC checks them on small instances, and TLAPS
proves the main results for every value of the constants.

Run from this directory:

    tlc -workers 2 -config EvalMetric.cfg MCEvaluation
    tlapm Evaluation_proofs.tla

## 1. Inventory

| component | state it keeps | operations | modelled in |
|---|---|---|---|
| ingest (`server/ingest.go`) | data clock `promClock`, ring `promSeen` | remote write, backfill, log push | `Evaluation`, `AgentPush` |
| evaluator (`server/eval.go`) | counters in `seriesInfo`, `active`, `resolved` | `Evaluate`: walk both stores, queue events, `apply`, `gc`; `sendAlerts` | `Evaluation`, `EvaluationHistory`, `EvaluationAlarms`; `AlertDelivery` |
| series store (`series/store.go`) | 64 shards of rings, the shared counter of series | `Update`, `Delete`, `ForEachShard`, `Snapshot`, `Restore`; `Add`, `Advance`, `At` of one series | `SeriesStore`, `SeriesRing`; parts in `Evaluation` and `Snapshots` |
| snapshots (`server/state.go`, `Run` of `server.go`) | the state file, the saving channel | `save`, `load`, `restoreFindings`, shutdown | `Snapshots` |
| template miner (`drain/drain.go`) | prefix tree, LRU list, ids; pool of miners | `Add`, `Hit`, `Restore`, `Get` | `Templates` (one miner); planned: `TemplateTree` |
| template metadata (`ingest.go`, `eval.go`, `signature.go`) | `tmpl`, aliases, `sigFired` | `globalTemplate`, `handleLogs`, novelty, signatures, `gc` | `Templates`; signatures in `AlertDelivery` |
| agent (`agent/agent.go`) | open files and offsets, miner, `counts` backlog | scan, poll, merge, push | `TailFile`, `AgentPush` |
| agent registry (`server/agents.go`) | last report of each agent | record, expire | planned |
| score (`detect/seasonal.go`) | none | `Score` | any outcome, in `Evaluation` |
| decoding, parsing, masking, self-metrics, flags, generator | none, or owned by the parts above | | not modelled (section 8) |

How they interact. An HTTP handler works on one series at a time under the lock
of its shard. The evaluator, driven by a ticker in `Run`, holds a shard lock
while it walks the series of the shard, and collects events; it applies them to
`active` under another lock (`findMu`) when both stores are walked. So a finding
and the flag of its series are two pieces of state, in two places, joined by a
list of events. A snapshot copies the series, then the findings, then the
templates, each under its own lock, while all of that goes on.

What is hard, and the properties that make a component correct:

- evaluator: a bucket must be scored once, when it is final; "in a row" must
  mean in a row although only counters are kept; each finding must have a
  series that will resolve it, although `gc` deletes metric series without
  looking at their flags; a series that stops must resolve although nothing
  arrives any more;
- ingest: requests overlap, fail half-way, and finish in any order; the data
  clock must not move back; "other series had data" is remembered in a ring
  that newer buckets overwrite;
- ring: late samples, gaps and jumps longer than the ring; the mean of a closed
  bucket has to be reweighted with a count that is kept for eight buckets only;
- store: a cap checked on a counter that all shards share and no lock guards,
  lowered by `Delete` only at the end; workers that share out the shards;
- snapshots: a file that mixes moments, crashes between any two steps, a second
  save while the first still writes, a save that fails while shutdown waits;
- templates: two id spaces joined by aliases, eviction, metadata deleted later;
- pushing: lost answers, a bounded backlog;
- tailing: rotation, truncation and removal between any two system calls, lines
  that are only half written, lines a container runtime splits into chunks of
  two interleaved streams;
- delivery: retries, a bounded list of resolved findings, a finding that fires
  again before its resolve was sent, what a restart forgets.

`PROJECT.json` lists the hazards at their lines with the properties that cover
them, or what is planned.

## 2. Modules

| module | what it is |
|---|---|
| `Evaluation` | ingest and evaluator: the core |
| `EvaluationHistory` | `Evaluation`, the verdict on every bucket and the buckets that were ever marked in the ring of seen buckets (`reached`), as history variables |
| `Alarms` | abstract contract of the evaluator: raise, clear, publish in rounds |
| `EvaluationAlarms` | refinement mapping from `Evaluation` to `Alarms` |
| `SeriesRing` | one series: ring, open bucket, late window |
| `SeriesStore` | all series: shards, cap, counter, walks and deletion |
| `Snapshots` | snapshot, shutdown, crash and restart around an abstract evaluator |
| `Templates` | templates of one service: miner, aliases, metadata, novelty, gc, snapshot and restart |
| `AgentPush` | an agent's counts and backlog against the server's push handler |
| `TailFile` | one path an agent tails, against the runtime that rotates it |
| `AlertDelivery` | active and resolved findings, signatures, posts, and the alerts a receiver holds open |
| `..._proofs` | the TLAPS proofs about the module of that name; `Evaluation_proofs` holds those about `EvaluationAlarms` and `EvaluationHistory` too (section 5) |
| `MC...` | what the `.cfg` files instantiate |

### Evaluation

Time is counted in buckets of `--step`; buckets are small numbers that start
above every other constant, as buckets counted from 1970 do (`First`).

| variable | code |
|---|---|
| `stored`, `sr` | the two stores; `sr[s]` is the series (`head`, which buckets hold a value, `LastEval`) and its `seriesInfo` (`pending`, `normal`, `missing`, `firing`, the absence fields, `lastData`) |
| `promSeen`, `newest`, `promClock`, `now` | the ring of seen buckets, the newest sample of each request under way, the data clock, the wall clock |
| `phase`, `promOpen`, `logOpen`, `todo`, `step` | where `Evaluate` stands, the open buckets it read, the series it still has to walk, and whether it is inside a series (its shard lock is held) |
| `events`, `active` | the queued events of each series and the keys of the active findings |

Steps follow the locks. One sample is one step (`WriteSample`, `WriteUndef`,
`WriteStale`, `Backfill`, `LogPush`), for they take the shard lock once per
sample; `WriteDone` moves the clock when the request is decoded and `WriteFail`
ends a malformed one. In the evaluator `EvalBegin` reads the clocks,
`EvalMetrics`/`EvalLogs` start a store, `EvalSeries` locks a series, each bucket
then takes one `TrackAbsent` and one `Score` step, `Apply` replays the events,
`GcSeries` deletes. While a series is locked no sample reaches it, but the
clocks, `promSeen` and the other series go on. Values are abstracted to which
buckets hold one; a bucket with a value scores as nothing, normal or anomalous.
All events of a series stay in the order they were queued; events of different
series touch different findings, so their order across series does not matter
and `events` is kept per series.

### SeriesRing

`vals`, `head`, `acc`, `cnt`, `late` are the fields of `Series`; the open bucket
is `head`. A mean is kept as a fraction (sum over count, NaN is 0/0), so the
weighting is exact. `total`, `number` and `first` are history: what each bucket
was given and took. One action per case of `Add`, and `Advance`.

### SeriesStore

| variable | code |
|---|---|
| `m`, `n`, `dropped` | the maps of all shards, as one set of keys, and the counters of `Store` |
| `adding` | the handlers inside `Update` between the look at the counter and the insertion; they hold the lock of their shard |
| `walk`, `next`, `at` | `ForEachShard`: which walk is under way, its shared counter, and the shard each worker took |
| `removed`, `visits` | what this `Delete` removed; how often each shard was visited (history) |

A new key takes two steps: `FindRoom` looks at the counter, `Insert` inserts and
counts. In between another handler may do the same in another shard, a worker
visits other shards, and `Delete` may end and lower the counter. Updates of keys
that are there, lookups, and walks that only read (`Snapshot`, metrics) change
nothing here. Evaluation and deletion follow one another, as `Evaluate` calls
them. Which series a deletion removes is any choice; `Evaluation` says which.

### Snapshots

The evaluator is reduced to what a snapshot can see: flags set and cleared in
the walk (`Judge`), findings changed by `Apply`, series created and deleted. A
save copies each series in a step, in any order (shards are copied one after the
other and series are created meanwhile), then the findings, then replaces the
file, or fails. `Crash` can happen at any step while the server runs, and it
also stands for the exit without a snapshot when the listener fails.

### Templates

| variable | code |
|---|---|
| `live`, `nextID` | a `Miner`: its LRU list, head first, and the last id; a template is an id and a shape |
| `alias` | `aliases[svc]` |
| `meta` | `tmpl`: whether there is metadata, `novel`, `count`, `fired` |
| `series` | which shapes were counted in the series of a template id (history) |
| `hand` | the request a handler works on, between its lock sections |
| `phase`, `verdict`, `active` | `evalNovelty` and `gc`, and the new-template findings |
| `save`, `disk` | `copyState` piece by piece, and the file |

A text is looked up in one step (miner lock and `tmplMu`), its metadata is
counted in a second (`tmplMu`), its series in a third (shard lock); so a template
may be evicted, and its metadata deleted, before its lines are counted. `gc`
takes three steps, as it takes three locks. A push counts each item before it
maps the next; `handleLogs` maps all lines of its body (`Mines`) and counts them
afterwards, or not at all when the body breaks off (`BodyEnds`), so a body can
evict its own templates. Similarity of texts is an
equivalence here, the shape: what the tree search finds for texts that are
similar to two templates is left to `TemplateTree`. Time is left out: warm-up,
window and time to live have passed or not, whichever the step likes.

### AgentPush

`counts` is the agent's map, keyed by template and level, `req` the requests
under way, one per slot: the one the agent waits for (`slot`) and those it gave
up on, which the server still works at. The server handles a request item by
item: `Skip` passes over an item with an empty template (the agent sends one for
lines without a token), `Count` adds the counts of any other to its series. When
the log store is full, `addLog` ignores that `Update` refuses a series that is
not there (`series`): the counts of the item up to the moment when room is made
go nowhere, and the answer is 204 all the same. Whether the store is full is any
choice, and `Gc` may delete a series so that its next item can be refused too.
`read`, `dropped`, `lost`, `got` (counted in the series) and `missed` (handled
without being counted) are history. Keys stand for series here; in the code keys
that differ in level only share the template series, and each line is added to a
volume series in the same way. A request that
fails half-way (`Break`) stands for a server that goes down and drops the
connection; that what it counted since its last snapshot is then gone belongs to
`Snapshots`. Putting back counts is one step under the agent's mutex; which new
keys find room is any choice, for the code iterates over a map.

### TailFile

| variable | code |
|---|---|
| `log`, `path`, `writer`, `pen` | the files: what was written to each, which one is at the path, which one the runtime has open, and the line and messages it is in the middle of (external) |
| `tf` | `tailFile`: the handle (`file`, `live`), `off`, `partial`, `cpart`, `gone` |
| `poll`, `total` | where `pollAll` stands: reading, before its `Stat`, or finishing a rotated file; and how much this read consumed |
| `skip`, `counted` | what lies before the offset at start-up, and the lines counted (history) |

A file is a sequence of pieces, not of bytes: a piece ends a line, ends a
physical line whose envelope says that more follows, or stops inside a line.
A poll takes one piece in a step (`ReadPiece`, the loops of `read` with the
envelope part of `line`: the piece leaves its line open, `Torn`, adds a chunk,
`Chunk`, ends a message, `Full`, or ends a line whose start was skipped,
`Rest`), so the runtime may write, rotate, truncate or remove the file
between any two pieces, before the `Stat`, and before the second read that
finishes a rotated file. `PollBegin` and `ReadEnds` frame the read; `Gone`,
`Rotated` and `Present` are what `pollAll` does with the `Stat`; `Follow` opens
the new file, or fails to. A counted line is the sequence of the places its
pieces were read from, so the properties can say whether it is one message, all
of it, once. Copytruncate starts a new generation of the same file, so that
texts only grow and lost text can be told from skipped text.

The runtime and the kubelet are the environment, and the assumptions on them are
conjuncts of their actions, named so that a reader can find them: rotations and
removals are further apart than two polls (`Followed`); what is left to read of
a file when its successor appears fits in one read of 8 MiB (`NearlyRead`); a
truncated file is polled before it grows beyond the old offset (`Outgrows`); the
path is missing for less than `removeGrace` during a rotation (`GracePasses`);
the runtime rotates between two physical lines (`Reopen`).

### AlertDelivery

| variable | code |
|---|---|
| `mode`, `flips` | where `Run` and `Evaluate` stand, and the changes of findings in this round |
| `active`, `resolved` | the lists of the same names, newest resolve first, with `resolveSent` |
| `fired` | `sigFired` of the signature, as an age |
| `disk` | what a snapshot keeps of them |
| `open` | how long the receiver keeps each alert open (external) |
| `ended`, `posts`, `silent`, `orphans`, `since`, `memory` | history |

Time goes in rounds of one `Evaluate`; all times are ages, which grow with
`Passes` on disk too. Which findings fire and resolve is any choice
(`Evaluation` says which), several times in a round, as catch-up scores several
buckets. A post is accepted, or taken without an answer (`AnswerLost`: the
receiver has the batch, the server will send the resolves again), or not taken. `Until` is what a batch does to the receiver: the active findings come
first in it, so an unsent resolve with the key of an active finding closes the
alert.

## 3. Runs

| run | question | bounds |
|---|---|---|
| `eval_metric` | no finding orphaned, lost or left firing; buckets scored once, when closed; silent series resolve; `Evaluation` implements `Alarms` | one metric series that comes and goes while others go on, malformed requests; clock jumps up to 5 buckets with `maxCatchUp` 3 and a ring of 4, so catch-up is cut, rings run empty and gc deletes; samples one bucket late; absence is reported after 2 missing buckets and expires at the next one (in `eval_history` it waits); several events of a series in one evaluation, fires and resolves |
| `eval_both` | types and counters hold with both stores | a metric and a log series, staleness markers, undefined samples, backfill, malformed requests |
| `eval_history` | counters fire, resolve and report absence after the runs of buckets the README names; absence resolves when data returns, and only then | `--absent-ttl 0`; every verdict of nine buckets, `--for` 2, `--absent-buckets` 2, clock moves at most `maxCatchUp`, a ring of eight buckets, longer than any jump, and of five seen buckets, so that a bucket meets the mark of another one in its slot; other series come and go |
| `eval_skip` | the same as `eval_history` with a clock that jumps further: violated | |
| `series_ring` | values are exact whatever the order of samples | ring of 4, late window of 2, 7 buckets, 5 samples |
| `series_store` | the counter is exact, the cap nearly kept, freed slots used again | four keys in two shards, a cap of two, three handlers, two workers, one refused update counted |
| `snapshots` | restarts keep what they should | two series, two evaluations, both saves, any number of crashes |
| `agent_push` | no line lost on the way, none handled twice without a lost answer, all delivered | a key with a template and one without, a store that is full or not, backlog of one, two buckets, two failures or timeouts, two requests under way |
| `templates` | ids, metadata and findings stay together | a miner of one template, two ids, three texts of two shapes, bodies of up to two templates, aliases cleared beyond two, two shards, two starts with crashes |
| `tail_file` | every line counted once, whole and in the end; handles closed | two streams, three pieces, three files or truncations, reads of two pieces |
| `alert_delivery` | which alerts are open, for how long, and how often a signature fires | a finding and a signature, two changes in a round, a list of two resolves, a hold of 4 rounds, 4 rounds between two signature findings, any number of failed and unanswered posts, crashes and restarts |
| `templates_restart` | a clean restart keeps new-template findings: violated | as above |

Why the bounds are enough. The counters of the evaluator saturate early: three
missing buckets, two normal ones, `ForBuckets` and `AbsentBuckets` of 1 or 2.
What differs between instances is how far a clock moves in one evaluation
compared with `maxCatchUp` and with the ring, and the runs have moves on both
sides of each. `MaxB` leaves room for a series to fire, fall silent, be deleted
and come back. In `SeriesRing` the buckets outnumber the ring, which outnumbers
the late window, so every slot is used again. `SeriesStore` has more keys than
the cap, two of them in a shard, and more handlers than shards, so both locks
and the cap decide who gets in. In `Snapshots` two series suffice to be copied
at different moments, and two rounds to tell an old start time from a new one.
`AgentPush` needs more keys than the backlog holds, a failure after a failure,
and an abandoned request beside a new one: two of each. In `Templates` a miner
of one template evicts with every creation, and two ids are enough for an id to
be given again after a restart, were that possible. In `TailFile` three pieces
make a message of two chunks around one of the other stream, a read of two
leaves a rest, and three generations rotate or truncate a file twice, also while
a read is under way. In `AlertDelivery` two changes in a round fire and resolve
the same finding again, and a list of two is cut while the resolve of another
waits. The theorems of section 5 drop all of these bounds; one bound stays as a
hypothesis, that clocks move at most `maxCatchUp` buckets in the theorems of
`EvaluationHistory`, and `eval_skip` shows that it must.

Each property of a passing run has a mutant in `PROJECT.json`: a definition with
a plausible bug under which TLC finds the property violated. The mutated
definitions are marked `Mutant` in the modules.

Divergences between the code and what is written about it:

- `eval_skip` shows that `--for` does not always count buckets in a row:
  `evalSeries` skips the buckets older than `maxCatchUp` without breaking the run
  (eval.go:147), while README.md:204 and the comment at eval.go:156 say that it
  does.
- `templates_restart` shows that a clean restart drops the new-template finding
  of a template that the miner evicted meanwhile (state.go:279), while
  README.md:267-268 and state.go:34 say that firing findings survive. The alert
  then ends at Alertmanager when its hold runs out, not after `--novelty-ttl`.

Seven more were met on the way. The modules describe them, and the properties
state what holds in spite of them:

- README.md:256 says that absence resolves when data returns, with
  `--absent-ttl 0` only then. When the clock moves more than `maxCatchUp`
  buckets between two evaluations, the bucket the data returned in may be one
  that `evalSeries` skips (eval.go:147). If nothing follows it, the finding stays,
  with a TTL of 0 until the series sends again. `AbsentResolvesOnData` is
  therefore stated for data in any bucket but checked, in `eval_history`, under
  moves of at most `maxCatchUp`.
- handlePush answers 204 for lines that it counts nowhere: items with an empty
  template, which the agent sends for lines without a token (ingest.go:359-361),
  and those of a series that is new to a full log store, which shows in the
  store's counter of refusals only (ingest.go:474-476, store.go:195). So "counted" in
  `AtLeastOnce`, `OnceWhileAnswered` and `Delivered` has `missed` as an exception.

- The comment at eval.go:532-535 promises a resolve "until a post succeeds", but
  the list it is kept in is cut at 500 (eval.go:270) and no restart restores it.
  `OpenIsOwed` names those cases (`orphans`); `ClosesInTime` shows that the
  alert still ends with its hold.
- A finding that fires again before its resolve was sent is closed for a round:
  the batch holds both, the resolve last (eval.go:544-554). `OpenAfterTwoPosts`
  shows that the next post repairs it.
- store.go:188 and README.md:328 ("It never grows silently") say that a full store
  refuses new series. `Update` compares the counter with the cap under the lock of
  its shard only (store.go:195), so updates of several shards pass together and
  none is refused. `NearCap` bounds the excess: at most 63 series.
- The comment at agent.go:415 says that counts for keys of the backlog are always
  kept. A push takes the whole map, and in `Run` nothing is counted while it
  waits, so every key is new when the counts are put back, and a key that a
  failed push put back may lose its place to one counted since (`PutBack`).
  `AtLeastOnce` shows that what is lost that way is reported as dropped.
- README.md:406-409 says that the agent finishes the old file; it reads up to
  8 MiB of it once (agent.go:232), and chunks left in the old file wait for an
  end that comes in the new one, where they are dropped (agent.go:206).

## 4. Fairness

- `FairSpec` of `Evaluation` and `HFairSpec` of `EvaluationHistory`: weak
  fairness of `Evaluate` alone. `Run` calls it on every tick of its ticker, nothing in it waits for a
  client, and shard locks are held for one sample. Nothing is assumed of
  clients: they may stop for ever.
- `SeriesStore`: every series is written again and again (weak fairness of a
  look for room, for each key), a handler that found room inserts, and the steps
  of a walk go on: no client can block inside `Update` or `ForEachShard`. The
  first is an assumption on the senders, who repeat what was refused; freed slots
  concern no others.
- `Snapshots`: weak fairness of each step of a save, of beginning the final save
  and of exiting: these are goroutines that no client can block. Nothing is
  assumed of ticks, of evaluation or of the disk (a write may fail every time).
- `AgentPush`: weak fairness of a push (the flush ticker; `Run` polls for at most
  one flush interval), of its return with the answer, and of the handler of a
  request. Requests may fail or time out `MaxTrouble` times: delivery is promised
  only for when that ends.
- `TailFile`: weak fairness of the steps of a poll (the poll ticker), of the
  rescan ticker, and of the time that makes up `removeGrace`. Nothing is assumed
  of the runtime.
- `AlertDelivery`: weak fairness of the evaluation ticker and of the steps of
  `Evaluate`, which no client can block; strong fairness of an accepted post: an
  Alertmanager may fail any number of times but not for ever. A server that
  stays down owes nothing, for its findings are not active then.

## 5. Proofs

Every theorem holds for all values of the constants that satisfy the
assumptions of its module: any set of series, keys, handlers or request slots,
any setting and any bound. They are safety properties; all but the two of
`SeriesStore` without a run (`TypeOK`, `EachShardOnce`) are properties of a run,
which shows them on a small instance.

| module | theorem | statement |
|---|---|---|
| `Evaluation_proofs` | `TypeCorrect` | `Spec => []TypeOK` |
| | `FindingsCorrect` | `Spec => []FindingsMatchSeries` |
| | `SilenceResolves` | `Spec => []SilentSeriesResolved` |
| | `ClosedBuckets` | `Spec => []OnlyClosedBucketsScored` |
| | `OnceScored` | `Spec => ScoredOnce` |
| | `AlarmsImplemented` | `Spec => ImplementsAlarms`, the refinement |
| | `FiresInARow` | `Steadily` implies `HSpec => FiresAfterConsecutive` |
| | `ResolvesInARow` | `Steadily` implies `HSpec => ResolvesAfterConsecutive` |
| | `AbsentInARow` | `Steadily` implies `HSpec => AbsentAfterConsecutive` |
| `SeriesRing_proofs` | `RingIsExact` | `Spec => []ValueIsExact` |
| | `LateCountsKept` | `Spec => []CountsKept` |
| `SeriesStore_proofs` | `TypeCorrect` | `Spec => []TypeOK` |
| | `CountExact` | `Spec => []CountIsExact` |
| | `CapNearlyKept` | `Spec => []NearCap` |
| | `WalkIsComplete` | `Spec => EachShardOnce` |
| `Snapshots_proofs` | `TypeCorrect` | `Spec => []TypeOK` |
| | `RestoredCanResolve` | `Spec => []RestoredFindingsCanResolve` |
| | `RestartKeeps` | `Spec => RestartKeepsFindings` |
| | `NewestSnapshotStays` | `Spec => SnapshotsMoveOn` |
| `Templates_proofs` | `TypeCorrect` | `Spec => []TypeOK` |
| | `MetadataStays` | `Spec => []LiveHasMeta` |
| | `IdsAreNotReused` | `Spec => []SeriesOfOneTemplate` |
| | `NewFindingsResolve` | `Spec => []NewFindingsCanResolve` |
| `AgentPush_proofs` | `TypeCorrect` | `Spec => []TypeOK` |
| | `HandledAtLeastOnce` | `Spec => []AtLeastOnce` |
| | `HandledOnceWhileAnswered` | `Spec => []OnceWhileAnswered` |
| `AlertDelivery_proofs` | `TypeCorrect` | `Spec => []TypeOK` |
| | `OpenOwed` | `Spec => []OpenIsOwed` |
| | `AlertsClose` | `Spec => []ClosesInTime` |
| | `TwoPostsOpen` | `Spec => []OpenAfterTwoPosts` |
| | `SignatureFiresOnce` | `Spec => SignatureOnce` |
| `TailFile_proofs` | `TypeCorrect` | `Spec => []TypeOK` |
| | `MessagesWhole` | `Spec => []WholeMessages` |
| | `PiecesOnce` | `Spec => []CountedOnce` |

Each module has an inductive invariant, `IInv` (`HIInv` for
`EvaluationHistory`), three lemmas that it holds at first, is kept by
every step and holds always, and one lemma per action or group of actions. The
arguments:

`Evaluation`. That `gc` never deletes a firing metric series follows from facts
about numbers that live in different steps of the evaluation. The invariant
adds: what each phase knows of `todo` and of the locks; that no bucket beyond
`lastData` holds a value; that a firing series with `missing` gaps has its
newest data within that many buckets of the last verdict (so silence of three
buckets resolves); that after its walk a series has been evaluated up to the
open bucket; and that a series whose newest data is a ring behind therefore does
not fire. For the refinement, replaying the events of a series
commutes with the events of others, so `Apply` publishes what was raised.
Assumptions: `MaxCatchUp >= 3`, rings of at least four buckets (`New` makes them
two seasons and two buckets long), natural numbers for the settings.

`EvaluationHistory`. Each counter is the length of a run of verdicts that ends
at the newest judged bucket (`Passed`). That would break when the evaluator
skips buckets. So the invariant says that a series that counts anything
(`Busy`: pending, firing or missing data) was walked to the end by the last
evaluation and is behind its clock by at most one jump (`Kept`, `Steady`). With
`MaxJump <= MaxCatchUp`, the hypothesis `Steadily`, its next walk then starts
right after the last one; a series that counts nothing may be skipped. Without
the hypothesis the property is false: `eval_skip`. That absence only counts
buckets that others reached needs a second argument, for `promSeen` forgets: the
missed buckets are `absentRun` many members of `reached`, which only grows, and
`hist` has a gap in all of them.

`SeriesRing`. `ValueIsExact` is not inductive for two reasons: what is in the open
bucket is in `acc` and `cnt`, not in the ring (`OpenBucket`), and a late sample
multiplies a mean by the count it is given, which must be the true one
(`CountsKept`). The slots are the other half: buckets that are less than a ring
apart have different slots, and the slots between head and new head are those
that closing fills with gaps (`SlotsDiffer`, `SlotsCovered`, `ClosedRing`). The
late window is shorter than the ring (`LateWin < Capacity`).

`SeriesStore`. `CountIsExact` needs that a key about to be inserted is not in the
store and that no other handler is about to insert it (`Missing`, `Apart`): both
hold because its shard stays locked. For the cap the quantity that never grows
too large is not the number of series but that number together with the handlers
that found room (`Room`): the counter was below the cap when the last of them
looked, and handlers hold locks of different shards, so there are at most as
many of them as shards (`AddersBound`, by an injection from the handlers to
their shards). What `Delete` removed and has not subtracted yet counts in `n`, so
deletion only makes room. A walk is complete because a shard not visited is
beyond `next` or in the hands of exactly one worker (`Shared`).

`Snapshots`. A file mixes moments, so the invariant relates each save under way
to the file, to the other saver and to the present (`OneSave`); for the final
save it says that every firing series is copied or left to copy (`FinalCopy`),
which holds as evaluation has ended by then; and it says that no save can touch
the file once the process has exited (`KeptIsDisk`). `EventsFit` says that a
finding differs from its flag by exactly the queued event.

`Templates`. The ids are the crux: a template can be evicted, live on in
aliases, in requests that hold its id, in its series and in a snapshot, while the
miner of the next start has forgotten it. `OneShape` says of all these places at
once that an id has one shape. It survives a restart because the template created last
heads the list until another is created, and so is in every snapshot with the
largest id (`NewestLive`, `FileFits`): the ids restored go on after all ids in the file, and the
ids beyond are forgotten together. For metadata: what gc is about to
delete is not live, and an evicted template never becomes live again under its
id (`ReadFits`).

`AgentPush`. `AtLeastOnce` and `OnceWhileAnswered` count where the lines of a
key in a bucket are: counted or missed by the server, in the map, in the request
the agent waits for, or dropped. An item that the server handles leaves the
request for `got` or `missed`, whatever part of it a full store refuses
(`HandledItem`). To be inductive they need that a request answered "ok" was applied to
all its keys (`OkIsApplied`), and that without a lost answer no request is left
running (`NoneLeftOver`).

`AlertDelivery`. An open alert is that of an active finding, or its resolve is
listed, or it is an orphan that ages. A finding that was posted while active
owes no resolve of an earlier life (`PostedIsNotOwed`), for an accepted post
marks every listed resolve as sent; and one posted twice was in the last
accepted post (`OpenLongEnough`). Signatures: the server, or else its snapshot,
has the time of the last firing (`FiringIsKnown`). A post without an answer
changes the receiver only: it closes what is owed, and shows nothing that is not
active. `Hold >= 4`, for
`hold` of `sendAlerts` is at least four intervals; that `--novelty-ttl` (1 h
unless set) is shorter than `sigEvery` (24 h) is assumed because ages are capped
there, and no proof step needs it.

`TailFile`. That a counted line is a whole message depends on everything that
was buffered when its last piece arrived, and the runtime may have renamed,
truncated or replaced the file since. The invariant has five parts. `Texts`: in
a file a line goes on in its stream and a message begins after the last one of
its stream ended, whatever was written elsewhere in between; the runtime's
`pen` says what the end of the newest text leaves open. `Handle`: the agent has
a file that exists, and a second read only happens when another file is at the
path. `Behind`: what was counted lies before the offset of the generation the
agent reads, or in one it has left and will not read again. `Buffers`: unless
the file was truncated since, `partial` is exactly the open line before the
offset (`LineUnderWay`), and each `cpart` holds pieces of the message its stream
has open, in order, not counted yet, and all of them when the message began in
this file after start-up (`ChunksOf`). `Numbered` orders files and generations.
The steps of the runtime only append to a text or start a new generation, so
they keep the last two (`Behind` and `Buffers` speak of places below the
offset). A truncated file, whose generation is shorter than the offset, makes
`Buffers` void until the next `Stat`; that it does not grow back beyond the
offset before that is the assumption `Outgrows`. A read of one piece needs each of its four cases: the
next place extends the line (`LineToNext`), the line extends the chunks
(`MessageToNext`), and the result, in order and disjoint from `counted`, is
`Message` of that place.

Model-checked only:

- the properties under fairness (`StoppedSeriesResolves`, `AbsentResolvesOnData`,
  `StopEnds`, `FreedSlotsAreUsed`, `Delivered`, `EverythingCounted`,
  `HandleClosed`, `ActiveIsShown`),
  for liveness and ENABLED are out of the prover's reach;
- the runs that find a violation.

## 6. What the runs leave out

- `Evaluation` has no restart: `Snapshots` has, with an abstract evaluator. The
  counters that a restart resets (`pending`, `normal`, `missing`) are not in
  either; a server restarted again and again within three buckets for as long as
  a ring could let `gc` meet a firing series. `Snapshots!Delete` assumes it does
  not.
- A snapshot between the walk and `Apply`, followed by a crash, loses the flag
  or the start time of a finding raised in that evaluation; the modules state
  what a clean restart keeps.
- `Templates` has one service and one miner: services beyond `--max-services`,
  which share an overflow miner, are left out. `AgentPush` assumes that the clock
  of the agent is not further ahead than `maxFuture`, else its counts are skipped;
  it has no volume series.
- Undefined samples together with absence tracking: `eval_both` has the former,
  `eval_metric` the latter; the proofs cover both together.
- `TailFile` has one path. A rotated file whose new name matches a glob of the
  agent is a path of its own and is read from its start: its lines count twice.
  Rotation by rename and create (logrotate's default), where the program goes on
  writing to the renamed file, is left out: what it writes there after the poll
  that sees the new file is lost. So are runaway lines beyond 1 MiB, which are
  counted in parts.
- `AlertDelivery` has one finding next to one signature, and one receiver for
  all Alertmanagers, which keeps what it was sent across its own restarts. Alerts
  are keyed by finding; the labels of a real one include direction and level
  (eval.go:284), so a finding that fires again in the other direction is another
  alert there: neither closed by the old resolve nor sharing its end.
- `Near`, which bounds how far ahead of the data clock a sample may be, and
  `KeepsUp` are bounds on the environment of `Evaluation` and translate no code;
  `maxFuture` limits samples by the wall clock.
- `SeriesStore` always has a cap; `--max-series 0`, which means none, refuses
  nothing. The snapshot of another ring capacity, which `Restore` skips, is left out.
- float32 rounding of means, the width of counters and the texts of findings.

## 7. Plan

Done: the evaluator with its contract, the ring and the store, snapshots, templates of one
service, pushes, tailing, delivery with signatures; the proofs of all safety
properties the runs check. Left, in this order:

1. `Restarts`: the counters a restart resets, composed with gc.
2. The agent registry: expiry and its cap.
3. `TemplateTree`: the prefix tree as functions, search against a reference, and
   the overflow miner of the pool.

## 8. Not modelled

Remote-write decoding, log parsing, severity and masking are stateless text or
byte functions; `wire` only declares types; `metrics.go` and the GET handlers
read state that other modules own; the agent registry (`agents.go`) only feeds
two of them; `cmd/anomalyd` parses flags; `internal/gen`
makes demo data. The seasonal score is floating-point statistics: `Evaluation`
takes every outcome. `docs`, `report`, `poc` and `deploy` hold no program logic.
