----------------------------- MODULE SeriesStore ------------------------------
(***************************************************************************)
(* The sharded map of series of internal/series/store.go: Update with the  *)
(* cap on the number of series, ForEachShard and Delete.  Handlers update  *)
(* series while the evaluator walks the shards, with several goroutines to *)
(* evaluate and with one to delete.                                        *)
(*                                                                         *)
(* A shard is locked for an update and for a visit.  The counter of series *)
(* is shared by all shards and guarded by none: an update reads it before  *)
(* it inserts, and Delete lowers it when the walk is over.  What is kept   *)
(* of a series is its key; SeriesRing has the rest.                        *)
(***************************************************************************)
EXTENDS Integers, FiniteSets

CONSTANTS
  Keys,       \* the keys of series, label sets in the code
  Handlers,   \* the requests that may be under way together
  Workers,    \* the goroutines of a walk
  Shards,     \* 64 in the code
  ShardOf,    \* the hash, another one in each process
  MaxSeries,  \* the cap; without one nothing is refused
  MaxDropped  \* bound: updates refused

ASSUME StoreAssumption ==
  /\ Shards \in Nat \ {0} /\ MaxSeries \in Nat \ {0} /\ MaxDropped \in Nat
  /\ ShardOf \in [Keys -> 1 .. Shards]
  /\ IsFiniteSet(Handlers) /\ Handlers # {} /\ Workers # {}

VARIABLES
  m,        \* the keys of all shards
  n,        \* the counter of series
  adding,   \* adding[h]: the keys, one or none, that h found room for
  walk,     \* the walk under way: "none", "evaluate" or "delete"
  next,     \* the shards that a worker has taken
  at,       \* at[w]: the shard w took, 0 for none, Shards + 1 when it returned
  removed,  \* how many series this Delete removed
  visits,   \* history: how often each shard was visited in this walk
  dropped   \* the counter of refused updates

walker == <<walk, next, at, removed, visits>>
vars == <<m, n, adding, walker, dropped>>

Returned == Shards + 1
InShard(i) == {k \in m : ShardOf[k] = i}

-------------------------------------------------------------------------------
(* Update.                                                                 *)

\* Mutant: an update looks for its series without the lock.
NeverLocked(i) == FALSE

\* A handler is inside Update with the lock of shard i.
Locked(i) == \E h \in Handlers : \E k \in adding[h] : ShardOf[k] = i

\* Mutant: one series too many.
OverFull == n > MaxSeries

Full == n >= MaxSeries

\* A new key, and room for it.
FindRoom(h, k) ==
  /\ adding[h] = {} /\ ~Locked(ShardOf[k])
  /\ k \notin m /\ ~Full
  /\ adding' = [adding EXCEPT ![h] = {k}]
  /\ UNCHANGED <<m, n, walker, dropped>>

\* A new key, and none.
Refuse(h, k) ==
  /\ adding[h] = {} /\ ~Locked(ShardOf[k])
  /\ k \notin m /\ Full /\ dropped < MaxDropped
  /\ dropped' = dropped + 1
  /\ UNCHANGED <<m, n, adding, walker>>

\* The series is inserted and counted, and the shard unlocked.
Insert(h) ==
  /\ adding[h] # {}
  /\ m' = m \cup adding[h] /\ n' = n + 1
  /\ adding' = [adding EXCEPT ![h] = {}]
  /\ UNCHANGED <<walker, dropped>>

-------------------------------------------------------------------------------
(* ForEachShard.                                                           *)

\* Evaluate walks with all workers, Delete with one; the evaluator does one
\* walk after the other.
Begin(job, team) ==
  /\ walk = "none"
  /\ walk' = job /\ next' = 0 /\ removed' = 0
  /\ at' = [w \in Workers |-> IF w \in team THEN 0 ELSE Returned]
  /\ visits' = [i \in 1 .. Shards |-> 0]
  /\ UNCHANGED <<m, n, adding, dropped>>

BeginEvaluate == Begin("evaluate", Workers)
BeginDelete   == \E w \in Workers : Begin("delete", {w})

Idle(w) == walk # "none" /\ at[w] = 0

\* next.Add: the worker takes a shard, or returns when none is left.
Take(w) ==
  /\ Idle(w)
  /\ IF next < Shards
     THEN next' = next + 1 /\ at' = [at EXCEPT ![w] = next + 1]
     ELSE next' = next /\ at' = [at EXCEPT ![w] = Returned]
  /\ UNCHANGED <<m, n, adding, walk, removed, visits, dropped>>

\* The shard is locked, visited and unlocked.  Delete removes any series in it.
Visit(w, gone) ==
  /\ at[w] \in 1 .. Shards /\ ~Locked(at[w])
  /\ gone \subseteq InShard(at[w]) /\ (walk = "evaluate" => gone = {})
  /\ m' = m \ gone /\ removed' = removed + Cardinality(gone)
  /\ visits' = [visits EXCEPT ![at[w]] = @ + 1]
  /\ at' = [at EXCEPT ![w] = 0]
  /\ UNCHANGED <<n, adding, walk, next, dropped>>

\* Mutant: what was removed stays counted.
StillCounted == n

Remaining == n - removed

\* All workers have returned (wg.Wait), and Delete corrects the counter.
End ==
  /\ walk # "none" /\ \A w \in Workers : at[w] = Returned
  /\ walk' = "none" /\ n' = Remaining /\ removed' = 0
  /\ UNCHANGED <<m, adding, next, at, visits, dropped>>

-------------------------------------------------------------------------------

\* NewStore, and Restore, which is an Update for each series of the snapshot.
Init ==
  /\ m \in SUBSET Keys /\ IsFiniteSet(m) /\ Cardinality(m) <= MaxSeries
  /\ n = Cardinality(m)
  /\ adding = [h \in Handlers |-> {}]
  /\ walk = "none" /\ next = 0 /\ removed = 0
  /\ at = [w \in Workers |-> Returned]
  /\ visits = [i \in 1 .. Shards |-> 0]
  /\ dropped = 0

Update(k) == \E h \in Handlers : FindRoom(h, k) \/ Refuse(h, k)
Inserts == \E h \in Handlers : Insert(h)
Step(w) == Take(w) \/ \E gone \in SUBSET m : Visit(w, gone)
Walks == (\E w \in Workers : Step(w)) \/ End

Next == \/ \E k \in Keys : Update(k)
        \/ Inserts \/ BeginEvaluate \/ BeginDelete \/ Walks

Spec == Init /\ [][Next]_vars

\* Every series is written again and again; a handler that found room inserts,
\* and a walk goes on.
FairSpec == /\ Spec
            /\ \A k \in Keys : WF_vars(\E h \in Handlers : FindRoom(h, k))
            /\ WF_vars(Inserts) /\ WF_vars(Walks)

-------------------------------------------------------------------------------
(* Correctness.                                                            *)

Smaller(a, b) == IF a <= b THEN a ELSE b

TypeOK ==
  /\ m \in SUBSET Keys /\ IsFiniteSet(m) /\ n \in Nat
  /\ adding \in [Handlers -> SUBSET Keys]
  /\ walk \in {"none", "evaluate", "delete"} /\ next \in 0 .. Shards
  /\ at \in [Workers -> 0 .. Returned] /\ removed \in Nat
  /\ visits \in [1 .. Shards -> 0 .. 1] /\ dropped \in 0 .. MaxDropped

(***************************************************************************)
(* The counter is exact but for the series that the Delete under way has   *)
(* removed, although no lock is held from reading it to raising it: none is *)
(* counted twice, and none stays counted (store.go:190-207, 272-284).      *)
(***************************************************************************)
CountIsExact == n = Cardinality(m) + removed

(***************************************************************************)
(* Updates that found room together exceed the cap, by less than there are *)
(* handlers or shards: the store never grows beyond that, whatever Delete  *)
(* removes meanwhile (store.go:195, README.md:319-328).                    *)
(***************************************************************************)
NearCap == Cardinality(m) < MaxSeries + Smaller(Cardinality(Handlers), Shards)

(***************************************************************************)
(* A walk that ends has visited each shard once: the evaluator advances    *)
(* and scores each series once in a round, however its workers share the   *)
(* shards (store.go:246-270).                                              *)
(***************************************************************************)
EachShardOnce ==
  [][walk # "none" /\ walk' = "none" =>
       \A i \in 1 .. Shards : visits[i] = 1]_vars

(***************************************************************************)
(* A slot freed by Delete is used again: when a store has room and no      *)
(* Delete is under way any more, every series that is written gets in      *)
(* (store_test.go:132-134).                                                *)
(***************************************************************************)
FreedSlotsAreUsed ==
  \A k \in Keys :
    <>[](walk # "delete" /\ Cardinality(m) < MaxSeries) => <>(k \in m)

===============================================================================
