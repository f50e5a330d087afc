-------------------------- MODULE SeriesStore_proofs ---------------------------
(***************************************************************************)
(* The counter, the cap and the walks of a series store, proved for any    *)
(* set of keys, any hash and any number of shards, handlers and workers.   *)
(***************************************************************************)
EXTENDS SeriesStore, FiniteSetTheorems, TLAPS

-------------------------------------------------------------------------------
(* The inductive invariant.                                                *)

\* The handlers that found room, of those that hold the keys a.
Adders(a) == {h \in Handlers : a[h] # {}}

\* A handler holds one key, no two hold keys of one shard.
Apart(a) ==
  /\ \A h \in Handlers : \A k, l \in a[h] : k = l
  /\ \A g, h \in Handlers : \A k \in a[g], l \in a[h] :
       ShardOf[k] = ShardOf[l] => g = h

\* A key that is about to be inserted is not in the store.
Missing == \A h \in Handlers : adding[h] \cap m = {}

\* What is counted and what is about to be.
Room == n + Cardinality(Adders(adding)) <
          MaxSeries + Smaller(Cardinality(Handlers), Shards)

\* A shard that was taken is visited already, or a worker is at it.
Shared ==
  /\ walk = "none" => removed = 0 /\ \A w \in Workers : at[w] = Returned
  /\ walk # "none" => next = Shards \/ \E w \in Workers : at[w] # Returned
  /\ \A w \in Workers :
       at[w] \in 1 .. Shards => at[w] <= next /\ visits[at[w]] = 0
  /\ \A v, w \in Workers : at[v] = at[w] /\ at[v] \in 1 .. Shards => v = w
  /\ walk # "none" =>
       \A i \in 1 .. Shards :
         visits[i] = 0 <=> i > next \/ \E w \in Workers : at[w] = i

IInv == TypeOK /\ CountIsExact /\ Apart(adding) /\ Missing /\ Room /\ Shared

-------------------------------------------------------------------------------
(* Counting.                                                               *)

LEMMA ConstantTypes ==
  /\ Shards \in Nat \ {0} /\ MaxSeries \in Nat \ {0} /\ MaxDropped \in Nat
  /\ Cardinality(Handlers) \in Nat \ {0}
  /\ \A k \in Keys : ShardOf[k] \in 1 .. Shards
<1>1. Cardinality(Handlers) \in Nat /\ Cardinality(Handlers) # 0
  BY StoreAssumption, FS_CardinalityType, FS_EmptySet
<1> QED
  BY <1>1, StoreAssumption

\* Handlers hold different shards, so there are no more of them than shards.
LEMMA AddersBound ==
  ASSUME NEW a \in [Handlers -> SUBSET Keys], Apart(a)
  PROVE  /\ IsFiniteSet(Adders(a)) /\ Cardinality(Adders(a)) \in Nat
         /\ Cardinality(Adders(a)) <= Smaller(Cardinality(Handlers), Shards)
<1> DEFINE A == Adders(a)
<1>1. A \subseteq Handlers
  BY DEF Adders
<1>2. IsFiniteSet(A) /\ Cardinality(A) \in Nat /\ Cardinality(A) <= Cardinality(Handlers)
  BY <1>1, StoreAssumption, FS_Subset, FS_CardinalityType
<1> DEFINE f == [h \in A |-> ShardOf[CHOOSE k \in a[h] : TRUE]]
<1>3. ASSUME NEW h \in A
      PROVE  f[h] \in 1 .. Shards /\ \E k \in a[h] : f[h] = ShardOf[k]
  <2>1. (CHOOSE k \in a[h] : TRUE) \in a[h] /\ a[h] \subseteq Keys
    BY <1>1 DEF Adders
  <2> QED
    BY <2>1, ConstantTypes
<1>4. f \in Injection(A, 1 .. Shards)
  <2>1. f \in [A -> 1 .. Shards]
    BY <1>3
  <2>2. ASSUME NEW g \in A, NEW h \in A, f[g] = f[h] PROVE g = h
    <3>1. PICK k \in a[g] : f[g] = ShardOf[k]
      BY <1>3
    <3>2. PICK l \in a[h] : f[h] = ShardOf[l]
      BY <1>3
    <3> QED
      BY <1>1, <2>2, <3>1, <3>2 DEF Apart
  <2> HIDE DEF f
  <2>3. IsInjective(f)
    BY <2>1, <2>2 DEF IsInjective
  <2> QED
    BY <2>1, <2>3 DEF Injection
<1> HIDE DEF f, A
<1>5. IsFiniteSet(1 .. Shards) /\ Cardinality(1 .. Shards) = Shards
  BY ConstantTypes, FS_Interval
<1>6. Cardinality(A) <= Shards
  BY <1>4, <1>5, FS_Injection
<1> QED
  BY <1>2, <1>6 DEF A, Smaller

\* Removing keys from the store.
LEMMA Removal ==
  ASSUME NEW S, IsFiniteSet(S), NEW T \in SUBSET S
  PROVE  /\ IsFiniteSet(S \ T) /\ Cardinality(T) \in Nat
         /\ Cardinality(S \ T) + Cardinality(T) = Cardinality(S)
<1>1. S \cap T = T
  OBVIOUS
<1>2. IsFiniteSet(S \ T) /\ IsFiniteSet(T)
  <2>1. T \subseteq S /\ S \ T \subseteq S
    OBVIOUS
  <2> QED
    BY <2>1, FS_Subset
<1>3. Cardinality(S \ T) = Cardinality(S) - Cardinality(T)
  <2>1. Cardinality(S \ T) = Cardinality(S) - Cardinality(S \cap T)
    BY FS_Difference
  <2> QED
    BY <1>1, <2>1
<1>4. Cardinality(S) \in Nat /\ Cardinality(T) \in Nat
  BY <1>2, FS_CardinalityType
<1> QED
  BY <1>2, <1>3, <1>4

-------------------------------------------------------------------------------
(* The steps.                                                              *)

LEMMA InitInv == Init => IInv
<1> SUFFICES ASSUME Init PROVE IInv
  OBVIOUS
<1>1. Cardinality(m) \in Nat /\ n = Cardinality(m) /\ n <= MaxSeries
  BY FS_CardinalityType DEF Init
<1>2. TypeOK
  <2>1. 0 \in 0 .. Shards /\ Returned \in 0 .. Returned /\ 0 \in 0 .. MaxDropped
    BY ConstantTypes DEF Returned
  <2> QED
    BY <1>1, <2>1 DEF Init, TypeOK
<1>3. CountIsExact
  BY <1>1 DEF Init, CountIsExact
<1>4. \A h \in Handlers : adding[h] = {}
  BY DEF Init
<1>5. Apart(adding) /\ Missing
  BY <1>4 DEF Apart, Missing
<1>6. Room
  <2>1. Cardinality(Adders(adding)) = 0
    BY <1>4, FS_EmptySet DEF Adders
  <2> QED
    BY <1>1, <2>1, ConstantTypes DEF Room, Smaller
<1>7. Shared
  <2>1. walk = "none" /\ removed = 0 /\ \A w \in Workers : at[w] = Returned
    BY DEF Init
  <2>2. Returned \notin 1 .. Shards
    BY ConstantTypes DEF Returned
  <2> QED
    BY <2>1, <2>2 DEF Shared
<1> QED
  BY <1>2, <1>3, <1>5, <1>6, <1>7 DEF IInv

LEMMA FindRoomInv ==
  ASSUME IInv, NEW h \in Handlers, NEW k \in Keys, FindRoom(h, k)
  PROVE  IInv'
<1>1. /\ adding' = [adding EXCEPT ![h] = {k}] /\ adding[h] = {} /\ k \notin m
      /\ ~Locked(ShardOf[k]) /\ n < MaxSeries
      /\ UNCHANGED <<m, n, walk, next, at, removed, visits, dropped>>
  <2>1. n \in Nat /\ MaxSeries \in Nat
    BY ConstantTypes DEF IInv, TypeOK
  <2> QED
    BY <2>1 DEF FindRoom, Full, walker
<1>2. TypeOK'
  BY <1>1 DEF IInv, TypeOK
<1>3. CountIsExact' /\ Shared'
  BY <1>1 DEF IInv, CountIsExact, Shared
<1>4. /\ adding \in [Handlers -> SUBSET Keys] /\ adding'[h] = {k}
      /\ \A g \in Handlers : g # h => adding'[g] = adding[g]
  BY <1>1 DEF IInv, TypeOK
<1>5. ASSUME NEW g \in Handlers, NEW l \in adding[g] PROVE ShardOf[l] # ShardOf[k]
  BY <1>1 DEF Locked
<1>6. Apart(adding)'
  <2>1. ASSUME NEW g \in Handlers, NEW l \in adding'[g], NEW j \in adding'[g]
        PROVE  l = j
    BY <1>4 DEF IInv, Apart
  <2>2. ASSUME NEW g \in Handlers, NEW f \in Handlers, NEW l \in adding'[g],
               NEW j \in adding'[f], ShardOf[l] = ShardOf[j]
        PROVE  g = f
    <3>1. CASE g = h \/ f = h
      BY <1>4, <1>5, <2>2, <3>1
    <3>2. CASE g # h /\ f # h
      BY <1>4, <2>2, <3>2 DEF IInv, Apart
    <3> QED
      BY <3>1, <3>2
  <2> QED
    BY <2>1, <2>2 DEF Apart
<1>7. Missing'
  BY <1>1, <1>4 DEF IInv, Missing
<1>8. Room'
  <2>1. Cardinality(Adders(adding')) \in Nat /\
        Cardinality(Adders(adding')) <= Smaller(Cardinality(Handlers), Shards)
    BY <1>2, <1>6, AddersBound DEF TypeOK
  <2>2. n \in Nat /\ Smaller(Cardinality(Handlers), Shards) \in Nat
    BY ConstantTypes DEF IInv, TypeOK, Smaller
  <2> QED
    BY <1>1, <2>1, <2>2, ConstantTypes DEF Room
<1> QED
  BY <1>2, <1>3, <1>6, <1>7, <1>8 DEF IInv

LEMMA InsertInv ==
  ASSUME IInv, NEW h \in Handlers, Insert(h)
  PROVE  IInv'
<1>1. /\ adding' = [adding EXCEPT ![h] = {}] /\ adding[h] # {}
      /\ m' = m \cup adding[h] /\ n' = n + 1
      /\ UNCHANGED <<walk, next, at, removed, visits, dropped>>
  BY DEF Insert, walker
<1>2. /\ adding \in [Handlers -> SUBSET Keys] /\ adding'[h] = {}
      /\ \A g \in Handlers : g # h => adding'[g] = adding[g]
      /\ m \in SUBSET Keys /\ IsFiniteSet(m) /\ n \in Nat /\ removed \in Nat
  BY <1>1 DEF IInv, TypeOK
<1>3. PICK k \in Keys : adding[h] = {k} /\ k \notin m
  BY <1>1, <1>2 DEF IInv, Apart, Missing
<1>4. /\ m' = m \cup {k} /\ IsFiniteSet(m') /\ Cardinality(m') = Cardinality(m) + 1
      /\ Cardinality(m) \in Nat
  BY <1>1, <1>2, <1>3, FS_AddElement, FS_CardinalityType
<1>5. TypeOK'
  BY <1>1, <1>2, <1>4 DEF IInv, TypeOK
<1>6. CountIsExact'
  BY <1>1, <1>2, <1>4 DEF IInv, CountIsExact
<1>7. Apart(adding)'
  <2>1. \A g \in Handlers : adding'[g] \subseteq adding[g]
    BY <1>2
  <2> QED
    BY <2>1 DEF IInv, Apart
<1>8. Missing'
  <2> SUFFICES ASSUME NEW g \in Handlers, NEW l \in adding'[g] PROVE l \notin m'
    BY DEF Missing
  <2>1. g # h /\ l \in adding[g]
    BY <1>2
  <2>2. l # k
    BY <1>3, <2>1 DEF IInv, Apart
  <2> QED
    BY <1>4, <2>1, <2>2 DEF IInv, Missing
<1>9. Room'
  <2>1. Adders(adding') = Adders(adding) \ {h} /\ h \in Adders(adding)
    BY <1>1, <1>2 DEF Adders
  <2>2. IsFiniteSet(Adders(adding)) /\ Cardinality(Adders(adding)) \in Nat
    BY <1>2, AddersBound DEF IInv
  <2>3. Cardinality(Adders(adding')) = Cardinality(Adders(adding)) - 1
    BY <2>1, <2>2, FS_RemoveElement
  <2> QED
    BY <1>1, <1>2, <2>2, <2>3 DEF IInv, Room
<1>10. Shared'
  BY <1>1 DEF IInv, Shared
<1> QED
  BY <1>5, <1>6, <1>7, <1>8, <1>9, <1>10 DEF IInv

\* A step that changes neither the store nor what is about to be added.
LEMMA StoreStays ==
  ASSUME IInv, UNCHANGED <<m, n, adding>>, removed' = removed, Shared', TypeOK'
  PROVE  IInv'
BY DEF IInv, CountIsExact, Missing, Room

LEMMA RefuseInv ==
  ASSUME IInv, NEW h \in Handlers, NEW k \in Keys, Refuse(h, k)
  PROVE  IInv'
<1>1. /\ UNCHANGED <<m, n, adding, walk, next, at, removed, visits>>
      /\ dropped' = dropped + 1 /\ dropped < MaxDropped
  BY DEF Refuse, walker
<1>2. TypeOK'
  <2>1. dropped' \in 0 .. MaxDropped
    BY <1>1, ConstantTypes DEF IInv, TypeOK
  <2> QED
    BY <1>1, <2>1 DEF IInv, TypeOK
<1>3. Shared'
  BY <1>1 DEF IInv, Shared
<1> QED
  BY <1>1, <1>2, <1>3, StoreStays

LEMMA BeginInv ==
  ASSUME IInv, NEW job \in {"evaluate", "delete"}, NEW team \in SUBSET Workers,
         team # {}, Begin(job, team)
  PROVE  IInv'
<1>1. /\ walk = "none" /\ walk' = job /\ next' = 0 /\ removed' = 0
      /\ at' = [w \in Workers |-> IF w \in team THEN 0 ELSE Returned]
      /\ visits' = [i \in 1 .. Shards |-> 0]
      /\ UNCHANGED <<m, n, adding, dropped>>
  BY DEF Begin
<1>2. removed' = removed
  BY <1>1 DEF IInv, Shared
<1>3. Shards \in Nat \ {0} /\ Returned = Shards + 1
  BY ConstantTypes DEF Returned
<1>4. TypeOK'
  <2>1. 0 \in 0 .. Shards /\ 0 \in 0 .. Returned /\ Returned \in 0 .. Returned /\ 0 \in 0 .. 1
    BY <1>3
  <2> QED
    BY <1>1, <2>1 DEF IInv, TypeOK
<1>5. Shared'
  <2>1. \A w \in Workers : at'[w] \notin 1 .. Shards
    BY <1>1, <1>3
  <2>2. \E w \in Workers : at'[w] # Returned
    BY <1>1, <1>3
  <2>3. \A i \in 1 .. Shards : visits'[i] = 0 /\ i > next'
    BY <1>1, <1>3
  <2>4. walk' # "none"
    BY <1>1
  <2> QED
    BY <2>1, <2>2, <2>3, <2>4 DEF Shared
<1> QED
  BY <1>1, <1>2, <1>4, <1>5, StoreStays

LEMMA TakeInv ==
  ASSUME IInv, NEW w \in Workers, Take(w)
  PROVE  IInv'
<1>1. /\ walk # "none" /\ at[w] = 0 /\ walk' = walk
      /\ IF next < Shards
         THEN next' = next + 1 /\ at' = [at EXCEPT ![w] = next + 1]
         ELSE next' = next /\ at' = [at EXCEPT ![w] = Returned]
      /\ UNCHANGED <<m, n, adding, removed, visits, dropped>>
  BY DEF Take, Idle
<1>2. /\ Shards \in Nat \ {0} /\ Returned = Shards + 1 /\ next \in 0 .. Shards
      /\ at \in [Workers -> 0 .. Returned] /\ visits \in [1 .. Shards -> 0 .. 1]
      /\ \A v \in Workers : at[v] \in Nat
  BY ConstantTypes DEF IInv, TypeOK, Returned
<1>3. TypeOK' /\ Shared'
  <2>1. CASE next < Shards
    <3>1. /\ next' = next + 1 /\ at' = [at EXCEPT ![w] = next + 1]
          /\ next + 1 \in 0 .. Shards /\ next + 1 \in 0 .. Returned
      BY <1>1, <1>2, <2>1
    <3>2. TypeOK'
      BY <1>1, <1>2, <3>1 DEF IInv, TypeOK
    <3>3. at'[w] = next + 1 /\ \A v \in Workers : v # w => at'[v] = at[v]
      BY <1>2, <3>1
    <3>4. \A v \in Workers : v # w /\ at[v] \in 1 .. Shards => at[v] <= next
      BY DEF IInv, Shared
    <3>5. visits[next + 1] = 0
      BY <1>1, <1>2, <2>1 DEF IInv, Shared
    <3>6. \A v \in Workers :
            at'[v] \in 1 .. Shards => at'[v] <= next' /\ visits'[at'[v]] = 0
      BY <1>1, <1>2, <3>1, <3>3, <3>5 DEF IInv, Shared
    <3>7. \A u, v \in Workers : at'[u] = at'[v] /\ at'[u] \in 1 .. Shards => u = v
      BY <1>2, <3>3, <3>4 DEF IInv, Shared
    <3>8. ASSUME NEW i \in 1 .. Shards
          PROVE  visits'[i] = 0 <=> i > next' \/ \E v \in Workers : at'[v] = i
      <4>1. visits[i] = 0 <=> i > next \/ \E v \in Workers : at[v] = i
        BY <1>1 DEF IInv, Shared
      <4>2. i > next <=> i > next' \/ i = next + 1
        BY <1>2, <3>1
      <4>3. (\E v \in Workers : at'[v] = i) <=> i = next + 1 \/ \E v \in Workers : at[v] = i
        BY <1>1, <1>2, <3>3
      <4> QED
        BY <1>1, <4>1, <4>2, <4>3
    <3>9. at'[w] # Returned
      BY <1>2, <2>1, <3>3
    <3> QED
      BY <1>1, <3>2, <3>6, <3>7, <3>8, <3>9 DEF Shared
  <2>2. CASE ~(next < Shards)
    <3>1. next' = next /\ at' = [at EXCEPT ![w] = Returned] /\ next = Shards
      BY <1>1, <1>2, <2>2
    <3>2. TypeOK'
      <4>1. Returned \in 0 .. Returned
        BY <1>2
      <4> QED
        BY <1>1, <1>2, <3>1, <4>1 DEF IInv, TypeOK
    <3>3. at'[w] = Returned /\ \A v \in Workers : v # w => at'[v] = at[v]
      BY <1>2, <3>1
    <3>4. \A v \in Workers, i \in 1 .. Shards : at'[v] = i <=> at[v] = i
      BY <1>1, <1>2, <3>3
    <3> QED
      BY <1>1, <3>1, <3>2, <3>4 DEF IInv, Shared
  <2> QED
    BY <2>1, <2>2
<1> QED
  BY <1>1, <1>3, StoreStays

LEMMA VisitInv ==
  ASSUME IInv, NEW w \in Workers, NEW gone \in SUBSET m, Visit(w, gone)
  PROVE  IInv'
<1>1. /\ at[w] \in 1 .. Shards
      /\ m' = m \ gone /\ removed' = removed + Cardinality(gone)
      /\ visits' = [visits EXCEPT ![at[w]] = @ + 1] /\ at' = [at EXCEPT ![w] = 0]
      /\ UNCHANGED <<n, adding, walk, next, dropped>>
  BY DEF Visit
<1>2. /\ Shards \in Nat \ {0} /\ Returned = Shards + 1 /\ next \in 0 .. Shards
      /\ at \in [Workers -> 0 .. Returned] /\ visits \in [1 .. Shards -> 0 .. 1]
      /\ m \in SUBSET Keys /\ IsFiniteSet(m) /\ removed \in Nat /\ n \in Nat
      /\ adding \in [Handlers -> SUBSET Keys]
  BY ConstantTypes DEF IInv, TypeOK, Returned
<1>3. /\ IsFiniteSet(m') /\ Cardinality(gone) \in Nat /\ Cardinality(m') \in Nat
      /\ Cardinality(m') + Cardinality(gone) = Cardinality(m)
  BY <1>1, <1>2, Removal, FS_CardinalityType
<1>4. /\ walk # "none" /\ visits[at[w]] = 0 /\ at[w] <= next
      /\ \A v \in Workers : v # w => at[v] # at[w]
  <2>1. Returned \notin 1 .. Shards
    BY <1>2
  <2> QED
    BY <1>1, <2>1 DEF IInv, Shared
<1>5. /\ at'[w] = 0 /\ \A v \in Workers : v # w => at'[v] = at[v]
      /\ visits'[at[w]] = 1 /\ \A i \in 1 .. Shards : i # at[w] => visits'[i] = visits[i]
  BY <1>1, <1>2, <1>4
<1>6. TypeOK'
  <2>1. 0 \in 0 .. Returned /\ 1 \in 0 .. 1
    BY <1>2
  <2>2. visits' \in [1 .. Shards -> 0 .. 1] /\ at' \in [Workers -> 0 .. Returned]
    BY <1>1, <1>2, <1>4, <2>1
  <2>3. removed' \in Nat
    BY <1>1, <1>2, <1>3
  <2> QED
    BY <1>1, <1>3, <2>2, <2>3 DEF IInv, TypeOK
<1>7. CountIsExact'
  BY <1>1, <1>2, <1>3 DEF IInv, CountIsExact
<1>8. Apart(adding)' /\ Missing' /\ Room'
  BY <1>1 DEF IInv, Missing, Room
<1>9. Shared'
  <2>1. 0 # Returned /\ 0 \notin 1 .. Shards
    BY <1>2
  <2>2. \A v \in Workers :
          at'[v] \in 1 .. Shards => at'[v] <= next' /\ visits'[at'[v]] = 0
    BY <1>1, <1>4, <1>5, <2>1 DEF IInv, Shared
  <2>3. \A u, v \in Workers : at'[u] = at'[v] /\ at'[u] \in 1 .. Shards => u = v
    BY <1>5, <2>1 DEF IInv, Shared
  <2>4. ASSUME NEW i \in 1 .. Shards
        PROVE  visits'[i] = 0 <=> i > next' \/ \E v \in Workers : at'[v] = i
    <3>1. visits[i] = 0 <=> i > next \/ \E v \in Workers : at[v] = i
      BY <1>4 DEF IInv, Shared
    <3>2. CASE i = at[w]
      <4>1. ~(i > next') /\ visits'[i] # 0
        BY <1>1, <1>2, <1>4, <1>5, <3>2
      <4>2. \A v \in Workers : at'[v] # i
        BY <1>4, <1>5, <2>1, <3>2
      <4> QED
        BY <4>1, <4>2
    <3>3. CASE i # at[w]
      <4>1. (\E v \in Workers : at'[v] = i) <=> \E v \in Workers : at[v] = i
        BY <1>5, <2>1, <3>3
      <4> QED
        BY <1>1, <1>5, <3>1, <3>3, <4>1
    <3> QED
      BY <3>2, <3>3
  <2> QED
    BY <1>1, <1>4, <1>5, <2>1, <2>2, <2>3, <2>4 DEF Shared
<1> QED
  BY <1>6, <1>7, <1>8, <1>9 DEF IInv

LEMMA EndInv ==
  ASSUME IInv, End
  PROVE  IInv'
<1>1. /\ walk # "none" /\ \A w \in Workers : at[w] = Returned
      /\ walk' = "none" /\ n' = n - removed /\ removed' = 0
      /\ UNCHANGED <<m, adding, next, at, visits, dropped>>
  BY DEF End, Remaining
<1>2. /\ n \in Nat /\ removed \in Nat /\ Cardinality(m) \in Nat
      /\ n = Cardinality(m) + removed
  BY FS_CardinalityType DEF IInv, TypeOK, CountIsExact
<1>3. TypeOK'
  <2>1. n' \in Nat
    BY <1>1, <1>2
  <2> QED
    BY <1>1, <2>1 DEF IInv, TypeOK
<1>4. CountIsExact'
  BY <1>1, <1>2 DEF CountIsExact
<1>5. Apart(adding)' /\ Missing'
  BY <1>1 DEF IInv, Missing
<1>6. Room'
  <2>1. Cardinality(Adders(adding)) \in Nat
    BY AddersBound DEF IInv, TypeOK
  <2>2. Smaller(Cardinality(Handlers), Shards) \in Nat
    BY ConstantTypes DEF Smaller
  <2> QED
    BY <1>1, <1>2, <2>1, <2>2, ConstantTypes DEF IInv, Room
<1>7. Shared'
  <2>1. Returned \notin 1 .. Shards
    BY ConstantTypes DEF Returned
  <2> QED
    BY <1>1, <2>1 DEF Shared
<1> QED
  BY <1>3, <1>4, <1>5, <1>6, <1>7 DEF IInv

LEMMA NextInv == IInv /\ [Next]_vars => IInv'
<1> SUFFICES ASSUME IInv, [Next]_vars PROVE IInv'
  OBVIOUS
<1>1. ASSUME NEW h \in Handlers, NEW k \in Keys, FindRoom(h, k) PROVE IInv'
  BY <1>1, FindRoomInv
<1>2. ASSUME NEW h \in Handlers, NEW k \in Keys, Refuse(h, k) PROVE IInv'
  BY <1>2, RefuseInv
<1>3. ASSUME NEW h \in Handlers, Insert(h) PROVE IInv'
  BY <1>3, InsertInv
<1>4. CASE BeginEvaluate
  BY <1>4, BeginInv, StoreAssumption DEF BeginEvaluate
<1>5. CASE BeginDelete
  <2>1. PICK w \in Workers : Begin("delete", {w})
    BY <1>5 DEF BeginDelete
  <2>2. {w} \in SUBSET Workers /\ {w} # {}
    OBVIOUS
  <2> QED
    BY <2>1, <2>2, BeginInv
<1>6. ASSUME NEW w \in Workers, Take(w) PROVE IInv'
  BY <1>6, TakeInv
<1>7. ASSUME NEW w \in Workers, NEW gone \in SUBSET m, Visit(w, gone) PROVE IInv'
  BY <1>7, VisitInv
<1>8. CASE End
  BY <1>8, EndInv
<1>9. CASE UNCHANGED vars
  BY <1>9 DEF vars, walker, IInv, TypeOK, CountIsExact, Missing, Room, Shared
<1> QED
  BY <1>1, <1>2, <1>3, <1>4, <1>5, <1>6, <1>7, <1>8, <1>9
     DEF Next, Update, Inserts, Walks, Step

LEMMA Invariant == Spec => []IInv
<1>1. Init => IInv
  BY InitInv
<1>2. IInv /\ [Next]_vars => IInv'
  BY NextInv
<1> QED
  BY <1>1, <1>2, PTL DEF Spec

-------------------------------------------------------------------------------
(* The theorems.                                                           *)

\* Every variable keeps its type; above all, no shard is visited twice in a walk
\* (store.go:246-270).
THEOREM TypeCorrect == Spec => []TypeOK
<1>1. IInv => TypeOK
  BY DEF IInv
<1> QED
  BY <1>1, Invariant, PTL

\* The counter that the shards share is exact but for what the Delete under way
\* has removed (store.go:190-207, 272-284).
THEOREM CountExact == Spec => []CountIsExact
<1>1. IInv => CountIsExact
  BY DEF IInv
<1> QED
  BY <1>1, Invariant, PTL

\* The store outgrows its cap by less than the number of shards, 64 in the code,
\* and of handlers, for an update holds the lock of its shard from the look at the
\* counter to the insertion (store.go:190-207).
THEOREM CapNearlyKept == Spec => []NearCap
<1>1. IInv => NearCap
  <2> SUFFICES ASSUME IInv PROVE NearCap
    OBVIOUS
  <2>1. /\ Cardinality(m) \in Nat /\ removed \in Nat /\ n = Cardinality(m) + removed
        /\ Cardinality(Adders(adding)) \in Nat
    BY FS_CardinalityType, AddersBound DEF IInv, TypeOK, CountIsExact
  <2>2. MaxSeries \in Nat /\ Smaller(Cardinality(Handlers), Shards) \in Nat
    BY ConstantTypes DEF Smaller
  <2> QED
    BY <2>1, <2>2 DEF IInv, Room, NearCap
<1> QED
  BY <1>1, Invariant, PTL

\* A walk that ends has visited every shard once, for any number of workers and
\* shards (store.go:246-270).
THEOREM WalkIsComplete == Spec => EachShardOnce
<1>1. ASSUME IInv, [Next]_vars, walk # "none", walk' = "none", NEW i \in 1 .. Shards
      PROVE  visits[i] = 1
  <2>1. End
    BY <1>1 DEF Next, Update, FindRoom, Refuse, Inserts, Insert, BeginEvaluate,
                BeginDelete, Begin, Walks, Step, Take, Visit, vars, walker
  <2>2. next = Shards /\ \A w \in Workers : at[w] # i
    <3>1. \A w \in Workers : at[w] = Returned
      BY <2>1 DEF End
    <3>2. Returned # i
      BY ConstantTypes DEF Returned
    <3> QED
      BY <1>1, <3>1, <3>2 DEF IInv, Shared
  <2>3. ~(i > next)
    BY <2>2, ConstantTypes
  <2>4. visits[i] # 0 /\ visits[i] \in 0 .. 1
    BY <1>1, <2>2, <2>3 DEF IInv, Shared, TypeOK
  <2> QED
    BY <2>4
<1>2. IInv /\ [Next]_vars =>
        [walk # "none" /\ walk' = "none" => \A i \in 1 .. Shards : visits[i] = 1]_vars
  BY <1>1
<1> QED
  BY <1>2, Invariant, PTL DEF Spec, EachShardOnce

===============================================================================
