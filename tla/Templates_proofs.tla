--------------------------- MODULE Templates_proofs ---------------------------
(***************************************************************************)
(* Proofs about Templates, for every set of texts and shapes, any number   *)
(* of requests, every size of the miner and any number of restarts.        *)
(***************************************************************************)
EXTENDS Templates, SequenceTheorems, FiniteSetTheorems, TLAPS

-------------------------------------------------------------------------------
(* The miner's list.                                                       *)

Lines    == [id : Ids, shape : Shapes]
LineList == {l \in Seq(Lines) : Len(l) <= MaxClusters}

LEMMA Sizes ==
  /\ MaxClusters \in Nat /\ MaxClusters >= 1 /\ Shards \in Nat
  /\ MaxId \in Nat /\ MaxStarts \in Nat
  /\ Ids \subseteq Nat /\ \A i \in Ids : i > 0 /\ i <= MaxId
BY SizesAssumption DEF Ids

LEMMA ListEntries ==
  ASSUME NEW l \in LineList
  PROVE  /\ l \in Seq(Lines) /\ Len(l) <= MaxClusters
         /\ \A i \in DOMAIN l : /\ l[i] \in Lines /\ l[i].id \in Ids
                                /\ l[i].shape \in Shapes
                                /\ l[i] = [id |-> l[i].id, shape |-> l[i].shape]
<1>1. \A i \in DOMAIN l : l[i] \in Lines
  BY DEF LineList
<1> QED
  BY <1>1 DEF LineList, Lines

\* A list moves on: no entry is new but the one in front.
LEMMA FrontList ==
  ASSUME NEW S, NEW c \in S, NEW l \in Seq(S)
  PROVE  /\ <<c>> \o l \in Seq(S) /\ Len(<<c>> \o l) = Len(l) + 1
         /\ (<<c>> \o l)[1] = c
         /\ \A j \in 1 .. Len(l) : (<<c>> \o l)[j + 1] = l[j]
         /\ \A j \in 1 .. Len(l) + 1 : j > 1 => (<<c>> \o l)[j] = l[j - 1]
OBVIOUS

LEMMA RemovedList ==
  ASSUME NEW S, NEW l \in Seq(S), NEW i \in 1 .. Len(l)
  PROVE  /\ RemoveAt(l, i) \in Seq(S) /\ Len(RemoveAt(l, i)) = Len(l) - 1
         /\ \A j \in 1 .. Len(l) - 1 :
              RemoveAt(l, i)[j] = IF j < i THEN l[j] ELSE l[j + 1]
<1> DEFINE before == SubSeq(l, 1, i - 1)
           after  == SubSeq(l, i + 1, Len(l))
<1>1. /\ before \in Seq(S) /\ Len(before) = i - 1
      /\ \A j \in 1 .. i - 1 : before[j] = l[j]
  OBVIOUS
<1>2. /\ after \in Seq(S) /\ Len(after) = Len(l) - i
      /\ \A j \in 1 .. Len(l) - i : after[j] = l[i + j]
  OBVIOUS
<1> HIDE DEF before, after
<1>3. RemoveAt(l, i) = before \o after
  BY DEF RemoveAt, before, after
<1>4. /\ before \o after \in Seq(S)
      /\ Len(before \o after) = Len(l) - 1
  BY <1>1, <1>2
<1>5. ASSUME NEW j \in 1 .. Len(l) - 1
      PROVE  (before \o after)[j] = IF j < i THEN l[j] ELSE l[j + 1]
  <2>1. CASE j < i
    BY <1>1, <1>2, <2>1
  <2>2. CASE ~(j < i)
    <3>1. j - (i - 1) \in 1 .. Len(l) - i
      BY <2>2
    <3>2. (before \o after)[j] = after[j - (i - 1)]
      BY <1>1, <1>2, <2>2
    <3>3. after[j - (i - 1)] = l[i + (j - (i - 1))]
      BY <1>2, <3>1
    <3>4. i + (j - (i - 1)) = j + 1
      OBVIOUS
    <3> QED
      BY <2>2, <3>2, <3>3, <3>4
  <2> QED
    BY <2>1, <2>2
<1> QED
  BY <1>3, <1>4, <1>5

LEMMA TouchedList ==
  ASSUME live \in LineList, NEW i \in DOMAIN live
  PROVE  /\ Touch(i) \in LineList
         /\ \A c : (\E j \in DOMAIN Touch(i) : Touch(i)[j] = c)
                     <=> \E j \in DOMAIN live : live[j] = c
<1> DEFINE rest == RemoveAt(live, i)
<1>1. live \in Seq(Lines) /\ i \in 1 .. Len(live) /\ live[i] \in Lines
  BY DEF LineList
<1>2. /\ rest \in Seq(Lines) /\ Len(rest) = Len(live) - 1
      /\ \A j \in 1 .. Len(live) - 1 : rest[j] = IF j < i THEN live[j] ELSE live[j + 1]
  BY <1>1, RemovedList
<1> HIDE DEF rest
<1>3. Touch(i) = <<live[i]>> \o rest
  BY DEF Touch, rest
<1>4. /\ Touch(i) \in Seq(Lines) /\ Len(Touch(i)) = Len(live)
      /\ Touch(i)[1] = live[i]
      /\ \A j \in 1 .. Len(rest) : Touch(i)[j + 1] = rest[j]
      /\ \A j \in 1 .. Len(rest) + 1 : j > 1 => Touch(i)[j] = rest[j - 1]
  BY <1>1, <1>2, <1>3, FrontList
<1>5. Touch(i) \in LineList
  BY <1>4 DEF LineList
<1>6. ASSUME NEW j \in DOMAIN Touch(i)
      PROVE  \E k \in DOMAIN live : live[k] = Touch(i)[j]
  <2>1. CASE j = 1
    BY <1>4, <2>1
  <2>2. CASE j > 1
    <3>1. j - 1 \in 1 .. Len(live) - 1
      BY <1>1, <1>4, <2>2
    <3>2. Touch(i)[j] = rest[j - 1]
      BY <1>2, <1>4, <2>2
    <3>3. rest[j - 1] = IF j - 1 < i THEN live[j - 1] ELSE live[(j - 1) + 1]
      BY <1>2, <3>1
    <3>4. /\ j - 1 \in DOMAIN live /\ (j - 1) + 1 \in DOMAIN live
      BY <1>1, <1>4, <3>1
    <3> QED
      BY <3>2, <3>3, <3>4
  <2> QED
    BY <1>4, <2>1, <2>2
<1>7. ASSUME NEW j \in DOMAIN live
      PROVE  \E k \in DOMAIN Touch(i) : Touch(i)[k] = live[j]
  <2>0. j \in 1 .. Len(live) /\ DOMAIN Touch(i) = 1 .. Len(live)
    BY <1>1, <1>4
  <2>1. CASE j = i
    BY <1>1, <1>4, <2>0, <2>1
  <2>2. CASE j < i
    <3>1. j \in 1 .. Len(rest) /\ rest[j] = live[j] /\ j + 1 \in DOMAIN Touch(i)
      BY <1>1, <1>2, <2>0, <2>2
    <3> QED
      BY <1>4, <3>1
  <2>3. CASE j > i
    <3>1. j - 1 \in 1 .. Len(rest) /\ j - 1 + 1 = j /\ ~(j - 1 < i)
      BY <1>1, <1>2, <2>0, <2>3
    <3>2. rest[j - 1] = live[j] /\ Touch(i)[j] = rest[j - 1]
      BY <1>1, <1>2, <1>4, <2>0, <2>3, <3>1
    <3> QED
      BY <2>0, <3>2
  <2> QED
    BY <1>1, <2>0, <2>1, <2>2, <2>3
<1> QED
  BY <1>5, <1>6, <1>7

LEMMA AddedList ==
  ASSUME live \in LineList, NEW c \in Lines
  PROVE  LET l == Evicted(<<c>> \o live)
         IN  /\ l \in LineList /\ Len(l) >= 1 /\ l[1] = c
             /\ \A j \in DOMAIN l : l[j] = c \/ \E k \in DOMAIN live : l[j] = live[k]
<1> DEFINE new == <<c>> \o live
           n   == IF Len(new) > MaxClusters THEN MaxClusters ELSE Len(new)
           l   == SubSeq(new, 1, n)
<1>1. live \in Seq(Lines)
  BY DEF LineList
<1>2. /\ new \in Seq(Lines) /\ Len(new) = Len(live) + 1 /\ new[1] = c
      /\ \A j \in 1 .. Len(live) + 1 : j > 1 => new[j] = live[j - 1]
  BY <1>1, FrontList
<1>3. Evicted(<<c>> \o live) = l
  BY DEF Evicted
<1> HIDE DEF new
<1>4. n \in 1 .. Len(new) /\ n <= MaxClusters
  BY <1>1, <1>2, Sizes
<1> HIDE DEF n
<1>5. /\ l \in Seq(Lines) /\ Len(l) = n /\ \A j \in 1 .. n : l[j] = new[j]
  BY <1>2, <1>4
<1> HIDE DEF l
<1>6. ASSUME NEW j \in DOMAIN l
      PROVE  l[j] = c \/ \E k \in DOMAIN live : l[j] = live[k]
  <2>1. j \in 1 .. n /\ j \in 1 .. Len(live) + 1
    BY <1>1, <1>2, <1>4, <1>5
  <2>2. CASE j = 1
    BY <1>2, <1>5, <2>1, <2>2
  <2>3. CASE j > 1
    <3>1. j - 1 \in 1 .. Len(live) /\ l[j] = live[j - 1]
      BY <1>1, <1>2, <1>5, <2>1, <2>3
    <3> QED
      BY <1>1, <3>1
  <2> QED
    BY <2>1, <2>2, <2>3
<1>7. l \in LineList /\ Len(l) >= 1 /\ l[1] = c
  BY <1>2, <1>4, <1>5 DEF LineList
<1> QED
  BY <1>3, <1>6, <1>7

\* The largest id of a list, 0 for an empty one.
Newest(l, n) ==
  IF l = <<>> THEN n = 0
  ELSE /\ \E i \in DOMAIN l : l[i].id = n
       /\ \A i \in DOMAIN l : l[i].id <= n

LEMMA RestoredNewest ==
  ASSUME NEW l \in LineList, NEW n, Newest(l, n)
  PROVE  RestoredID(l) = n
<1> DEFINE S == {0} \cup {l[i].id : i \in DOMAIN l}
<1>1. l \in Seq(Lines) /\ \A i \in DOMAIN l : l[i].id \in Ids
  BY ListEntries
<1>2. S \subseteq Nat /\ n \in S /\ \A x \in S : n >= x
  <2>1. CASE l = <<>>
    BY <2>1 DEF Newest
  <2>2. CASE l # <<>>
    <3>1. n \in S /\ \A i \in DOMAIN l : n >= l[i].id
      BY <1>1, <2>2, Sizes DEF Newest
    <3>2. PICK j \in DOMAIN l : l[j].id = n
      BY <2>2 DEF Newest
    <3>3. \A i \in DOMAIN l : l[i].id \in Nat
      BY <1>1, Sizes
    <3> QED
      BY <3>1, <3>2, <3>3
  <2> QED
    BY <2>1, <2>2
<1> HIDE DEF S
<1>3. \A m \in S : (\A x \in S : m >= x) => m = n
  BY <1>2
<1>4. RestoredID(l) = CHOOSE m \in S : \A x \in S : m >= x
  BY DEF RestoredID, Max, S
<1> QED
  BY <1>2, <1>3, <1>4

LEMMA LargestId ==
  ASSUME NEW S, S \subseteq 0 .. MaxId, S # {}
  PROVE  \E m \in S : \A x \in S : m >= x
<1> DEFINE R == OpToRel(<, Nat)
           T == {MaxId - x : x \in S}
<1>1. IsWellFoundedOn(R, Nat)
  BY NatLessThanWellFounded
<1>2. \A x, y \in Nat : <<y, x>> \in R <=> y < x
  BY DEF OpToRel
<1>3. T \subseteq Nat /\ T # {}
  <2>1. \A x \in 0 .. MaxId : MaxId - x \in Nat
    BY Sizes
  <2> QED
    BY <2>1
<1> HIDE DEF R
<1>4. PICK t \in T : \A y \in T : <<y, t>> \notin R
  BY <1>1, <1>3, WFMin
<1>5. PICK m \in S : t = MaxId - m
  OBVIOUS
<1>6. ASSUME NEW x \in S PROVE m >= x
  <2>1. MaxId - x \in T /\ MaxId - x \in Nat /\ t \in Nat
    BY <1>3, <1>4
  <2>3. x \in Nat /\ m \in Nat
    <3> HIDE DEF T
    <3> QED
      BY Sizes
  <2>2. ~(MaxId - x < t)
    BY <1>2, <1>4, <2>1
  <2> QED
    BY <1>5, <2>1, <2>2, <2>3, Sizes
<1> QED
  BY <1>6

LEMMA RestoredType ==
  ASSUME NEW l \in LineList
  PROVE  RestoredID(l) \in 0 .. MaxId
<1> DEFINE S == {0} \cup {l[i].id : i \in DOMAIN l}
<1>1. l \in Seq(Lines) /\ \A i \in DOMAIN l : l[i].id \in Ids
  BY ListEntries
<1>2. S \subseteq 0 .. MaxId /\ S # {}
  BY <1>1, Sizes DEF Ids
<1> HIDE DEF S
<1>3. \E m \in S : \A x \in S : m >= x
  BY <1>2, LargestId
<1>4. RestoredID(l) = CHOOSE m \in S : \A x \in S : m >= x
  BY DEF RestoredID, Max, S
<1>5. RestoredID(l) \in S
  BY <1>3, <1>4
<1> QED
  BY <1>2, <1>5

-------------------------------------------------------------------------------
(* Types, those of the requests, the verdict and the snapshots included.   *)

Hands == [at : {"idle", "mining", "meta"}, todo : SUBSET Lines]
           \cup [at : {"series"}, todo : SUBSET Lines, line : Lines]

Metas    == [known : BOOLEAN, novel : BOOLEAN, count : Nat, fired : Dates]
Verdicts == [fire : SUBSET Ids, resolve : SUBSET Ids, dead : SUBSET Ids]

Files == [series : [Ids -> SUBSET Shapes], active : [Ids -> Dates], live : LineList]
Saves == [at : {"idle", "series", "findings", "templates", "write", "done"},
          shard : Nat, file : Files]

Types == /\ TypeOK
         /\ hand \in [Handlers -> Hands] /\ verdict \in Verdicts
         /\ save \in Saves /\ disk \in Files

LEMMA StateTypes ==
  ASSUME Types
  PROVE  /\ live \in LineList /\ nextID \in Nat /\ nextID <= MaxId
         /\ \A i \in DOMAIN live : /\ live[i] \in Lines /\ live[i].id \in Ids
                                   /\ live[i].shape \in Shapes
         /\ alias \in [Texts -> 0 .. MaxId] /\ Aliases \in [Texts -> 0 .. MaxId]
         /\ meta \in [Ids -> Metas]
         /\ \A i \in Ids : /\ meta[i].known \in BOOLEAN /\ meta[i].novel \in BOOLEAN
                           /\ meta[i].count \in Nat /\ meta[i].fired \in Dates
         /\ active \in [Ids -> Dates] /\ series \in [Ids -> SUBSET Shapes]
         /\ starts \in Dates
         /\ hand \in [Handlers -> Hands]
         /\ \A h \in Handlers : hand[h].todo \subseteq Lines
         /\ disk \in Files /\ disk.live \in LineList /\ disk.active \in [Ids -> Dates]
         /\ disk.series \in [Ids -> SUBSET Shapes]
<1>1. live \in LineList /\ nextID \in Nat /\ nextID <= MaxId
  BY Sizes DEF Types, TypeOK, LineList, Lines
<1>2. \A i \in DOMAIN live : /\ live[i] \in Lines /\ live[i].id \in Ids
                             /\ live[i].shape \in Shapes
  BY <1>1, ListEntries
<1>3. /\ alias \in [Texts -> 0 .. MaxId] /\ meta \in [Ids -> Metas]
      /\ active \in [Ids -> Dates] /\ series \in [Ids -> SUBSET Shapes]
      /\ starts \in Dates /\ hand \in [Handlers -> Hands] /\ disk \in Files
  BY DEF Types, TypeOK, Metas, Dates
<1>4. Aliases \in [Texts -> 0 .. MaxId]
  BY <1>3, Sizes DEF Aliases, NoAliases
<1>5. \A i \in Ids : /\ meta[i].known \in BOOLEAN /\ meta[i].novel \in BOOLEAN
                     /\ meta[i].count \in Nat /\ meta[i].fired \in Dates
  BY <1>3 DEF Metas
<1>6. \A h \in Handlers : hand[h].todo \subseteq Lines
  BY <1>3 DEF Hands
<1>7. /\ disk.live \in LineList /\ disk.active \in [Ids -> Dates]
      /\ disk.series \in [Ids -> SUBSET Shapes]
  BY <1>3 DEF Files
<1> QED
  BY <1>1, <1>2, <1>3, <1>4, <1>5, <1>6, <1>7

LEMMA Empty ==
  /\ <<>> \in LineList /\ NoFindings \in [Ids -> Dates]
  /\ NoSeries \in [Ids -> SUBSET Shapes] /\ NoAliases \in [Texts -> 0 .. MaxId]
  /\ NoMeta \in Metas /\ Idle \in Hands /\ NothingRead \in Verdicts
  /\ NoFile \in Files /\ NoSave \in Saves
<1>1. <<>> \in LineList
  BY Sizes DEF LineList
<1>2. /\ NoFindings \in [Ids -> Dates] /\ NoSeries \in [Ids -> SUBSET Shapes]
      /\ NoAliases \in [Texts -> 0 .. MaxId]
  BY Sizes DEF NoFindings, NoSeries, NoAliases, Dates
<1>3. NoMeta \in Metas
  BY Sizes DEF NoMeta, Metas, Dates
<1>4. Idle \in Hands /\ NothingRead \in Verdicts
  BY DEF Idle, Hands, NothingRead, Verdicts
<1>5. NoFile \in Files
  BY <1>1, <1>2 DEF NoFile, Files
<1> QED
  BY <1>1, <1>2, <1>3, <1>4, <1>5 DEF NoSave, Saves

\* The miner and one request.
LEMMA HandleTypes ==
  ASSUME Types, NEW h \in Handlers, NEW hd \in Hands,
         hand' = [hand EXCEPT ![h] = hd],
         live' \in LineList, nextID' \in 0 .. MaxId, alias' \in [Texts -> 0 .. MaxId],
         meta' \in [Ids -> Metas], series' \in [Ids -> SUBSET Shapes],
         UNCHANGED <<process, evaluator, active, snapshot>>
  PROVE  Types'
BY DEF Types, TypeOK, LineList, Lines, Metas, process, evaluator, snapshot

\* What Counts and Mines leave in a request's hands.
LEMMA MapTypes ==
  ASSUME Types, NEW h \in Handlers, NEW i \in Ids, NEW t \in Texts
  PROVE  /\ Line(i, t) \in Lines
         /\ Counts(h, i, t) =>
              \E hd \in Hands : hand' = [hand EXCEPT ![h] = hd]
         /\ Mapped(h, i, t) =>
              /\ alias' \in [Texts -> 0 .. MaxId]
              /\ \E hd \in Hands : hand' = [hand EXCEPT ![h] = hd]
<1>1. Line(i, t) \in Lines
  BY DEF Line, Lines, Shapes
<1>2. Counts(h, i, t) => \E hd \in Hands : hand' = [hand EXCEPT ![h] = hd]
  <2>1. [at |-> "meta", todo |-> {Line(i, t)}] \in Hands
    BY <1>1 DEF Hands
  <2> QED
    BY <2>1 DEF Counts
<1>3. Mines(h, i, t) => \E hd \in Hands : hand' = [hand EXCEPT ![h] = hd]
  <2>1. [at |-> "mining", todo |-> hand[h].todo \cup {Line(i, t)}] \in Hands
    <3>1. hand[h].todo \cup {Line(i, t)} \subseteq Lines
      BY <1>1, StateTypes
    <3> QED
      BY <3>1 DEF Hands
  <2> QED
    BY <2>1 DEF Mines
<1>4. i \in 0 .. MaxId
  BY Sizes
<1>5. alias \in [Texts -> 0 .. MaxId] /\ Aliases \in [Texts -> 0 .. MaxId]
  BY StateTypes
<1>6. Mapped(h, i, t) => alias' \in [Texts -> 0 .. MaxId]
  BY <1>4, <1>5 DEF Mapped, Aliased, Raw
<1> QED
  BY <1>1, <1>2, <1>3, <1>6 DEF Mapped, Aliased, Raw

\* What the steps of a snapshot leave of it.
LEMMA SaveFields ==
  ASSUME Types
  PROVE  /\ save.file \in Files
         /\ CopySeries => save' =
              [at |-> IF save.shard + 1 = Shards THEN "findings" ELSE "series",
               shard |-> save.shard + 1,
               file |-> [save.file EXCEPT !.series =
                           [i \in Ids |-> IF i % Shards = save.shard THEN series[i]
                                          ELSE save.file.series[i]]]]
         /\ CopyFindings => save' =
              [at |-> "templates", shard |-> save.shard,
               file |-> [save.file EXCEPT !.active = active]]
         /\ CopyTemplates => save' =
              [at |-> "write", shard |-> save.shard,
               file |-> [save.file EXCEPT !.live = live]]
BY DEF Types, Saves, Files, CopySeries, CopyFindings, CopyTemplates

\* Evaluation, and a snapshot.
LEMMA EvaluateTypes ==
  ASSUME Types, phase' \in {"idle", "novelty", "gc", "scan", "delete"},
         verdict' \in Verdicts, meta' \in [Ids -> Metas], active' \in [Ids -> Dates],
         UNCHANGED <<process, miner, series, hand, snapshot>>
  PROVE  Types'
BY DEF Types, TypeOK, LineList, Lines, Metas, Dates, process, miner, snapshot

LEMMA SaveTypes ==
  ASSUME Types, save' \in Saves, disk' \in Files, UNCHANGED running
  PROVE  Types'
BY DEF Types, TypeOK, process, miner, evaluator, running

\* A process that is gone.
LEMMA GoneTypes ==
  ASSUME Types, Gone
  PROVE  Types'
BY Empty, Sizes DEF Types, TypeOK, LineList, Metas, Gone

LEMMA NextTypes == Types /\ [Next]_vars => Types'
<1> SUFFICES ASSUME Types, [Next]_vars PROVE Types'
  OBVIOUS
<1>0. nextID \in 0 .. MaxId
  BY DEF Types, TypeOK
<1>1. ASSUME NEW h \in Handlers, NEW t \in Texts, HitAlias(h, t) PROVE Types'
  <2>1. PICK i \in DOMAIN live : live' = Touch(i) /\ Counts(h, live[i].id, t)
    BY <1>1 DEF HitAlias
  <2>2. live' \in LineList /\ live[i].id \in Ids
    BY <2>1, StateTypes, TouchedList
  <2>3. PICK hd \in Hands : hand' = [hand EXCEPT ![h] = hd]
    BY <2>1, <2>2, MapTypes
  <2>4. /\ alias' \in [Texts -> 0 .. MaxId] /\ meta' \in [Ids -> Metas]
        /\ series' \in [Ids -> SUBSET Shapes] /\ nextID' \in 0 .. MaxId
        /\ UNCHANGED <<process, evaluator, active, snapshot>>
    BY <1>0, <1>1, StateTypes DEF HitAlias
  <2> QED
    BY <2>2, <2>3, <2>4, HandleTypes
<1>2. ASSUME NEW h \in Handlers, NEW t \in Texts, Join(h, t) PROVE Types'
  <2>1. PICK i \in DOMAIN live : live' = Touch(i) /\ Mapped(h, live[i].id, t)
    BY <1>2 DEF Join, Similar
  <2>2. live' \in LineList /\ live[i].id \in Ids
    BY <2>1, StateTypes, TouchedList
  <2>3. PICK hd \in Hands : hand' = [hand EXCEPT ![h] = hd]
    BY <2>1, <2>2, MapTypes
  <2>4. alias' \in [Texts -> 0 .. MaxId]
    BY <2>1, <2>2, MapTypes
  <2>5. /\ meta' \in [Ids -> Metas] /\ nextID' \in 0 .. MaxId
        /\ series' \in [Ids -> SUBSET Shapes]
        /\ UNCHANGED <<process, evaluator, active, snapshot>>
    BY <1>0, <1>2, StateTypes DEF Join
  <2> QED
    BY <2>2, <2>3, <2>4, <2>5, HandleTypes
<1>3. ASSUME NEW h \in Handlers, NEW t \in Texts, Create(h, t) PROVE Types'
  <2>1. /\ nextID' = nextID + 1 /\ nextID < MaxId
        /\ live' = Evicted(<<[id |-> nextID', shape |-> ShapeOf[t]]>> \o live)
        /\ Mapped(h, nextID', t)
        /\ UNCHANGED <<process, series, evaluator, active, snapshot>>
    BY <1>3 DEF Create
  <2>2. nextID' \in Ids /\ nextID' \in 0 .. MaxId
    BY <1>0, <2>1, Sizes DEF Ids
  <2>3. [id |-> nextID', shape |-> ShapeOf[t]] \in Lines
    BY <2>2 DEF Lines, Shapes
  <2>4. live' \in LineList
    BY <2>1, <2>3, StateTypes, AddedList
  <2>5. PICK hd \in Hands : hand' = [hand EXCEPT ![h] = hd]
    BY <2>1, <2>2, MapTypes
  <2>6. alias' \in [Texts -> 0 .. MaxId]
    BY <2>1, <2>2, MapTypes
  <2>7. \A novel \in BOOLEAN : Born(novel) \in Metas
    BY Empty, Sizes DEF Born, Metas
  <2>8. meta' \in [Ids -> Metas]
    BY <1>3, <2>2, <2>7, StateTypes DEF Create
  <2>9. series' \in [Ids -> SUBSET Shapes]
    BY <2>1, StateTypes
  <2> QED
    BY <2>1, <2>2, <2>4, <2>5, <2>6, <2>8, <2>9, HandleTypes
<1>4. ASSUME NEW h \in Handlers, NEW complete \in BOOLEAN, BodyEnds(h, complete)
      PROVE  Types'
  <2>1. [hand[h] EXCEPT !.at = "meta"] \in Hands /\ Idle \in Hands
    BY <1>4, StateTypes, Empty DEF BodyEnds, Hands
  <2>2. PICK hd \in Hands : hand' = [hand EXCEPT ![h] = hd]
    BY <1>4, <2>1 DEF BodyEnds
  <2>3. /\ live' \in LineList /\ alias' \in [Texts -> 0 .. MaxId]
        /\ meta' \in [Ids -> Metas] /\ series' \in [Ids -> SUBSET Shapes]
        /\ nextID' \in 0 .. MaxId
        /\ UNCHANGED <<process, evaluator, active, snapshot>>
    BY <1>0, <1>4, StateTypes DEF BodyEnds, miner
  <2> QED
    BY <2>2, <2>3, HandleTypes
<1>5. ASSUME NEW h \in Handlers, NEW line \in hand[h].todo, CountMeta(h, line)
      PROVE  Types'
  <2>1. line \in Lines /\ hand[h].todo \subseteq Lines /\ line.id \in Ids
    BY StateTypes DEF Lines
  <2>2. [at |-> "series", todo |-> hand[h].todo \ {line}, line |-> line] \in Hands
    BY <2>1 DEF Hands
  <2>3. PICK hd \in Hands : hand' = [hand EXCEPT ![h] = hd]
    BY <1>5, <2>2 DEF CountMeta
  <2>4. meta' \in [Ids -> Metas]
    <3>1. meta \in [Ids -> Metas]
      BY StateTypes
    <3>2. [meta EXCEPT ![line.id].count = @ + 1] \in [Ids -> Metas]
      BY <2>1, <3>1 DEF Metas
    <3> QED
      BY <1>5, <3>1, <3>2 DEF CountMeta
  <2>5. /\ live' \in LineList /\ alias' \in [Texts -> 0 .. MaxId]
        /\ series' \in [Ids -> SUBSET Shapes] /\ nextID' \in 0 .. MaxId
        /\ UNCHANGED <<process, evaluator, active, snapshot>>
    BY <1>0, <1>5, StateTypes DEF CountMeta, miner
  <2> QED
    BY <2>3, <2>4, <2>5, HandleTypes
<1>6. ASSUME NEW h \in Handlers, CountSeries(h) PROVE Types'
  <2>1. /\ hand[h] \in Hands /\ hand[h].todo \subseteq Lines /\ hand[h].at = "series"
    BY <1>6, StateTypes DEF CountSeries
  <2>2. hand[h].line \in Lines
    BY <2>1 DEF Hands
  <2>3. [at |-> "meta", todo |-> hand[h].todo] \in Hands /\ Idle \in Hands
    BY <2>1, Empty DEF Hands
  <2>4. PICK hd \in Hands : hand' = [hand EXCEPT ![h] = hd]
    BY <1>6, <2>3 DEF CountSeries
  <2>5. series' \in [Ids -> SUBSET Shapes]
    <3>1. hand[h].line.id \in Ids /\ hand[h].line.shape \in Shapes
      BY <2>2 DEF Lines
    <3>2. series \in [Ids -> SUBSET Shapes]
      BY StateTypes
    <3> QED
      BY <1>6, <3>1, <3>2 DEF CountSeries
  <2>6. /\ live' \in LineList /\ alias' \in [Texts -> 0 .. MaxId]
        /\ meta' \in [Ids -> Metas] /\ nextID' \in 0 .. MaxId
        /\ UNCHANGED <<process, evaluator, active, snapshot>>
    BY <1>0, <1>6, StateTypes DEF CountSeries, miner
  <2> QED
    BY <2>4, <2>5, <2>6, HandleTypes
<1>7. ASSUME NEW forgotten \in SUBSET Pending, NEW over \in SUBSET Firing,
             WalkTemplates(forgotten, over)
      PROVE  Types'
  <2>1. over \subseteq Ids /\ Announced \subseteq Ids
    BY DEF Firing, Announced
  <2>2. verdict' \in Verdicts
    BY <1>7, <2>1 DEF WalkTemplates, Verdicts, NothingRead
  <2>3. \A i \in Ids :
          [meta[i] EXCEPT !.novel = @ /\ i \notin forgotten \cup over,
                          !.fired = IF i \in Announced THEN starts ELSE @] \in Metas
    BY StateTypes, ZenonT(40) DEF Metas
  <2>4. meta' \in [Ids -> Metas]
    BY <1>7, <2>3 DEF WalkTemplates
  <2>5. /\ phase' = "novelty" /\ active' \in [Ids -> Dates]
        /\ UNCHANGED <<process, miner, series, hand, snapshot>>
    BY <1>7, StateTypes DEF WalkTemplates
  <2> QED
    BY <2>2, <2>4, <2>5, EvaluateTypes
<1>8. CASE Announce
  <2>1. \A i \in Ids : (IF i \in verdict.resolve THEN 0
                        ELSE IF i \in verdict.fire THEN meta[i].fired
                        ELSE active[i]) \in Dates
    BY StateTypes, Sizes DEF Dates
  <2>2. active' \in [Ids -> Dates]
    BY <1>8, <2>1 DEF Announce
  <2>3. /\ phase' = "gc" /\ verdict' \in Verdicts /\ meta' \in [Ids -> Metas]
        /\ UNCHANGED <<process, miner, series, hand, snapshot>>
    BY <1>8, StateTypes, Empty DEF Announce
  <2> QED
    BY <2>2, <2>3, EvaluateTypes
<1>9. CASE SkipGc \/ GcCandidates \/ GcScan \/ GcDelete
  <2>1. verdict \in Verdicts
    BY DEF Types
  <2>2. verdict' \in Verdicts
    BY <1>9, <2>1, Empty DEF SkipGc, GcCandidates, GcScan, GcDelete, Verdicts
  <2>3. meta' \in [Ids -> Metas]
    BY <1>9, StateTypes, Empty DEF SkipGc, GcCandidates, GcScan, GcDelete
  <2>4. /\ phase' \in {"idle", "scan", "delete"} /\ active' \in [Ids -> Dates]
        /\ UNCHANGED <<process, miner, series, hand, snapshot>>
    BY <1>9, StateTypes DEF SkipGc, GcCandidates, GcScan, GcDelete
  <2> QED
    BY <2>2, <2>3, <2>4, EvaluateTypes
<1>10. CASE Save
  <2>1. save \in Saves /\ disk \in Files /\ save.file \in Files
    BY DEF Types, Saves
  <2>2. SaveBegin \/ WriteFile => save' \in Saves /\ disk' \in Files
    BY <2>1, Empty DEF SaveBegin, WriteFile, Saves
  <2>3. ASSUME CopySeries PROVE save' \in Saves
    <3>1. [i \in Ids |-> IF i % Shards = save.shard THEN series[i]
                         ELSE save.file.series[i]] \in [Ids -> SUBSET Shapes]
      BY <2>1, StateTypes DEF Files
    <3>2. save'.file \in Files
      BY <2>1, <2>3, <3>1, SaveFields DEF Files
    <3> QED
      BY <2>1, <2>3, <3>2, SaveFields DEF Saves
  <2>4. CopyFindings => save' \in Saves
    BY <2>1, StateTypes, SaveFields DEF Saves, Files
  <2>5. CopyTemplates => save' \in Saves
    BY <2>1, StateTypes, SaveFields DEF Saves, Files
  <2>6. save' \in Saves /\ disk' \in Files
    BY <1>10, <2>1, <2>2, <2>3, <2>4, <2>5
    DEF Save, CopySeries, CopyFindings, CopyTemplates
  <2>7. UNCHANGED running
    BY <1>10 DEF Save, SaveBegin, CopySeries, CopyFindings, CopyTemplates, WriteFile
  <2> QED
    BY <2>6, <2>7, SaveTypes
<1>11. CASE Stop
  BY <1>11 DEF Types, TypeOK, Stop, miner, evaluator, snapshot
<1>12. CASE Exit \/ Crash
  BY <1>12, GoneTypes DEF Exit, Crash
<1>13. ASSUME NEW loads \in BOOLEAN, Start(loads) PROVE Types'
  <2>1. /\ live' = disk.live /\ nextID' = RestoredID(disk.live)
        /\ starts' = starts + 1 /\ starts < MaxStarts /\ mode' = "up"
        /\ UNCHANGED <<alias, hand, evaluator, snapshot>>
    BY <1>13 DEF Start
  <2>2. live' \in Seq(Lines) /\ Len(live') <= MaxClusters
    BY <2>1, StateTypes DEF LineList
  <2>3. nextID' \in 0 .. MaxId
    BY <2>1, StateTypes, RestoredType
  <2>4. series' \in [Ids -> SUBSET Shapes] /\ active' \in [Ids -> Dates]
    <3>1. series' \in [Ids -> SUBSET Shapes]
      BY <1>13, StateTypes, Empty DEF Start
    <3>2. \A i \in Ids : (IF Restorable(i) THEN disk.active[i] ELSE 0) \in Dates
      BY StateTypes, Sizes DEF Dates
    <3> QED
      BY <1>13, <3>1, <3>2 DEF Start
  <2>5. meta' \in [Ids -> Metas]
    <3>1. \A i \in Ids : [NoMeta EXCEPT !.known = TRUE, !.novel = active'[i] # 0,
                                       !.fired = active'[i]] \in Metas
      BY <2>4, Empty DEF Metas
    <3> QED
      BY <1>13, <3>1, Empty DEF Start
  <2>6. starts' \in 0 .. MaxStarts
    BY <2>1, StateTypes, Sizes DEF Dates
  <2> QED
    BY <2>1, <2>2, <2>3, <2>4, <2>5, <2>6
    DEF Types, TypeOK, Lines, Metas, Dates, evaluator, snapshot
<1>14. CASE UNCHANGED vars
  BY <1>14 DEF Types, TypeOK, vars, process, miner, evaluator, snapshot
<1> QED
  BY <1>1, <1>2, <1>3, <1>4, <1>5, <1>6, <1>7, <1>8, <1>9, <1>10, <1>11, <1>12, <1>13,
     <1>14 DEF Next, Handle, Evaluate

LEMMA InitTypes == Init => Types
<1> SUFFICES ASSUME Init PROVE Types
  OBVIOUS
<1>1. 0 \in 0 .. MaxStarts /\ 0 \in 0 .. MaxId
  BY Sizes
<1>2. <<>> \in Seq(Lines) /\ Len(<<>>) <= MaxClusters
  BY Sizes
<1> QED
  BY <1>1, <1>2, Empty DEF Init, Types, TypeOK, Lines, Metas

(***************************************************************************)
(* Every variable keeps its type: the miner never has more than            *)
(* MaxClusters templates, whatever it restores, and no id leaves the range *)
(* of the ids given.                                                       *)
(***************************************************************************)
THEOREM TypeCorrect == Spec => []TypeOK
<1>1. Init => Types
  BY InitTypes
<1>2. Types /\ [Next]_vars => Types'
  BY NextTypes
<1>3. Types => TypeOK
  BY DEF Types
<1> QED
  BY <1>1, <1>2, <1>3, PTL DEF Spec

-------------------------------------------------------------------------------
(* The inductive invariant.                                                *)

\* The shapes that template i is known to have: of the lines counted in its
\* series, in the miner, of the texts mapped to it, of the lines about to be
\* counted.
Mined(i, s)   == \E j \in DOMAIN live : live[j].id = i /\ live[j].shape = s
Named(i, s)   == \E t \in Texts : alias[t] = i /\ ShapeOf[t] = s
InHand(h)     == hand[h].todo \cup IF hand[h].at = "series" THEN {hand[h].line} ELSE {}
Carried(i, s) == \E h \in Handlers : [id |-> i, shape |-> s] \in InHand(h)

Of(i, s) == s \in series[i] \/ Mined(i, s) \/ Named(i, s) \/ Carried(i, s)

\* An id is given once, to templates of one shape.
OneShape ==
  \A i \in Ids, s \in Shapes :
    Of(i, s) => i <= nextID /\ \A z \in Shapes : Of(i, z) => z = s

\* The template created last is not evicted before another is created, so ids
\* that are restored go on after all that were given.
NewestLive == Newest(live, nextID)

SavedOf(f, i, s) ==
  s \in f.series[i] \/ \E j \in DOMAIN f.live : f.live[j].id = i /\ f.live[j].shape = s

\* The same of a snapshot: its series were copied before its templates.
FileFits(f) ==
  /\ Newest(f.live, RestoredID(f.live))
  /\ \A i \in Ids, s \in Shapes :
       SavedOf(f, i, s) => /\ i <= RestoredID(f.live)
                           /\ \A z \in Shapes : SavedOf(f, i, z) => z = s

Saved == /\ FileFits(disk)
         /\ save.at = "write" => FileFits(save.file)
         /\ \A i \in Ids : save.file.series[i] \subseteq series[i]

\* A process that is down has no memory.
Cleared == mode = "down" => /\ alias = NoAliases /\ \A h \in Handlers : hand[h] = Idle
                            /\ phase = "idle" /\ verdict = NothingRead
                            /\ save = NoSave

\* Nothing is known of ids that were not given.
Fresh == \A i \in Ids : i > nextID => meta[i] = NoMeta /\ active[i] = 0

\* What evaluation read is about ids that were given, and what gc is about to
\* delete is not live and never will be.
ReadFits == /\ \A i \in verdict.fire \cup verdict.resolve \cup verdict.dead : i <= nextID
            /\ phase = "delete" => verdict.dead \cap LiveIds = {}

\* Between the walk and the announcement.
CanAnnounce ==
  mode = "up" /\ phase = "novelty" =>
    \A i \in Ids : (IF i \in verdict.resolve THEN 0
                    ELSE IF i \in verdict.fire THEN meta[i].fired ELSE active[i])
                  = IF meta[i].novel THEN meta[i].fired ELSE 0

IInv == /\ Types /\ Cleared
        /\ OneShape /\ NewestLive /\ Saved
        /\ Fresh /\ ReadFits /\ LiveHasMeta
        /\ CanAnnounce /\ NewFindingsCanResolve

LEMMA EmptyFits == FileFits(NoFile) /\ FileFits(NoSave.file)
<1>1. NoFile.live = <<>> /\ \A i \in Ids : NoFile.series[i] = {}
  BY DEF NoFile, NoSeries
<1>2. RestoredID(<<>>) = 0 /\ Newest(<<>>, 0)
  BY Empty, RestoredNewest DEF Newest
<1>3. NoSave.file = NoFile
  BY DEF NoSave
<1>4. \A i \in Ids, s \in Shapes : ~SavedOf(NoFile, i, s)
  BY <1>1 DEF SavedOf
<1>5. FileFits(NoFile)
  BY <1>1, <1>2, <1>4 DEF FileFits
<1> QED
  BY <1>3, <1>5

LEMMA InitInv == Init => IInv
<1> SUFFICES ASSUME Init PROVE IInv
  OBVIOUS
<1>1. Types
  BY InitTypes
<1>2. Cleared
  BY DEF Init, Cleared
<1>3. OneShape
  <2> SUFFICES ASSUME NEW i \in Ids, NEW s \in Shapes, Of(i, s) PROVE FALSE
    BY DEF OneShape
  <2>1. s \notin series[i] /\ ~Mined(i, s)
    BY DEF Init, NoSeries, Mined
  <2>2. ~Named(i, s)
    BY Sizes DEF Init, NoAliases, Named
  <2>3. ~Carried(i, s)
    BY DEF Init, Idle, Carried, InHand
  <2> QED
    BY <2>1, <2>2, <2>3 DEF Of
<1>4. NewestLive
  BY DEF Init, NewestLive, Newest
<1>5. Saved
  <2>1. FileFits(disk) /\ save.at = "idle"
    BY EmptyFits DEF Init, NoSave
  <2>2. \A i \in Ids : save.file.series[i] \subseteq series[i]
    BY DEF Init, NoSave, NoFile
  <2> QED
    BY <2>1, <2>2 DEF Saved
<1>6. Fresh /\ ReadFits
  BY DEF Init, Fresh, ReadFits, NoFindings, NothingRead
<1>7. LiveHasMeta /\ CanAnnounce /\ NewFindingsCanResolve
  BY DEF Init, LiveHasMeta, LiveIds, CanAnnounce, NewFindingsCanResolve
<1> QED
  BY <1>1, <1>2, <1>3, <1>4, <1>5, <1>6, <1>7 DEF IInv

-------------------------------------------------------------------------------
(* Requests.                                                               *)

\* A text that is mapped to template i has its shape.
LEMMA MapShapes ==
  ASSUME Types, NEW h \in Handlers, NEW i \in Ids, NEW t \in Texts,
         Counts(h, i, t) \/ Mines(h, i, t),
         NEW j \in Ids, NEW s \in Shapes, Carried(j, s)'
  PROVE  Carried(j, s) \/ (j = i /\ s = ShapeOf[t])
<1> DEFINE l == [id |-> j, shape |-> s]
<1>1. PICK g \in Handlers : l \in InHand(g)'
  BY DEF Carried
<1>2. hand \in [Handlers -> Hands]
  BY StateTypes
<1>3. CASE g # h
  <2>1. hand'[g] = hand[g]
    BY <1>2, <1>3 DEF Counts, Mines
  <2> QED
    BY <1>1, <2>1 DEF Carried, InHand
<1>4. CASE g = h
  <2>1. l \in hand[h].todo \cup {Line(i, t)}
    BY <1>1, <1>2, <1>4 DEF Counts, Mines, InHand
  <2>2. l = Line(i, t) => j = i /\ s = ShapeOf[t]
    BY DEF Line
  <2>3. l \in hand[h].todo => Carried(j, s)
    BY DEF Carried, InHand
  <2> QED
    BY <2>1, <2>2, <2>3
<1> QED
  BY <1>3, <1>4

LEMMA NameShapes ==
  ASSUME Types, NEW h \in Handlers, NEW i \in Ids, NEW t \in Texts,
         Mapped(h, i, t) \/ alias' = Aliases,
         NEW j \in Ids, NEW s \in Shapes, Named(j, s)'
  PROVE  Named(j, s) \/ (j = i /\ s = ShapeOf[t])
<1>1. PICK u \in Texts : alias'[u] = j /\ ShapeOf[u] = s
  BY DEF Named
<1>2. j # 0
  BY Sizes
<1>3. \A v \in Texts : Aliases[v] = alias[v] \/ Aliases[v] = 0
  BY DEF Aliases, NoAliases
<1>4. Aliases \in [Texts -> 0 .. MaxId]
  BY StateTypes
<1>5. alias'[u] = Aliases[u] \/ alias'[u] = alias[u] \/ (u = t /\ alias'[u] = i)
  BY <1>4 DEF Mapped, Aliased, Raw
<1> QED
  BY <1>1, <1>2, <1>3, <1>5 DEF Named

\* A step that gives no id keeps shapes apart when it finds out none.
LEMMA KeepShapes ==
  ASSUME OneShape, nextID' = nextID,
         \A i \in Ids, s \in Shapes : Of(i, s)' => Of(i, s)
  PROVE  OneShape'
<1> SUFFICES ASSUME NEW i \in Ids, NEW s \in Shapes, Of(i, s)'
             PROVE  i <= nextID' /\ \A z \in Shapes : Of(i, z)' => z = s
  BY DEF OneShape
<1>1. Of(i, s) /\ \A z \in Shapes : Of(i, z)' => Of(i, z)
  OBVIOUS
<1> QED
  BY <1>1 DEF OneShape

\* A step of a request that gives no id and tells nothing new of templates.
LEMMA HandleInv ==
  ASSUME IInv, Types', Up, UNCHANGED <<process, evaluator, active, snapshot>>,
         nextID' = nextID, LiveIds' = LiveIds, Newest(live', nextID),
         \A i \in Ids : series[i] \subseteq series'[i],
         \A i \in Ids : /\ meta'[i].known = meta[i].known
                        /\ meta'[i].novel = meta[i].novel
                        /\ meta'[i].fired = meta[i].fired
                        /\ i > nextID => meta'[i] = meta[i],
         \A i \in Ids, s \in Shapes : Of(i, s)' => Of(i, s)
  PROVE  IInv'
<1>1. /\ mode # "down" /\ mode' = mode /\ verdict' = verdict /\ phase' = phase
      /\ active' = active
  BY DEF Up, process, evaluator
<1>2. OneShape'
  BY KeepShapes DEF IInv
<1>3. Cleared' /\ NewestLive'
  BY <1>1 DEF Cleared, NewestLive
<1>4. Saved'
  BY DEF IInv, Saved, snapshot
<1>5. Fresh' /\ ReadFits' /\ LiveHasMeta'
  <2>1. Fresh'
    <3> SUFFICES ASSUME NEW i \in Ids, i > nextID PROVE meta'[i] = NoMeta /\ active'[i] = 0
      BY DEF Fresh
    <3>1. meta'[i] = meta[i] /\ active'[i] = active[i]
      BY <1>1, Zenon
    <3>2. Fresh
      BY DEF IInv
    <3> QED
      BY <3>1, <3>2 DEF Fresh
  <2>2. ReadFits'
    BY <1>1 DEF IInv, ReadFits
  <2>3. LiveHasMeta'
    <3>1. LiveIds \subseteq Ids
      BY StateTypes DEF IInv, LiveIds
    <3> SUFFICES ASSUME NEW i \in LiveIds PROVE meta'[i].known
      BY DEF LiveHasMeta
    <3>2. meta'[i].known = meta[i].known
      BY <3>1, Zenon
    <3>3. LiveHasMeta
      BY DEF IInv
    <3> QED
      BY <3>2, <3>3 DEF LiveHasMeta
  <2> QED
    BY <2>1, <2>2, <2>3
<1>6. CanAnnounce'
  <2> SUFFICES ASSUME mode = "up", phase = "novelty", NEW i \in Ids
               PROVE  (IF i \in verdict.resolve THEN 0
                       ELSE IF i \in verdict.fire THEN meta'[i].fired ELSE active[i])
                        = IF meta'[i].novel THEN meta'[i].fired ELSE 0
    BY <1>1 DEF CanAnnounce
  <2>1. meta'[i].novel = meta[i].novel /\ meta'[i].fired = meta[i].fired
    BY Zenon
  <2>2. CanAnnounce
    BY DEF IInv
  <2> QED
    BY <2>1, <2>2 DEF CanAnnounce
<1>7. NewFindingsCanResolve'
  <2> SUFFICES ASSUME mode = "up", phase # "novelty", NEW i \in Ids
               PROVE  active[i] = IF meta'[i].novel THEN meta'[i].fired ELSE 0
    BY <1>1 DEF NewFindingsCanResolve
  <2>1. meta'[i].novel = meta[i].novel /\ meta'[i].fired = meta[i].fired
    BY Zenon
  <2>2. NewFindingsCanResolve
    BY DEF IInv
  <2> QED
    BY <2>1, <2>2 DEF NewFindingsCanResolve
<1> QED
  BY <1>2, <1>3, <1>4, <1>5, <1>6, <1>7 DEF IInv

\* A template in use: the list holds the same ones.
LEMMA TouchInv ==
  ASSUME Types, NewestLive, NEW i \in DOMAIN live, live' = Touch(i)
  PROVE  /\ LiveIds' = LiveIds /\ Newest(live', nextID)
         /\ \A j, s : Mined(j, s)' <=> Mined(j, s)
<1>1. live \in LineList
  BY StateTypes
<1>2. /\ live' \in LineList
      /\ \A c : (\E j \in DOMAIN live' : live'[j] = c)
                  <=> \E j \in DOMAIN live : live[j] = c
  BY <1>1, TouchedList
<1>3. \A j \in DOMAIN live' : \E k \in DOMAIN live : live[k] = live'[j]
  BY <1>2
<1>4. \A k \in DOMAIN live : \E j \in DOMAIN live' : live'[j] = live[k]
  BY <1>2
<1>5. LiveIds' = LiveIds
  BY <1>3, <1>4 DEF LiveIds
<1>6. \A j, s : Mined(j, s)' <=> Mined(j, s)
  BY <1>3, <1>4 DEF Mined
<1>7. Newest(live', nextID)
  <2>1. live # <<>> /\ live' # <<>>
    BY <1>1, <1>2, <1>4 DEF LineList
  <2>2. PICK k \in DOMAIN live : live[k].id = nextID
    BY <2>1 DEF NewestLive, Newest
  <2>3. \A j \in DOMAIN live : live[j].id <= nextID
    BY <2>1 DEF NewestLive, Newest
  <2>4. \E j \in DOMAIN live' : live'[j].id = nextID
    BY <1>4, <2>2
  <2>5. \A j \in DOMAIN live' : live'[j].id <= nextID
    BY <1>3, <2>3
  <2> QED
    BY <2>1, <2>4, <2>5 DEF Newest
<1> QED
  BY <1>5, <1>6, <1>7

LEMMA HitAliasInv ==
  ASSUME IInv, NEW h \in Handlers, NEW t \in Texts, HitAlias(h, t)
  PROVE  IInv'
<1>1. PICK i \in DOMAIN live : /\ live[i].id = Aliases[t]
                               /\ live' = Touch(i) /\ Counts(h, live[i].id, t)
  BY DEF HitAlias
<1>2. /\ Types /\ Types' /\ NewestLive /\ Up /\ alias' = Aliases /\ series' = series
      /\ nextID' = nextID /\ meta' = meta
      /\ UNCHANGED <<process, evaluator, active, snapshot>>
  BY NextTypes DEF IInv, Next, Handle, HitAlias
<1>3. /\ LiveIds' = LiveIds /\ Newest(live', nextID)
      /\ \A j, s : Mined(j, s)' <=> Mined(j, s)
  BY <1>1, <1>2, TouchInv
<1>4. live[i].id \in Ids /\ ShapeOf[t] \in Shapes
  BY <1>2, StateTypes DEF Shapes
<1>5. Named(live[i].id, ShapeOf[t])
  <2>1. Aliases[t] # 0
    BY <1>1, <1>4, Sizes
  <2>2. Aliases[t] = alias[t]
    BY <2>1 DEF Aliases, NoAliases
  <2> QED
    BY <1>1, <2>2 DEF Named
<1>6. ASSUME NEW j \in Ids, NEW s \in Shapes, Of(j, s)' PROVE Of(j, s)
  <2>1. Carried(j, s)' => Carried(j, s) \/ Named(j, s)
    BY <1>1, <1>2, <1>4, <1>5, MapShapes
  <2>2. Named(j, s)' => Named(j, s)
    BY <1>2, <1>4, <1>5, NameShapes
  <2> QED
    BY <1>2, <1>3, <1>6, <2>1, <2>2 DEF Of
<1> QED
  BY <1>2, <1>3, <1>6, HandleInv

LEMMA JoinInv ==
  ASSUME IInv, NEW h \in Handlers, NEW t \in Texts, Join(h, t)
  PROVE  IInv'
<1>1. PICK i \in DOMAIN live : /\ live[i].shape = ShapeOf[t]
                               /\ live' = Touch(i) /\ Mapped(h, live[i].id, t)
  BY DEF Join, Similar
<1>2. /\ Types /\ Types' /\ NewestLive /\ Up /\ series' = series
      /\ nextID' = nextID /\ meta' = meta
      /\ UNCHANGED <<process, evaluator, active, snapshot>>
  BY NextTypes DEF IInv, Next, Handle, Join
<1>3. /\ LiveIds' = LiveIds /\ Newest(live', nextID)
      /\ \A j, s : Mined(j, s)' <=> Mined(j, s)
  BY <1>1, <1>2, TouchInv
<1>4. live[i].id \in Ids /\ Mined(live[i].id, ShapeOf[t])
  BY <1>1, <1>2, StateTypes DEF Mined
<1>5. Counts(h, live[i].id, t) \/ Mines(h, live[i].id, t)
  BY <1>1 DEF Mapped, Aliased, Raw
<1>6. ASSUME NEW j \in Ids, NEW s \in Shapes, Of(j, s)' PROVE Of(j, s)
  <2>1. Carried(j, s)' => Carried(j, s) \/ Mined(j, s)
    BY <1>2, <1>4, <1>5, MapShapes
  <2>2. Named(j, s)' => Named(j, s) \/ Mined(j, s)
    BY <1>1, <1>2, <1>4, NameShapes
  <2> QED
    BY <1>2, <1>3, <1>6, <2>1, <2>2 DEF Of
<1> QED
  BY <1>2, <1>3, <1>6, HandleInv

LEMMA BodyEndsInv ==
  ASSUME IInv, NEW h \in Handlers, NEW complete \in BOOLEAN, BodyEnds(h, complete)
  PROVE  IInv'
<1>1. /\ Types /\ Types' /\ NewestLive /\ Up /\ series' = series /\ meta' = meta
      /\ live' = live /\ nextID' = nextID /\ alias' = alias
      /\ UNCHANGED <<process, evaluator, active, snapshot>>
  BY NextTypes DEF IInv, Next, Handle, BodyEnds, miner
<1>2. LiveIds' = LiveIds /\ Newest(live', nextID)
  BY <1>1 DEF LiveIds, NewestLive
<1>3. ASSUME NEW j \in Ids, NEW s \in Shapes, Of(j, s)' PROVE Of(j, s)
  <2>1. \A g \in Handlers : InHand(g)' \subseteq InHand(g)
    <3>1. hand \in [Handlers -> Hands] /\ hand[h] \in Hands /\ hand[h].at = "mining"
      BY <1>1, StateTypes DEF BodyEnds
    <3>2. \A g \in Handlers : g # h => hand'[g] = hand[g]
      BY <3>1 DEF BodyEnds
    <3>3. InHand(h)' \subseteq InHand(h)
      BY <3>1 DEF BodyEnds, InHand, Idle, Hands
    <3> QED
      BY <3>2, <3>3 DEF InHand
  <2>2. Carried(j, s)' => Carried(j, s)
    BY <2>1 DEF Carried
  <2> QED
    BY <1>1, <1>3, <2>2 DEF Of, Mined, Named
<1> QED
  BY <1>1, <1>2, <1>3, HandleInv

LEMMA CountMetaInv ==
  ASSUME IInv, NEW h \in Handlers, NEW line \in hand[h].todo, CountMeta(h, line)
  PROVE  IInv'
<1>1. /\ Types /\ Types' /\ NewestLive /\ Up /\ series' = series
      /\ live' = live /\ nextID' = nextID /\ alias' = alias
      /\ UNCHANGED <<process, evaluator, active, snapshot>>
  BY NextTypes DEF IInv, Next, Handle, CountMeta, miner
<1>2. LiveIds' = LiveIds /\ Newest(live', nextID)
  BY <1>1 DEF LiveIds, NewestLive
<1>3. /\ hand \in [Handlers -> Hands] /\ meta \in [Ids -> Metas]
      /\ line \in Lines /\ line.id \in Ids
  BY <1>1, StateTypes DEF Lines
<1>4. ASSUME NEW j \in Ids, NEW s \in Shapes, Of(j, s)' PROVE Of(j, s)
  <2>1. \A g \in Handlers : InHand(g)' \subseteq InHand(g)
    BY <1>3 DEF CountMeta, InHand
  <2>2. Carried(j, s)' => Carried(j, s)
    BY <2>1 DEF Carried
  <2> QED
    BY <1>1, <1>4, <2>2 DEF Of, Mined, Named
<1>5. ASSUME NEW i \in Ids
      PROVE  /\ meta'[i].known = meta[i].known
             /\ meta'[i].novel = meta[i].novel
             /\ meta'[i].fired = meta[i].fired
             /\ i > nextID => meta'[i] = meta[i]
  <2>1. i > nextID => ~meta[i].novel
    BY DEF IInv, Fresh, NoMeta
  <2> QED
    BY <1>3, <2>1 DEF CountMeta, Metas
<1> QED
  BY <1>1, <1>2, <1>4, <1>5, HandleInv

LEMMA CountSeriesInv ==
  ASSUME IInv, NEW h \in Handlers, CountSeries(h)
  PROVE  IInv'
<1>1. /\ Types /\ Types' /\ NewestLive /\ Up /\ meta' = meta
      /\ live' = live /\ nextID' = nextID /\ alias' = alias
      /\ UNCHANGED <<process, evaluator, active, snapshot>>
  BY NextTypes DEF IInv, Next, Handle, CountSeries, miner
<1>2. LiveIds' = LiveIds /\ Newest(live', nextID)
  BY <1>1 DEF LiveIds, NewestLive
<1>3. /\ hand \in [Handlers -> Hands] /\ series \in [Ids -> SUBSET Shapes]
      /\ hand[h] \in Hands /\ hand[h].at = "series" /\ hand[h].line \in Lines
  BY <1>1, StateTypes DEF CountSeries, Hands
<1> DEFINE line == hand[h].line
<1>4. line.id \in Ids /\ line = [id |-> line.id, shape |-> line.shape]
  BY <1>3 DEF Lines
<1>5. Carried(line.id, line.shape)
  BY <1>3, <1>4 DEF Carried, InHand
<1>6. \A i \in Ids : series'[i] = IF i = line.id THEN series[i] \cup {line.shape}
                                  ELSE series[i]
  BY <1>3, <1>4 DEF CountSeries
<1>7. ASSUME NEW j \in Ids, NEW s \in Shapes, Of(j, s)' PROVE Of(j, s)
  <2>1. \A g \in Handlers : InHand(g)' \subseteq InHand(g)
    BY <1>3 DEF CountSeries, InHand, Idle
  <2>2. Carried(j, s)' => Carried(j, s)
    BY <2>1 DEF Carried
  <2>3. s \in series'[j] => s \in series[j] \/ Carried(j, s)
    BY <1>5, <1>6
  <2> QED
    BY <1>1, <1>7, <2>2, <2>3 DEF Of, Mined, Named
<1>8. \A i \in Ids : series[i] \subseteq series'[i]
  BY <1>6
<1> QED
  BY <1>1, <1>2, <1>7, <1>8, HandleInv

\* A new template in front of the list.
LEMMA AddInv ==
  ASSUME Types, NewestLive, NEW c \in Lines, c.id = nextID + 1, nextID' = nextID + 1,
         live' = Evicted(<<c>> \o live)
  PROVE  /\ LiveIds' \subseteq LiveIds \cup {nextID'} /\ NewestLive'
         /\ \A j, s : Mined(j, s)' => Mined(j, s) \/ (j = nextID' /\ s = c.shape)
<1>1. live \in LineList /\ nextID \in Nat
  BY StateTypes
<1>2. /\ live' \in LineList /\ Len(live') >= 1 /\ live'[1] = c
      /\ \A j \in DOMAIN live' : live'[j] = c \/ \E k \in DOMAIN live : live'[j] = live[k]
  BY <1>1, AddedList
<1>3. LiveIds' \subseteq LiveIds \cup {nextID'}
  BY <1>2 DEF LiveIds
<1>4. \A j, s : Mined(j, s)' => Mined(j, s) \/ (j = nextID' /\ s = c.shape)
  BY <1>2 DEF Mined
<1>5. NewestLive'
  <2>1. live' # <<>> /\ 1 \in DOMAIN live' /\ live'[1].id = nextID'
    BY <1>2, ListEntries
  <2>2. \A k \in DOMAIN live : live[k].id <= nextID /\ live[k].id \in Nat
    <3>1. \A k \in DOMAIN live : live[k].id \in Nat
      BY Sizes, StateTypes
    <3>2. live # <<>> => \A k \in DOMAIN live : live[k].id <= nextID
      BY DEF NewestLive, Newest
    <3> QED
      BY <3>1, <3>2
  <2>3. \A j \in DOMAIN live' : live'[j].id <= nextID'
    BY <1>1, <1>2, <2>2
  <2> QED
    BY <2>1, <2>3 DEF NewestLive, Newest
<1> QED
  BY <1>3, <1>4, <1>5

LEMMA CreateInv ==
  ASSUME IInv, NEW h \in Handlers, NEW t \in Texts, Create(h, t)
  PROVE  IInv'
<1> DEFINE c == [id |-> nextID', shape |-> ShapeOf[t]]
<1>1. /\ Types /\ Types' /\ NewestLive /\ Up /\ series' = series
      /\ nextID' = nextID + 1 /\ live' = Evicted(<<c>> \o live)
      /\ Mapped(h, nextID', t)
      /\ UNCHANGED <<process, series, evaluator, active, snapshot>>
  BY NextTypes DEF IInv, Next, Handle, Create
<1>2. /\ nextID \in Nat /\ nextID' \in Nat /\ nextID' \in Ids /\ ShapeOf[t] \in Shapes
      /\ nextID' > nextID
  <2>1. nextID < MaxId /\ nextID \in Nat /\ MaxId \in Nat
    BY <1>1, StateTypes, Sizes DEF Create
  <2> QED
    BY <1>1, <2>1 DEF Ids, Shapes
<1>3. c \in Lines /\ c.id = nextID + 1 /\ c.shape = ShapeOf[t]
  BY <1>1, <1>2 DEF Lines
<1>4. /\ LiveIds' \subseteq LiveIds \cup {nextID'} /\ NewestLive'
      /\ \A j, s : Mined(j, s)' => Mined(j, s) \/ (j = nextID' /\ s = ShapeOf[t])
  BY <1>1, <1>3, AddInv
<1>5. Counts(h, nextID', t) \/ Mines(h, nextID', t)
  BY <1>1 DEF Mapped, Aliased, Raw
<1>6. ASSUME NEW j \in Ids, NEW s \in Shapes, Of(j, s)'
      PROVE  Of(j, s) \/ (j = nextID' /\ s = ShapeOf[t])
  <2>1. Carried(j, s)' => Carried(j, s) \/ (j = nextID' /\ s = ShapeOf[t])
    BY <1>1, <1>2, <1>5, MapShapes
  <2>2. Named(j, s)' => Named(j, s) \/ (j = nextID' /\ s = ShapeOf[t])
    BY <1>1, <1>2, NameShapes
  <2> QED
    BY <1>1, <1>4, <1>6, <2>1, <2>2 DEF Of
<1>7. OneShape'
  <2> SUFFICES ASSUME NEW i \in Ids, NEW s \in Shapes, Of(i, s)'
               PROVE  i <= nextID' /\ \A z \in Shapes : Of(i, z)' => z = s
    BY DEF OneShape
  <2>1. i \in Nat
    BY Sizes
  <2>2. CASE i = nextID'
    <3>1. \A z \in Shapes : ~Of(i, z)
      BY <1>2, <2>1, <2>2 DEF IInv, OneShape
    <3> QED
      BY <1>2, <1>6, <2>2, <3>1
  <2>3. CASE i # nextID'
    <3>1. Of(i, s) /\ \A z \in Shapes : Of(i, z)' => Of(i, z)
      BY <1>6, <2>3
    <3>2. i <= nextID /\ \A z \in Shapes : Of(i, z) => z = s
      BY <3>1 DEF IInv, OneShape
    <3> QED
      BY <1>2, <2>1, <3>1, <3>2
  <2> QED
    BY <2>2, <2>3
<1>8. /\ mode # "down" /\ mode' = mode /\ verdict' = verdict /\ phase' = phase
      /\ active' = active
  BY <1>1 DEF Up, process, evaluator
<1>9. Cleared'
  BY <1>8 DEF Cleared
<1>10. Saved'
  BY <1>1 DEF IInv, Saved, snapshot
<1>11. PICK novel \in BOOLEAN : meta' = [meta EXCEPT ![nextID'] = Born(novel)]
  BY DEF Create
<1>12. /\ \A i \in Ids : i # nextID' => meta'[i] = meta[i]
       /\ meta'[nextID'].known /\ meta'[nextID'].fired = 0
  <2>1. meta \in [Ids -> Metas] /\ NoMeta.fired = 0
    BY <1>1, StateTypes DEF NoMeta
  <2>2. Born(novel).known /\ Born(novel).fired = 0
    BY DEF Born, NoMeta
  <2> QED
    BY <1>2, <1>11, <2>1, <2>2
<1>13. active[nextID'] = 0
  BY <1>2 DEF IInv, Fresh
<1>14. Fresh'
  <2> SUFFICES ASSUME NEW i \in Ids, i > nextID' PROVE meta'[i] = NoMeta /\ active'[i] = 0
    BY DEF Fresh
  <2>1. i \in Nat /\ i > nextID /\ i # nextID'
    BY <1>2, Sizes
  <2> QED
    BY <1>8, <1>12, <2>1 DEF IInv, Fresh
<1>15. ReadFits'
  <2>1. \A i \in verdict.fire \cup verdict.resolve \cup verdict.dead :
          i \in Nat /\ i <= nextID
    BY <1>1, Sizes DEF IInv, Types, Verdicts, ReadFits
  <2>2. \A i \in verdict.fire \cup verdict.resolve \cup verdict.dead : i <= nextID'
    BY <1>2, <2>1
  <2>3. nextID' \notin verdict.dead
    BY <1>2, <2>1
  <2> QED
    BY <1>4, <1>8, <2>2, <2>3 DEF IInv, ReadFits
<1>16. LiveHasMeta'
  <2>1. LiveIds \subseteq Ids
    BY <1>1, StateTypes DEF LiveIds
  <2> QED
    BY <1>4, <1>12, <2>1 DEF IInv, LiveHasMeta
<1>17. CanAnnounce'
  <2> SUFFICES ASSUME mode = "up", phase = "novelty", NEW i \in Ids
               PROVE  (IF i \in verdict.resolve THEN 0
                       ELSE IF i \in verdict.fire THEN meta'[i].fired ELSE active[i])
                        = IF meta'[i].novel THEN meta'[i].fired ELSE 0
    BY <1>8 DEF CanAnnounce
  <2>1. CASE i = nextID'
    BY <1>12, <1>13, <2>1
  <2>2. CASE i # nextID'
    BY <1>12, <2>2 DEF IInv, CanAnnounce
  <2> QED
    BY <2>1, <2>2
<1>18. NewFindingsCanResolve'
  <2> SUFFICES ASSUME mode = "up", phase # "novelty", NEW i \in Ids
               PROVE  active[i] = IF meta'[i].novel THEN meta'[i].fired ELSE 0
    BY <1>8 DEF NewFindingsCanResolve
  <2>1. CASE i = nextID'
    BY <1>12, <1>13, <2>1
  <2>2. CASE i # nextID'
    BY <1>12, <2>2 DEF IInv, NewFindingsCanResolve
  <2> QED
    BY <2>1, <2>2
<1> QED
  BY <1>1, <1>4, <1>7, <1>9, <1>10, <1>14, <1>15, <1>16, <1>17, <1>18 DEF IInv

-------------------------------------------------------------------------------
(* Evaluation.                                                             *)

\* A step of evaluation does not touch the miner, nor what requests carry.
LEMMA EvaluateInv ==
  ASSUME IInv, Types', mode = "up", UNCHANGED <<process, miner, series, hand, snapshot>>,
         Fresh', ReadFits', LiveHasMeta', CanAnnounce', NewFindingsCanResolve'
  PROVE  IInv'
<1>1. /\ mode' = mode /\ live' = live /\ nextID' = nextID /\ alias' = alias
      /\ series' = series /\ hand' = hand /\ save' = save /\ disk' = disk
  BY DEF process, miner, snapshot
<1>2. Cleared' /\ NewestLive'
  BY <1>1 DEF Cleared, IInv, NewestLive
<1>3. OneShape'
  <2>1. \A i \in Ids, s \in Shapes : Of(i, s)' => Of(i, s)
    BY <1>1 DEF Of, Mined, Named, Carried, InHand
  <2> QED
    BY <1>1, <2>1, KeepShapes DEF IInv
<1>4. Saved'
  BY <1>1 DEF IInv, Saved
<1> QED
  BY <1>2, <1>3, <1>4 DEF IInv

LEMMA WalkInv ==
  ASSUME IInv, NEW forgotten \in SUBSET Pending, NEW over \in SUBSET Firing,
         WalkTemplates(forgotten, over)
  PROVE  IInv'
<1>1. /\ Types /\ Types' /\ mode = "up" /\ phase = "idle" /\ phase' = "novelty"
      /\ active' = active /\ live' = live /\ nextID' = nextID
      /\ UNCHANGED <<process, miner, series, hand, snapshot>>
  <2>1. Types /\ Types'
    BY NextTypes DEF IInv, Next, Evaluate
  <2> QED
    BY <2>1 DEF WalkTemplates, miner
<1>2. /\ verdict'.fire = Announced /\ verdict'.resolve = over /\ verdict'.dead = {}
  BY DEF WalkTemplates, NothingRead
<1>3. ASSUME NEW i \in Ids
      PROVE  /\ meta'[i].known = meta[i].known /\ meta'[i].count = meta[i].count
             /\ meta'[i].novel = (meta[i].novel /\ i \notin forgotten \cup over)
             /\ meta'[i].fired = IF i \in Announced THEN starts ELSE meta[i].fired
  <2>1. meta[i] \in Metas
    BY <1>1, StateTypes
  <2> QED
    BY <2>1 DEF WalkTemplates, Metas
<1>4. \A i \in Announced \cup forgotten \cup over : i \in Ids /\ meta[i].novel
  BY DEF Announced, Pending, Firing, Waiting
<1>5. \A i \in Ids : i > nextID => meta[i] = NoMeta /\ ~meta[i].novel
  BY DEF IInv, Fresh, NoMeta
<1>6. Fresh'
  <2> SUFFICES ASSUME NEW i \in Ids, i > nextID PROVE meta'[i] = NoMeta /\ active'[i] = 0
    BY <1>1 DEF Fresh
  <2>1. i \notin Announced \cup forgotten \cup over
    BY <1>4, <1>5
  <2>2. meta'[i] = [NoMeta EXCEPT !.novel = NoMeta.novel /\ i \notin forgotten \cup over,
                                  !.fired = NoMeta.fired]
    BY <1>5, <2>1 DEF WalkTemplates
  <2>3. meta'[i] = NoMeta
    BY <2>2 DEF NoMeta
  <2> QED
    BY <1>1, <2>3 DEF IInv, Fresh
<1>7. ReadFits'
  <2>1. \A i \in Announced \cup over : i <= nextID
    <3> SUFFICES ASSUME NEW i \in Announced \cup over PROVE i <= nextID
      OBVIOUS
    <3>1. i \in Nat /\ nextID \in Nat
      BY <1>1, <1>4, Sizes, StateTypes
    <3> QED
      BY <1>4, <1>5, <3>1
  <2> QED
    BY <1>1, <1>2, <2>1 DEF ReadFits
<1>8. LiveHasMeta'
  <2>1. LiveIds' = LiveIds /\ LiveIds \subseteq Ids
    BY <1>1, StateTypes DEF LiveIds
  <2> QED
    BY <1>3, <2>1 DEF IInv, LiveHasMeta
<1>9. CanAnnounce'
  <2> SUFFICES ASSUME NEW i \in Ids
               PROVE  (IF i \in over THEN 0
                       ELSE IF i \in Announced THEN meta'[i].fired ELSE active[i])
                        = IF meta'[i].novel THEN meta'[i].fired ELSE 0
    BY <1>1, <1>2 DEF CanAnnounce
  <2>1. active[i] = IF meta[i].novel THEN meta[i].fired ELSE 0
    BY <1>1 DEF IInv, NewFindingsCanResolve
  <2>2. CASE i \in over
    BY <1>3, <2>2
  <2>3. CASE i \in Announced
    <3>1. i \notin forgotten \cup over
      BY <2>3 DEF Announced, Pending, Firing, Waiting
    <3> QED
      BY <1>3, <1>4, <2>3, <3>1
  <2>4. CASE i \in forgotten
    <3>1. i \notin Announced /\ i \notin over /\ meta[i].fired = 0
      BY <2>4 DEF Pending, Firing, Waiting
    <3> QED
      BY <1>3, <2>1, <2>4, <3>1
  <2>5. CASE i \notin Announced \cup forgotten \cup over
    BY <1>3, <2>1, <2>5
  <2> QED
    BY <2>2, <2>3, <2>4, <2>5
<1>10. NewFindingsCanResolve'
  BY <1>1 DEF NewFindingsCanResolve
<1> QED
  BY <1>1, <1>6, <1>7, <1>8, <1>9, <1>10, EvaluateInv

LEMMA AnnounceInv ==
  ASSUME IInv, Announce
  PROVE  IInv'
<1>1. /\ Types /\ Types' /\ mode = "up" /\ phase = "novelty" /\ phase' = "gc"
      /\ mode' = mode /\ meta' = meta /\ live' = live /\ nextID' = nextID
      /\ verdict' = NothingRead
      /\ UNCHANGED <<process, miner, series, hand, snapshot>>
  <2>1. Types /\ Types'
    BY NextTypes DEF IInv, Next, Evaluate
  <2> QED
    BY <2>1 DEF Announce, miner, process
<1>2. \A i \in Ids : active'[i] = IF i \in verdict.resolve THEN 0
                                  ELSE IF i \in verdict.fire THEN meta[i].fired
                                  ELSE active[i]
  BY DEF Announce
<1>3. \A i \in Ids : active'[i] = IF meta[i].novel THEN meta[i].fired ELSE 0
  BY <1>1, <1>2 DEF IInv, CanAnnounce
<1>4. Fresh'
  <2> SUFFICES ASSUME NEW i \in Ids, i > nextID PROVE meta'[i] = NoMeta /\ active'[i] = 0
    BY <1>1 DEF Fresh
  <2>1. meta[i] = NoMeta
    BY DEF IInv, Fresh
  <2> QED
    BY <1>1, <1>3, <2>1 DEF NoMeta
<1>5. ReadFits'
  BY <1>1 DEF ReadFits, NothingRead
<1>6. LiveHasMeta'
  BY <1>1 DEF IInv, LiveHasMeta, LiveIds
<1>7. CanAnnounce' /\ NewFindingsCanResolve'
  BY <1>1, <1>3 DEF CanAnnounce, NewFindingsCanResolve
<1> QED
  BY <1>1, <1>4, <1>5, <1>6, <1>7, EvaluateInv

LEMMA GcInv ==
  ASSUME IInv, SkipGc \/ GcCandidates \/ GcScan
  PROVE  IInv'
<1>1. /\ Types /\ Types' /\ mode = "up" /\ phase # "novelty" /\ phase' # "novelty"
      /\ mode' = mode /\ meta' = meta /\ live' = live /\ nextID' = nextID
      /\ active' = active
      /\ UNCHANGED <<process, miner, series, hand, snapshot>>
  <2>1. Types /\ Types'
    BY NextTypes DEF IInv, Next, Evaluate
  <2> QED
    BY <2>1 DEF SkipGc, GcCandidates, GcScan, miner, process
<1>2. verdict \in Verdicts
  BY <1>1 DEF Types
<1>3. ReadFits'
  <2>1. \A i \in Ids : meta[i].known => i <= nextID
    <3> SUFFICES ASSUME NEW i \in Ids, i > nextID PROVE ~meta[i].known
      BY <1>1, StateTypes, Sizes
    <3> QED
      BY DEF IInv, Fresh, NoMeta
  <2>2. \A i \in verdict'.fire \cup verdict'.resolve \cup verdict'.dead : i <= nextID
    BY <1>2, <2>1 DEF SkipGc, GcCandidates, GcScan, IInv, ReadFits, Verdicts
  <2>3. phase' = "delete" => verdict'.dead \cap LiveIds = {}
    BY <1>2 DEF SkipGc, GcCandidates, GcScan, Verdicts
  <2> QED
    BY <1>1, <2>2, <2>3 DEF ReadFits, LiveIds
<1>4. Fresh' /\ LiveHasMeta'
  BY <1>1 DEF IInv, Fresh, LiveHasMeta, LiveIds
<1>5. CanAnnounce' /\ NewFindingsCanResolve'
  BY <1>1 DEF IInv, CanAnnounce, NewFindingsCanResolve
<1> QED
  BY <1>1, <1>3, <1>4, <1>5, EvaluateInv

LEMMA GcDeleteInv ==
  ASSUME IInv, GcDelete
  PROVE  IInv'
<1>1. /\ Types /\ Types' /\ mode = "up" /\ phase = "delete" /\ phase' = "idle"
      /\ mode' = mode /\ live' = live /\ nextID' = nextID
      /\ active' = active /\ verdict' = NothingRead
      /\ UNCHANGED <<process, miner, series, hand, snapshot>>
  <2>1. Types /\ Types'
    BY NextTypes DEF IInv, Next, Evaluate
  <2> QED
    BY <2>1 DEF GcDelete, miner, process
<1>2. \A i \in Ids : meta'[i] = IF i \in verdict.dead /\ ~meta[i].novel
                                THEN NoMeta ELSE meta[i]
  BY DEF GcDelete
<1>3. Fresh'
  BY <1>1, <1>2 DEF IInv, Fresh
<1>4. ReadFits'
  BY <1>1 DEF ReadFits, NothingRead
<1>5. LiveHasMeta'
  <2>1. LiveIds' = LiveIds /\ LiveIds \subseteq Ids /\ verdict.dead \cap LiveIds = {}
    BY <1>1, StateTypes DEF LiveIds, IInv, ReadFits
  <2> QED
    BY <1>2, <2>1 DEF IInv, LiveHasMeta
<1>6. CanAnnounce' /\ NewFindingsCanResolve'
  BY <1>1, <1>2 DEF IInv, CanAnnounce, NewFindingsCanResolve, NoMeta
<1> QED
  BY <1>1, <1>3, <1>4, <1>5, <1>6, EvaluateInv

-------------------------------------------------------------------------------
(* Snapshots and the process.                                              *)

LEMMA SaveInv ==
  ASSUME IInv, Save
  PROVE  IInv'
<1>1. /\ Types /\ Types' /\ UNCHANGED running
  <2>1. Types /\ Types'
    BY NextTypes DEF IInv, Next
  <2> QED
    BY <2>1 DEF Save, SaveBegin, CopySeries, CopyFindings, CopyTemplates, WriteFile
<1>2. /\ mode' = mode /\ phase' = phase /\ verdict' = verdict /\ hand' = hand
      /\ live' = live /\ nextID' = nextID /\ alias' = alias /\ series' = series
      /\ meta' = meta /\ active' = active
  BY <1>1 DEF running, process, miner, evaluator
<1>3. Fresh' /\ ReadFits' /\ LiveHasMeta' /\ NewestLive'
  BY <1>2 DEF IInv, Fresh, ReadFits, LiveHasMeta, LiveIds, NewestLive
<1>4. CanAnnounce' /\ NewFindingsCanResolve'
  BY <1>2 DEF IInv, CanAnnounce, NewFindingsCanResolve
<1>5. OneShape'
  <2>1. \A i \in Ids, s \in Shapes : Of(i, s)' => Of(i, s)
    BY <1>2 DEF Of, Mined, Named, Carried, InHand
  <2> QED
    BY <1>2, <2>1, KeepShapes DEF IInv
<1>6. Cleared'
  <2>1. mode # "down"
    BY DEF IInv, Cleared, NoSave, Save, SaveBegin, CopySeries, CopyFindings,
           CopyTemplates, WriteFile, Up
  <2> QED
    BY <1>2, <2>1 DEF Cleared
<1>7. Saved'
  <2>1. save.file \in Files
    BY <1>1 DEF Types, Saves
  <2>2. CASE SaveBegin
    <3>1. save'.at = "series" /\ save'.file = NoFile /\ disk' = disk
      BY <2>2 DEF SaveBegin, NoSave
    <3> QED
      BY <1>2, <3>1 DEF IInv, Saved, NoFile, NoSeries
  <2>3. CASE CopySeries
    <3>1. save'.at # "write" /\ disk' = disk
      BY <1>1, <2>3, SaveFields DEF CopySeries
    <3>2. \A i \in Ids : save'.file.series[i] = IF i % Shards = save.shard THEN series[i]
                                                ELSE save.file.series[i]
      BY <1>1, <2>1, <2>3, SaveFields DEF Files
    <3> QED
      BY <1>2, <3>1, <3>2 DEF IInv, Saved
  <2>4. CASE CopyFindings
    <3>1. save'.at # "write" /\ disk' = disk /\ save'.file.series = save.file.series
      BY <1>1, <2>1, <2>4, SaveFields DEF CopyFindings, Files
    <3> QED
      BY <1>2, <3>1 DEF IInv, Saved
  <2>5. CASE CopyTemplates
    <3>1. /\ save'.at = "write" /\ disk' = disk
          /\ save'.file.series = save.file.series /\ save'.file.live = live
      BY <1>1, <2>1, <2>5, SaveFields DEF CopyTemplates, Files
    <3>2. Newest(live, nextID) /\ RestoredID(live) = nextID
      BY <1>1, StateTypes, RestoredNewest DEF IInv, NewestLive
    <3>3. \A i \in Ids, s \in Shapes : SavedOf(save'.file, i, s) => Of(i, s)
      BY <3>1 DEF SavedOf, Of, Mined, IInv, Saved
    <3>4. FileFits(save'.file)
      <4>1. Newest(save'.file.live, RestoredID(save'.file.live))
        BY <3>1, <3>2
      <4>2. ASSUME NEW i \in Ids, NEW s \in Shapes, SavedOf(save'.file, i, s)
            PROVE  /\ i <= RestoredID(save'.file.live)
                   /\ \A z \in Shapes : SavedOf(save'.file, i, z) => z = s
        <5>1. Of(i, s) /\ \A z \in Shapes : SavedOf(save'.file, i, z) => Of(i, z)
          BY <3>3, <4>2
        <5>2. i <= nextID /\ \A z \in Shapes : Of(i, z) => z = s
          BY <5>1 DEF IInv, OneShape
        <5> QED
          BY <3>1, <3>2, <5>1, <5>2
      <4> QED
        BY <4>1, <4>2 DEF FileFits
    <3> QED
      BY <1>2, <3>1, <3>4 DEF IInv, Saved
  <2>6. CASE WriteFile
    <3>1. /\ disk' = save.file /\ save.at = "write"
          /\ save'.at # "write" /\ save'.file = NoFile
      BY <2>6 DEF WriteFile, NoSave
    <3>2. FileFits(disk')
      BY <3>1 DEF IInv, Saved
    <3> QED
      BY <1>2, <3>1, <3>2 DEF Saved, NoFile, NoSeries
  <2> QED
    BY <2>2, <2>3, <2>4, <2>5, <2>6 DEF Save
<1> QED
  BY <1>1, <1>3, <1>4, <1>5, <1>6, <1>7 DEF IInv

LEMMA StopInv ==
  ASSUME IInv, Stop
  PROVE  IInv'
<1>1. /\ Types' /\ mode = "up" /\ mode' = "stopping" /\ phase' = phase
      /\ verdict' = verdict /\ hand' = hand
      /\ live' = live /\ nextID' = nextID /\ alias' = alias /\ series' = series
      /\ meta' = meta /\ active' = active /\ save' = save /\ disk' = disk
  <2>1. Types'
    BY NextTypes DEF IInv, Next
  <2> QED
    BY <2>1 DEF Stop, miner, evaluator, snapshot
<1>2. Fresh' /\ ReadFits' /\ LiveHasMeta' /\ NewestLive' /\ Saved'
  BY <1>1 DEF IInv, Fresh, ReadFits, LiveHasMeta, LiveIds, NewestLive, Saved
<1>3. Cleared' /\ CanAnnounce' /\ NewFindingsCanResolve'
  BY <1>1 DEF Cleared, CanAnnounce, NewFindingsCanResolve
<1>4. OneShape'
  <2>1. \A i \in Ids, s \in Shapes : Of(i, s)' => Of(i, s)
    BY <1>1 DEF Of, Mined, Named, Carried, InHand
  <2> QED
    BY <1>1, <2>1, KeepShapes DEF IInv
<1> QED
  BY <1>1, <1>2, <1>3, <1>4 DEF IInv

\* Without memory there is no template of any shape.
LEMMA NoShapes ==
  ASSUME alias = NoAliases, \A h \in Handlers : hand[h] = Idle
  PROVE  \A i \in Ids, s \in Shapes : ~Named(i, s) /\ ~Carried(i, s)
<1>1. \A h \in Handlers : InHand(h) = {}
  BY DEF InHand, Idle
<1>2. \A i \in Ids : i # 0
  BY Sizes
<1> QED
  BY <1>1, <1>2 DEF Named, Carried, NoAliases

LEMMA GoneInv ==
  ASSUME IInv, Exit \/ Crash
  PROVE  IInv'
<1>1. Types' /\ Gone
  BY NextTypes DEF IInv, Next, Exit, Crash
<1>2. /\ mode' = "down" /\ live' = <<>> /\ nextID' = 0 /\ alias' = NoAliases
      /\ series' = NoSeries /\ \A h \in Handlers : hand'[h] = Idle
      /\ phase' = "idle" /\ verdict' = NothingRead
      /\ save' = NoSave /\ disk' = disk
      /\ \A i \in Ids : meta'[i] = NoMeta /\ active'[i] = 0
  BY <1>1 DEF Gone, NoFindings
<1>3. Cleared' /\ NewestLive' /\ Fresh' /\ ReadFits'
  BY <1>2 DEF Cleared, NewestLive, Newest, Fresh, ReadFits, NothingRead
<1>4. LiveHasMeta' /\ CanAnnounce' /\ NewFindingsCanResolve'
  BY <1>2 DEF LiveHasMeta, LiveIds, CanAnnounce, NewFindingsCanResolve
<1>5. Saved'
  BY <1>2 DEF IInv, Saved, NoSave, NoFile, NoSeries
<1>6. OneShape'
  <2> SUFFICES ASSUME NEW i \in Ids, NEW s \in Shapes PROVE ~Of(i, s)'
    BY DEF OneShape
  <2>1. s \notin series'[i] /\ ~Mined(i, s)'
    BY <1>2 DEF NoSeries, Mined
  <2>2. ~Named(i, s)' /\ ~Carried(i, s)'
    <3>1. \A h \in Handlers : InHand(h)' = {}
      BY <1>2 DEF InHand, Idle
    <3>2. i # 0
      BY Sizes
    <3> QED
      BY <1>2, <3>1, <3>2 DEF Named, Carried, NoAliases
  <2> QED
    BY <2>1, <2>2 DEF Of
<1> QED
  BY <1>1, <1>3, <1>4, <1>5, <1>6 DEF IInv

LEMMA StartInv ==
  ASSUME IInv, NEW loads \in BOOLEAN, Start(loads)
  PROVE  IInv'
<1>1. Types /\ Types' /\ FileFits(disk) /\ Cleared
  BY NextTypes DEF IInv, Next, Saved
<1>2. /\ mode = "down" /\ mode' = "up"
      /\ live' = disk.live /\ nextID' = RestoredID(disk.live)
      /\ alias' = alias /\ hand' = hand /\ phase' = phase /\ verdict' = verdict
      /\ save' = save /\ disk' = disk
      /\ \A i \in Ids : series'[i] \subseteq disk.series[i]
  BY DEF Start, evaluator, snapshot, NoSeries
<1>3. /\ alias = NoAliases /\ \A h \in Handlers : hand[h] = Idle
      /\ phase = "idle" /\ verdict = NothingRead /\ save = NoSave
  BY <1>1, <1>2 DEF Cleared
<1> DEFINE back == {disk.live[j].id : j \in DOMAIN disk.live}
<1>4. /\ back \subseteq Ids /\ nextID' \in Nat
      /\ \A i \in back : i <= nextID'
  <2>1. disk.live \in LineList
    BY <1>1, StateTypes
  <2>2. back \subseteq Ids
    BY <2>1, ListEntries
  <2>3. Newest(disk.live, nextID')
    BY <1>1, <1>2 DEF FileFits
  <2>4. \A i \in back : i <= nextID'
    BY <2>1, <2>3 DEF Newest, LineList
  <2>5. nextID' \in Nat
    BY <1>2, <2>1, RestoredType
  <2> QED
    BY <2>2, <2>4, <2>5
<1>5. /\ \A i \in Ids : active'[i] = IF i \in back THEN disk.active[i] ELSE 0
      /\ \A i \in Ids : i \notin back => meta'[i] = NoMeta
      /\ \A i \in back : /\ meta'[i].known /\ meta'[i].fired = active'[i]
                         /\ meta'[i].novel = (active'[i] # 0)
  BY <1>4 DEF Start, Restorable, NoMeta
<1>6. Cleared' /\ NewestLive' /\ ReadFits' /\ CanAnnounce'
  <2>1. Cleared' /\ ReadFits' /\ CanAnnounce'
    BY <1>2, <1>3 DEF Cleared, ReadFits, CanAnnounce, NothingRead
  <2>2. NewestLive'
    BY <1>1, <1>2 DEF FileFits, NewestLive
  <2> QED
    BY <2>1, <2>2
<1>7. Fresh'
  <2> SUFFICES ASSUME NEW i \in Ids, i > nextID' PROVE meta'[i] = NoMeta /\ active'[i] = 0
    BY DEF Fresh
  <2>1. i \notin back
    <3>1. i \in Nat /\ nextID' \in Nat /\ (i \in back => i <= nextID')
      BY <1>4, Sizes
    <3> QED
      BY <3>1
  <2> QED
    BY <1>5, <2>1
<1>8. LiveHasMeta'
  <2>1. LiveIds' = back
    BY <1>2 DEF LiveIds
  <2> QED
    BY <1>5, <2>1 DEF LiveHasMeta
<1>9. NewFindingsCanResolve'
  <2> SUFFICES ASSUME NEW i \in Ids
               PROVE  active'[i] = IF meta'[i].novel THEN meta'[i].fired ELSE 0
    BY DEF NewFindingsCanResolve
  <2>1. CASE i \in back
    BY <1>5, <2>1
  <2>2. CASE i \notin back
    BY <1>5, <2>2 DEF NoMeta
  <2> QED
    BY <2>1, <2>2
<1>10. Saved'
  <2>1. \A i \in Ids : save'.file.series[i] = {}
    BY <1>2, <1>3 DEF NoSave, NoFile, NoSeries
  <2> QED
    BY <1>1, <1>2, <1>3, <2>1 DEF Saved, NoSave
<1>11. OneShape'
  <2>1. ASSUME NEW i \in Ids, NEW s \in Shapes, Of(i, s)' PROVE SavedOf(disk, i, s)
    <3>1. ~Named(i, s)' /\ ~Carried(i, s)'
      <4>1. ~Named(i, s) /\ ~Carried(i, s)
        BY <1>3, NoShapes
      <4> QED
        BY <1>2, <4>1 DEF Named, Carried, InHand
    <3> QED
      BY <1>2, <2>1, <3>1 DEF Of, Mined, SavedOf
  <2>2. \A i \in Ids, s \in Shapes :
          SavedOf(disk, i, s) => /\ i <= nextID'
                                 /\ \A z \in Shapes : SavedOf(disk, i, z) => z = s
    BY <1>1, <1>2 DEF FileFits
  <2> QED
    BY <2>1, <2>2 DEF OneShape
<1> QED
  BY <1>1, <1>6, <1>7, <1>8, <1>9, <1>10, <1>11 DEF IInv

LEMMA NextInv == IInv /\ [Next]_vars => IInv'
<1> SUFFICES ASSUME IInv, [Next]_vars PROVE IInv'
  OBVIOUS
<1>1. ASSUME NEW h \in Handlers, Handle(h) PROVE IInv'
  BY <1>1, HitAliasInv, JoinInv, CreateInv, BodyEndsInv, CountMetaInv, CountSeriesInv
  DEF Handle
<1>2. CASE Evaluate
  BY <1>2, WalkInv, AnnounceInv, GcInv, GcDeleteInv DEF Evaluate
<1>3. CASE Save
  BY <1>3, SaveInv
<1>4. CASE Stop
  BY <1>4, StopInv
<1>5. CASE Exit \/ Crash
  BY <1>5, GoneInv
<1>6. ASSUME NEW loads \in BOOLEAN, Start(loads) PROVE IInv'
  BY <1>6, StartInv
<1>7. CASE UNCHANGED vars
  <2>1. /\ mode' = mode /\ phase' = phase /\ verdict' = verdict /\ hand' = hand
        /\ live' = live /\ nextID' = nextID /\ alias' = alias /\ series' = series
        /\ meta' = meta /\ active' = active /\ save' = save /\ disk' = disk
    BY <1>7 DEF vars, process, miner, evaluator, snapshot
  <2>2. Types' /\ nextID' = nextID /\ OneShape
    BY <1>7, <2>1, NextTypes DEF IInv
  <2>3. \A i \in Ids, s \in Shapes : Of(i, s)' => Of(i, s)
    BY <2>1 DEF Of, Mined, Named, Carried, InHand
  <2>4. OneShape'
    BY <2>2, <2>3, KeepShapes
  <2>5. Cleared' /\ NewestLive' /\ Saved' /\ Fresh' /\ ReadFits'
    BY <2>1 DEF IInv, Cleared, NewestLive, Saved, Fresh, ReadFits, LiveIds
  <2>6. LiveHasMeta' /\ CanAnnounce' /\ NewFindingsCanResolve'
    BY <2>1 DEF IInv, LiveHasMeta, LiveIds, CanAnnounce, NewFindingsCanResolve
  <2> QED
    BY <2>2, <2>4, <2>5, <2>6 DEF IInv
<1> QED
  BY <1>1, <1>2, <1>3, <1>4, <1>5, <1>6, <1>7 DEF Next

LEMMA Invariant == Spec => []IInv
<1>1. Init => IInv
  BY InitInv
<1>2. IInv /\ [Next]_vars => IInv'
  BY NextInv
<1> QED
  BY <1>1, <1>2, PTL DEF Spec

(***************************************************************************)
(* gc never deletes the metadata of a live template, in whatever order its *)
(* three steps and the requests that create and evict templates come.      *)
(***************************************************************************)
THEOREM MetadataStays == Spec => []LiveHasMeta
<1>1. IInv => LiveHasMeta
  BY DEF IInv
<1> QED
  BY <1>1, Invariant, PTL

(***************************************************************************)
(* The lines counted in a template's series are of one shape: no id is     *)
(* given twice while the first template's series exists, across restarts,  *)
(* snapshots between two steps, evictions and stale aliases.               *)
(***************************************************************************)
THEOREM IdsAreNotReused == Spec => []SeriesOfOneTemplate
<1>1. IInv => SeriesOfOneTemplate
  <2> SUFFICES ASSUME IInv, NEW i \in Ids PROVE Cardinality(series[i]) <= 1
    BY DEF SeriesOfOneTemplate
  <2>1. series[i] \subseteq Shapes
    BY StateTypes DEF IInv
  <2>2. \A s, z \in series[i] : s = z
    BY <2>1 DEF IInv, OneShape, Of
  <2>3. CASE series[i] = {}
    <3>1. Cardinality({}) = 0
      BY FS_EmptySet
    <3> QED
      BY <2>3, <3>1
  <2>4. CASE series[i] # {}
    <3>1. PICK s \in series[i] : series[i] = {s}
      BY <2>2, <2>4
    <3>2. Cardinality({s}) = 1
      BY FS_Singleton
    <3> QED
      BY <3>1, <3>2
  <2> QED
    BY <2>3, <2>4
<1> QED
  BY <1>1, Invariant, PTL

(***************************************************************************)
(* Between evaluations a new-template finding is active exactly for the    *)
(* templates whose metadata will resolve it, with the same start time.     *)
(***************************************************************************)
THEOREM NewFindingsResolve == Spec => []NewFindingsCanResolve
<1>1. IInv => NewFindingsCanResolve
  BY DEF IInv
<1> QED
  BY <1>1, Invariant, PTL

===============================================================================
