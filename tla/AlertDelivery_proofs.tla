------------------------- MODULE AlertDelivery_proofs -------------------------
(***************************************************************************)
(* Proofs about AlertDelivery, for every set of findings, every cap and    *)
(* every length of its times that the assumptions allow.                   *)
(***************************************************************************)
EXTENDS AlertDelivery, SequenceTheorems, TLAPS

Entry == [key : Keys, sent : BOOLEAN]

-------------------------------------------------------------------------------
(* Constants and helpers.                                                  *)

LEMMA ConstantTypes ==
  /\ Hold \in Nat /\ Hold >= 4 /\ Cap \in Nat /\ Cap >= 1
  /\ SigEvery \in Nat /\ TTL \in Nat /\ MaxFlips \in Nat
  /\ Signature \in Keys /\ Findings \subseteq Keys
  /\ \A k \in Findings : k # Signature
BY DeliveryAssumption DEF Keys

LEMMA LaterType ==
  ASSUME NEW top \in Nat, NEW n \in 0 .. top
  PROVE  /\ Later(n, top) \in 0 .. top /\ Later(n, top) >= n
         /\ Later(n, top) = (IF n = top THEN top ELSE n + 1)
BY DEF Later, Smaller

\* The list after a resolve: the new entry, and the old ones that fit.
LEMMA ListedEntries ==
  ASSUME NEW k \in Keys, resolved \in Seq(Entry), Len(resolved) <= Cap
  PROVE  /\ Listed(k) \in Seq(Entry) /\ Len(Listed(k)) <= Cap
         /\ Len(Listed(k)) = IF Len(resolved) < Cap THEN Len(resolved) + 1 ELSE Cap
         /\ Listed(k)[1] = [key |-> k, sent |-> FALSE]
         /\ \A i \in 2 .. Len(Listed(k)) : Listed(k)[i] = resolved[i - 1]
<1> DEFINE one == <<[key |-> k, sent |-> FALSE]>>
           all == one \o resolved
           m   == Smaller(Len(resolved) + 1, Cap)
<1>1. one \in Seq(Entry) /\ Len(one) = 1 /\ one[1] = [key |-> k, sent |-> FALSE]
  BY DEF Entry
<1>2. Len(resolved) \in Nat
  BY LenProperties
<1> HIDE DEF one
<1>3. /\ all \in Seq(Entry) /\ Len(all) = Len(resolved) + 1
      /\ all[1] = one[1]
      /\ \A i \in 2 .. Len(resolved) + 1 : all[i] = resolved[i - 1]
  <2>1. /\ all \in Seq(Entry) /\ Len(all) = 1 + Len(resolved)
        /\ \A i \in 1 .. 1 + Len(resolved) :
             all[i] = IF i <= 1 THEN one[i] ELSE resolved[i - 1]
    <3>1. \A s \in Seq(Entry), t \in Seq(Entry) :
            /\ s \o t \in Seq(Entry) /\ Len(s \o t) = Len(s) + Len(t)
            /\ \A i \in 1 .. Len(s) + Len(t) :
                 (s \o t)[i] = IF i <= Len(s) THEN s[i] ELSE t[i - Len(s)]
      BY ConcatProperties, Zenon
    <3>2. all = one \o resolved
      OBVIOUS
    <3> HIDE DEF all
    <3>3. /\ all \in Seq(Entry) /\ Len(all) = Len(one) + Len(resolved)
          /\ \A i \in 1 .. Len(one) + Len(resolved) :
               all[i] = IF i <= Len(one) THEN one[i] ELSE resolved[i - Len(one)]
      BY <1>1, <3>1, <3>2, Zenon
    <3> QED
      BY <1>1, <3>3, Zenon
  <2> HIDE DEF all
  <2> QED
    BY <1>2, <2>1
<1>4. /\ m \in Nat /\ m >= 1 /\ m <= Len(resolved) + 1 /\ m <= Cap
      /\ m = IF Len(resolved) < Cap THEN Len(resolved) + 1 ELSE Cap
  BY <1>2, ConstantTypes DEF Smaller
<1> HIDE DEF all, m
<1>5. \A i \in 1 .. m : all[i] \in Entry
  BY <1>3, <1>4, ElementOfSeq
<1>6. /\ SubSeq(all, 1, m) \in Seq(Entry)
      /\ Len(SubSeq(all, 1, m)) = m
      /\ \A i \in 1 .. m : SubSeq(all, 1, m)[i] = all[i]
  BY <1>4, <1>5, SubSeqProperties
<1>7. Listed(k) = SubSeq(all, 1, m)
  BY DEF Listed, all, one, m
<1> QED
  BY <1>1, <1>2, <1>3, <1>4, <1>6, <1>7

\* A resolve adds its key to what is owed; what is not owed any more because
\* the list was cut is the entry that fell off.
LEMMA ListedOwed ==
  ASSUME NEW k \in Keys, resolved \in Seq(Entry), Len(resolved) <= Cap
  PROVE  /\ k \in Owed(Listed(k))
         /\ Owed(Listed(k)) \subseteq Owed(resolved) \cup {k}
         /\ \A j \in Owed(resolved) \ Owed(Listed(k)) :
              ~(Len(resolved) < Cap \/ resolved[Cap].sent) /\ j = resolved[Cap].key
<1> DEFINE l == Listed(k)
<1>1. /\ l \in Seq(Entry) /\ DOMAIN l = 1 .. Len(l) /\ Len(l) \in Nat
      /\ Len(l) = IF Len(resolved) < Cap THEN Len(resolved) + 1 ELSE Cap
      /\ l[1] = [key |-> k, sent |-> FALSE]
      /\ \A i \in 2 .. Len(l) : l[i] = resolved[i - 1]
  BY ListedEntries, LenProperties
<1>2. Len(resolved) \in Nat /\ DOMAIN resolved = 1 .. Len(resolved)
  BY LenProperties
<1> HIDE DEF l
<1>3. k \in Owed(l)
  BY <1>1, <1>2, ConstantTypes, SMTT(40) DEF Owed
<1>4. ASSUME NEW j \in Owed(l), j # k PROVE j \in Owed(resolved)
  <2>1. PICK i \in DOMAIN l : l[i].key = j /\ ~l[i].sent
    BY <1>4 DEF Owed
  <2>2. i \in 2 .. Len(l) /\ i - 1 \in DOMAIN resolved
    BY <1>1, <1>2, <1>4, <2>1, ConstantTypes
  <2> QED
    BY <1>1, <1>4, <2>1, <2>2 DEF Owed
<1>5. ASSUME NEW j \in Owed(resolved), j \notin Owed(l)
      PROVE  ~(Len(resolved) < Cap \/ resolved[Cap].sent) /\ j = resolved[Cap].key
  <2>1. PICK i \in DOMAIN resolved : resolved[i].key = j /\ ~resolved[i].sent
    BY <1>5 DEF Owed
  <2>2. i + 1 \notin DOMAIN l
    <3> SUFFICES ASSUME i + 1 \in DOMAIN l PROVE FALSE
      OBVIOUS
    <3>1. l[i + 1] = resolved[i]
      BY <1>1, <1>2, <2>1
    <3> QED
      BY <1>5, <2>1, <3>1 DEF Owed
  <2>3. i = Cap /\ ~(Len(resolved) < Cap)
    BY <1>1, <1>2, <2>1, <2>2, ConstantTypes
  <2> QED
    BY <2>1, <2>3
<1> QED
  BY <1>3, <1>4, <1>5 DEF l

\* After an accepted post nothing is owed.
LEMMA MarkedOwed ==
  ASSUME resolved \in Seq(Entry)
  PROVE  /\ Marked \in Seq(Entry) /\ Len(Marked) = Len(resolved)
         /\ Owed(Marked) = {}
<1>1. DOMAIN resolved = 1 .. Len(resolved) /\ Len(resolved) \in Nat
  BY LenProperties
<1>2. \A i \in 1 .. Len(resolved) :
        /\ [resolved[i] EXCEPT !.sent = TRUE] \in Entry
        /\ [resolved[i] EXCEPT !.sent = TRUE].sent
  <2> TAKE i \in 1 .. Len(resolved)
  <2>1. resolved[i] \in Entry
    BY ElementOfSeq
  <2> QED
    BY <2>1 DEF Entry
<1>3. Marked = [i \in 1 .. Len(resolved) |-> [resolved[i] EXCEPT !.sent = TRUE]]
  BY <1>1 DEF Marked
<1>4. Marked \in [1 .. Len(resolved) -> Entry]
  BY <1>2, <1>3
<1>5. Marked \in Seq(Entry) /\ Len(Marked) = Len(resolved)
  BY <1>1, <1>4
<1>6. \A i \in DOMAIN Marked : Marked[i].sent
  BY <1>2, <1>3
<1> QED
  BY <1>5, <1>6 DEF Owed

-------------------------------------------------------------------------------
(* Types.                                                                  *)

LEMMA InitType == Init => TypeOK
BY ConstantTypes DEF Init, TypeOK, NoDisk

LEMMA PassesType ==
  ASSUME TypeOK, Passes
  PROVE  /\ active' = active /\ resolved' = resolved /\ posts' = posts
         /\ orphans' = orphans /\ memory' = memory
         /\ fired' \in 0 .. SigEvery /\ since' \in 0 .. SigEvery
         /\ silent' \in 0 .. Hold
         /\ disk' \in [active : SUBSET Keys, fired : 0 .. SigEvery]
         /\ open' \in [Keys -> 0 .. Hold] /\ ended' \in [Keys -> 0 .. Hold]
<1> USE ConstantTypes, LaterType DEF TypeOK, Passes
<1>1. /\ fired' \in 0 .. SigEvery /\ since' \in 0 .. SigEvery
      /\ silent' \in 0 .. Hold
  OBVIOUS
<1>2. disk' \in [active : SUBSET Keys, fired : 0 .. SigEvery]
  <2>1. Later(disk.fired, SigEvery) \in 0 .. SigEvery
    OBVIOUS
  <2> QED
    BY <2>1
<1>3. open' \in [Keys -> 0 .. Hold]
  <2>1. \A k \in Keys :
          (IF open[k] = 0 THEN 0 ELSE open[k] - 1) \in 0 .. Hold
    <3> TAKE k \in Keys
    <3>1. open[k] \in 0 .. Hold
      OBVIOUS
    <3> HIDE ConstantTypes, LaterType DEF TypeOK, Passes
    <3> QED
      BY <3>1, ConstantTypes
  <2> QED
    BY <2>1
<1>4. ended' \in [Keys -> 0 .. Hold]
  <2>1. \A k \in Keys :
          (IF k \in active THEN 0 ELSE Later(ended[k], Hold)) \in 0 .. Hold
    OBVIOUS
  <2> QED
    BY <2>1
<1> QED
  BY <1>1, <1>2, <1>3, <1>4

LEMMA ResolvingType ==
  ASSUME TypeOK, NEW k \in Keys, Resolving(k)
  PROVE  /\ active' \subseteq Keys
         /\ resolved' \in Seq([key : Keys, sent : BOOLEAN]) /\ Len(resolved') <= Cap
         /\ ended' \in [Keys -> 0 .. Hold]
         /\ orphans' \subseteq Keys
<1>1. resolved \in Seq(Entry) /\ Len(resolved) <= Cap /\ Len(resolved) \in Nat
  BY LenProperties DEF TypeOK, Entry
<1>2. resolved' \in Seq(Entry) /\ Len(resolved') <= Cap
  BY <1>1, ListedEntries DEF Resolving
<1>3. active' \subseteq Keys /\ ended' \in [Keys -> 0 .. Hold]
  BY ConstantTypes DEF TypeOK, Resolving
<1>4. ~(Len(resolved) < Cap) => resolved[Cap] \in Entry
  BY <1>1, ElementOfSeq, ConstantTypes
<1>5. orphans' \subseteq Keys
  BY <1>4 DEF TypeOK, Resolving, Entry
<1> QED
  BY <1>2, <1>3, <1>5 DEF Entry

LEMMA NextType == TypeOK /\ [Next]_vars => TypeOK'
<1> SUFFICES ASSUME TypeOK, [Next]_vars PROVE TypeOK'
  OBVIOUS
<1> USE ConstantTypes
<1>1. CASE Tick \/ TickDown
  <2>1. Passes /\ mode' \in {"down", "eval"} /\ flips' \in {0, flips}
    BY <1>1 DEF Tick, TickDown
  <2>2. /\ active' = active /\ resolved' = resolved /\ posts' = posts
        /\ orphans' = orphans /\ memory' = memory
        /\ fired' \in 0 .. SigEvery /\ since' \in 0 .. SigEvery
        /\ silent' \in 0 .. Hold
        /\ disk' \in [active : SUBSET Keys, fired : 0 .. SigEvery]
        /\ open' \in [Keys -> 0 .. Hold] /\ ended' \in [Keys -> 0 .. Hold]
    BY <2>1, PassesType
  <2> QED
    BY <2>1, <2>2, SMTT(40) DEF TypeOK
<1>2. ASSUME NEW k \in Findings, Fire(k) PROVE TypeOK'
  BY <1>2 DEF TypeOK, Fire
<1>3. ASSUME NEW k \in Findings, Resolve(k) PROVE TypeOK'
  <2>1. Resolving(k) /\ k \in Keys
    BY <1>3 DEF Resolve
  <2>2. /\ active' \subseteq Keys
        /\ resolved' \in Seq([key : Keys, sent : BOOLEAN]) /\ Len(resolved') <= Cap
        /\ ended' \in [Keys -> 0 .. Hold]
        /\ orphans' \subseteq Keys
    BY <2>1, ResolvingType
  <2> QED
    BY <1>3, <2>2, SMTT(40) DEF TypeOK, Resolve
<1>4. CASE Applied
  BY <1>4 DEF TypeOK, Applied, history
<1>5. CASE SignatureFires
  BY <1>5 DEF TypeOK, SignatureFires
<1>6. CASE SignatureRests
  BY <1>6, ResolvingType DEF TypeOK, SignatureRests
<1>7. CASE SendAccepted
  <2>1. resolved \in Seq(Entry)
    BY DEF TypeOK, Entry
  <2>2. Marked \in Seq([key : Keys, sent : BOOLEAN]) /\ Len(Marked) <= Cap
    BY <2>1, MarkedOwed DEF TypeOK, Entry
  <2>3. \A k \in Keys : Until(k) \in 0 .. Hold
    BY DEF TypeOK, Until
  <2>4. \A k \in Keys :
          (IF k \in active THEN Later(posts[k], 2) ELSE posts[k]) \in 0 .. 2
    BY LaterType DEF TypeOK
  <2> QED
    BY <1>7, <2>2, <2>3, <2>4 DEF TypeOK, SendAccepted
<1>8. CASE SendFailed
  BY <1>8 DEF TypeOK, SendFailed, history
<1>9. CASE Save
  BY <1>9 DEF TypeOK, Save, server
<1>10. CASE End
  <2>1. Owed(resolved) \subseteq Keys
    BY DEF Owed
  <2>2. <<>> \in Seq([key : Keys, sent : BOOLEAN]) /\ Len(<<>>) = 0
    OBVIOUS
  <2> QED
    BY <1>10, <2>1, <2>2 DEF TypeOK, End
<1>11. CASE Load
  BY <1>11 DEF TypeOK, Load, RestoredFired
<1>12. CASE StartEmpty
  BY <1>12 DEF TypeOK, StartEmpty, NoDisk
<1>13. CASE AnswerLost
  <2>1. \A k \in Keys : Until(k) \in 0 .. Hold
    BY DEF TypeOK, Until
  <2> QED
    BY <1>13, <2>1 DEF TypeOK, AnswerLost, history
<1>14. CASE UNCHANGED vars
  BY <1>14 DEF TypeOK, vars, server, history
<1> QED
  BY <1>1, <1>2, <1>3, <1>4, <1>5, <1>6, <1>7, <1>8, <1>9, <1>10, <1>11, <1>12,
     <1>13, <1>14
  DEF Next, Sign

(***************************************************************************)
(* Every variable keeps its type: the list of resolved findings never      *)
(* outgrows its cap, and times stay in their ranges.                       *)
(***************************************************************************)
THEOREM TypeCorrect == Spec => []TypeOK
<1>1. Init => TypeOK
  BY InitType
<1>2. TypeOK /\ [Next]_vars => TypeOK'
  BY NextType
<1> QED
  BY <1>1, <1>2, PTL DEF Spec

-------------------------------------------------------------------------------
(* The inductive invariant.                                                *)

\* A process that is gone has neither findings nor resolves to send.
DownIsEmpty == mode = "down" => active = {} /\ resolved = <<>>

\* An accepted post sends every resolve: a finding that was posted while active
\* owes no resolve of an earlier one.
PostedIsNotOwed == \A k \in active : posts[k] > 0 => k \notin Owed(resolved)

\* The receiver heard of a finding posted twice in the last accepted post.
OpenLongEnough == \A k \in active : posts[k] = 2 => open[k] >= Hold - silent

\* The server, or else its snapshot, has the time of the last firing.
FiringIsKnown == /\ memory # "none" /\ Up => fired = since
                 /\ memory = "snapshot" => disk.fired = since

Alerts == OpenIsOwed /\ ClosesInTime /\ PostedIsNotOwed /\ OpenLongEnough

IInv == TypeOK /\ DownIsEmpty /\ Alerts /\ FiringIsKnown

LEMMA Types ==
  ASSUME TypeOK
  PROVE  /\ \A k \in Keys : /\ open[k] \in 0 .. Hold /\ ended[k] \in 0 .. Hold
                            /\ posts[k] \in 0 .. 2
         /\ silent \in 0 .. Hold /\ active \subseteq Keys /\ orphans \subseteq Keys
         /\ resolved \in Seq(Entry) /\ Len(resolved) <= Cap
         /\ fired \in 0 .. SigEvery /\ since \in 0 .. SigEvery
         /\ disk \in [active : SUBSET Keys, fired : 0 .. SigEvery]
         /\ disk.fired \in 0 .. SigEvery /\ disk.active \subseteq Keys
BY DEF TypeOK, Entry

LEMMA InitInv == Init => IInv
<1> SUFFICES ASSUME Init PROVE IInv
  OBVIOUS
<1>1. TypeOK
  BY InitType
<1> QED
  BY <1>1, ConstantTypes
  DEF Init, IInv, DownIsEmpty, Alerts, OpenIsOwed, ClosesInTime, PostedIsNotOwed,
      OpenLongEnough, FiringIsKnown

LEMMA PassesInv ==
  ASSUME IInv, Tick \/ TickDown
  PROVE  DownIsEmpty' /\ Alerts' /\ FiringIsKnown'
<1>1. TypeOK /\ Passes /\ (Up' <=> Up) /\ (mode' = "down" <=> mode = "down")
  BY DEF IInv, Tick, TickDown, Up
<1>2. /\ active' = active /\ resolved' = resolved /\ posts' = posts
      /\ orphans' = orphans /\ memory' = memory
      /\ fired' = Later(fired, SigEvery) /\ since' = Later(since, SigEvery)
      /\ disk'.fired = Later(disk.fired, SigEvery)
      /\ silent' = Later(silent, Hold)
      /\ \A k \in Keys :
           /\ open'[k] = IF open[k] = 0 THEN 0 ELSE open[k] - 1
           /\ ended'[k] = IF k \in active THEN 0 ELSE Later(ended[k], Hold)
  BY <1>1, Types DEF Passes
<1>3. DownIsEmpty'
  BY <1>1, <1>2 DEF IInv, DownIsEmpty
<1>4. FiringIsKnown'
  BY <1>1, <1>2 DEF IInv, FiringIsKnown
<1>5. OpenIsOwed'
  <2>1. Owed(resolved') = Owed(resolved)
    BY <1>2
  <2>2. \A k \in Keys : open'[k] > 0 => open[k] > 0
    BY <1>1, <1>2, Types
  <2> QED
    BY <1>2, <2>1, <2>2 DEF IInv, Alerts, OpenIsOwed
<1>6. ClosesInTime'
  <2> SUFFICES ASSUME NEW k \in Keys, k \notin active
               PROVE  open'[k] + ended'[k] <= Hold
    BY <1>2 DEF ClosesInTime
  <2>1. /\ open[k] + ended[k] <= Hold
        /\ open[k] \in 0 .. Hold /\ ended[k] \in 0 .. Hold
    BY <1>1, Types DEF IInv, Alerts, ClosesInTime
  <2>2. ended'[k] = IF ended[k] = Hold THEN Hold ELSE ended[k] + 1
    BY <1>2, <2>1, LaterType, ConstantTypes
  <2> QED
    BY <1>2, <2>1, <2>2, ConstantTypes
<1>7. PostedIsNotOwed'
  BY <1>2 DEF IInv, Alerts, PostedIsNotOwed, Owed
<1>8. OpenLongEnough'
  <2> SUFFICES ASSUME NEW k \in active, posts[k] = 2
               PROVE  open'[k] >= Hold - silent'
    BY <1>2 DEF OpenLongEnough
  <2>1. /\ k \in Keys /\ open[k] \in 0 .. Hold /\ silent \in 0 .. Hold
        /\ open[k] >= Hold - silent
    BY <1>1, Types DEF IInv, Alerts, OpenLongEnough
  <2>2. silent' = IF silent = Hold THEN Hold ELSE silent + 1
    BY <1>2, <2>1, LaterType, ConstantTypes
  <2> QED
    BY <1>2, <2>1, <2>2, ConstantTypes
<1> QED
  BY <1>3, <1>4, <1>5, <1>6, <1>7, <1>8 DEF Alerts

\* A finding resolves: it is owed, and what the cut drops is an orphan.
LEMMA ResolvingInv ==
  ASSUME IInv, NEW k \in Keys, k \in active, Resolving(k),
         open' = open, posts' = posts, silent' = silent
  PROVE  Alerts'
<1>1. TypeOK /\ resolved \in Seq(Entry) /\ Len(resolved) <= Cap
  BY Types DEF IInv
<1>2. /\ active' = active \ {k} /\ resolved' = Listed(k)
      /\ ended' = [ended EXCEPT ![k] = 0]
      /\ orphans \subseteq orphans'
  BY DEF Resolving
<1>3. /\ k \in Owed(resolved')
      /\ Owed(resolved') \subseteq Owed(resolved) \cup {k}
      /\ Owed(resolved) \subseteq Owed(resolved') \cup orphans'
  BY <1>1, <1>2, ListedOwed DEF Resolving
<1>4. OpenIsOwed'
  BY <1>2, <1>3 DEF IInv, Alerts, OpenIsOwed
<1>5. ClosesInTime'
  <2> SUFFICES ASSUME NEW j \in Keys, j \notin active'
               PROVE  open[j] + ended'[j] <= Hold
    BY DEF ClosesInTime
  <2>1. ended'[j] = IF j = k THEN 0 ELSE ended[j]
    BY <1>1, <1>2 DEF TypeOK
  <2>2. j = k \/ open[j] + ended[j] <= Hold
    BY <1>2 DEF IInv, Alerts, ClosesInTime
  <2> QED
    BY <1>1, <2>1, <2>2, Types, ConstantTypes
<1>6. PostedIsNotOwed'
  BY <1>2, <1>3 DEF IInv, Alerts, PostedIsNotOwed
<1>7. OpenLongEnough'
  BY <1>2 DEF IInv, Alerts, OpenLongEnough
<1> QED
  BY <1>4, <1>5, <1>6, <1>7 DEF Alerts

\* A finding fires: nothing was posted of it yet.
LEMMA FiringInv ==
  ASSUME IInv, NEW k \in Keys, active' = active \cup {k},
         posts' = [posts EXCEPT ![k] = 0], orphans' = orphans \ {k},
         UNCHANGED <<resolved, open, ended, silent>>
  PROVE  Alerts'
<1>1. Owed(resolved') = Owed(resolved) /\ active \subseteq Keys
  BY Types DEF IInv
<1>2. \A j \in Keys : posts'[j] = IF j = k THEN 0 ELSE posts[j]
  BY DEF IInv, TypeOK
<1>3. OpenIsOwed' /\ ClosesInTime'
  BY <1>1 DEF IInv, Alerts, OpenIsOwed, ClosesInTime
<1>4. PostedIsNotOwed' /\ OpenLongEnough'
  BY <1>1, <1>2 DEF IInv, Alerts, PostedIsNotOwed, OpenLongEnough
<1> QED
  BY <1>3, <1>4 DEF Alerts

LEMMA SendAcceptedInv ==
  ASSUME IInv, SendAccepted
  PROVE  Alerts'
<1>1. /\ TypeOK /\ resolved \in Seq(Entry) /\ active \subseteq Keys
      /\ active' = active /\ resolved' = Marked /\ silent' = 0
      /\ ended' = ended /\ orphans' = orphans
      /\ \A k \in Keys :
           /\ open'[k] = Until(k)
           /\ posts'[k] = IF k \in active THEN Later(posts[k], 2) ELSE posts[k]
  BY Types DEF IInv, SendAccepted
<1>2. Owed(resolved') = {}
  BY <1>1, MarkedOwed
<1>3. \A k \in Keys : Until(k) = IF k \in Owed(resolved) THEN 0
                                 ELSE IF k \in active THEN Hold ELSE open[k]
  BY DEF Until
<1>4. OpenIsOwed'
  BY <1>1, <1>2, <1>3 DEF IInv, Alerts, OpenIsOwed
<1>5. ClosesInTime'
  BY <1>1, <1>3, Types, ConstantTypes DEF IInv, Alerts, ClosesInTime
<1>6. PostedIsNotOwed'
  BY <1>2 DEF PostedIsNotOwed
<1>7. OpenLongEnough'
  <2> SUFFICES ASSUME NEW k \in active, posts'[k] = 2
               PROVE  open'[k] >= Hold - silent'
    BY <1>1 DEF OpenLongEnough
  <2>1. k \in Keys /\ posts[k] \in 0 .. 2 /\ posts'[k] = Later(posts[k], 2)
    BY <1>1, Types
  <2>2. posts[k] > 0
    BY <2>1, LaterType
  <2>3. k \notin Owed(resolved)
    BY <2>2 DEF IInv, Alerts, PostedIsNotOwed
  <2> QED
    BY <1>1, <1>3, <2>1, <2>3, ConstantTypes
<1> QED
  BY <1>4, <1>5, <1>6, <1>7 DEF Alerts

\* Without an answer the receiver hears the same, and the list stays as it is.
LEMMA AnswerLostInv ==
  ASSUME IInv, AnswerLost
  PROVE  Alerts'
<1>1. /\ TypeOK /\ active \subseteq Keys
      /\ active' = active /\ resolved' = resolved /\ silent' = silent
      /\ ended' = ended /\ orphans' = orphans /\ posts' = posts
      /\ \A k \in Keys : open'[k] = Until(k)
  BY Types DEF IInv, AnswerLost, history
<1>2. Owed(resolved') = Owed(resolved)
  BY <1>1
<1>3. \A k \in Keys : Until(k) = IF k \in Owed(resolved) THEN 0
                                 ELSE IF k \in active THEN Hold ELSE open[k]
  BY DEF Until
<1>4. OpenIsOwed'
  BY <1>1, <1>2, <1>3 DEF IInv, Alerts, OpenIsOwed
<1>5. ClosesInTime'
  BY <1>1, <1>3, Types, ConstantTypes DEF IInv, Alerts, ClosesInTime
<1>6. PostedIsNotOwed'
  BY <1>1, <1>2 DEF IInv, Alerts, PostedIsNotOwed
<1>7. OpenLongEnough'
  <2> SUFFICES ASSUME NEW k \in active, posts[k] = 2
               PROVE  open'[k] >= Hold - silent
    BY <1>1 DEF OpenLongEnough
  <2>1. k \in Keys /\ silent \in 0 .. Hold
    BY <1>1, Types
  <2>2. k \notin Owed(resolved)
    BY DEF IInv, Alerts, PostedIsNotOwed
  <2> QED
    BY <1>1, <1>3, <2>1, <2>2, ConstantTypes
<1> QED
  BY <1>4, <1>5, <1>6, <1>7 DEF Alerts

LEMMA EndInv ==
  ASSUME IInv, End
  PROVE  Alerts'
<1>1. /\ TypeOK /\ active \subseteq Keys /\ ended \in [Keys -> 0 .. Hold]
      /\ active' = {} /\ open' = open
      /\ orphans' = orphans \cup active \cup Owed(resolved)
      /\ ended' = [k \in Keys |-> IF k \in active THEN 0 ELSE ended[k]]
  BY Types DEF IInv, End, TypeOK
<1>2. OpenIsOwed'
  BY <1>1 DEF IInv, Alerts, OpenIsOwed
<1>3. ClosesInTime'
  BY <1>1, Types, ConstantTypes DEF IInv, Alerts, ClosesInTime
<1>4. PostedIsNotOwed' /\ OpenLongEnough'
  BY <1>1 DEF PostedIsNotOwed, OpenLongEnough
<1> QED
  BY <1>2, <1>3, <1>4 DEF Alerts

LEMMA LoadInv ==
  ASSUME IInv, Load
  PROVE  Alerts'
<1>1. /\ TypeOK /\ active = {} /\ resolved = <<>> /\ resolved' = <<>>
      /\ open' = open /\ ended' = ended /\ silent' = silent
      /\ disk.active \subseteq Keys
  BY Types DEF IInv, Load, DownIsEmpty
<1>2. PICK keep \in SUBSET disk.active :
        /\ active' = keep /\ orphans' = orphans \ keep
        /\ posts' = [k \in Keys |-> IF k \in keep THEN 0 ELSE posts[k]]
  BY DEF Load
<1>3. Owed(resolved) = {} /\ Owed(resolved') = {}
  BY <1>1 DEF Owed
<1>4. OpenIsOwed'
  BY <1>1, <1>2, <1>3 DEF IInv, Alerts, OpenIsOwed
<1>5. ClosesInTime'
  BY <1>1 DEF IInv, Alerts, ClosesInTime
<1>6. PostedIsNotOwed' /\ OpenLongEnough'
  BY <1>1, <1>2, <1>3 DEF PostedIsNotOwed, OpenLongEnough
<1> QED
  BY <1>4, <1>5, <1>6 DEF Alerts

\* Steps that leave the findings and the receiver alone.
LEMMA AlertsUntouched ==
  ASSUME Alerts, UNCHANGED <<active, resolved, open, ended, posts, silent, orphans>>
  PROVE  Alerts'
BY DEF Alerts, OpenIsOwed, ClosesInTime, PostedIsNotOwed, OpenLongEnough, Owed

LEMMA NextInv == IInv /\ [Next]_vars => IInv'
<1> SUFFICES ASSUME IInv, [Next]_vars PROVE IInv'
  OBVIOUS
<1>1. TypeOK /\ TypeOK'
  BY NextType DEF IInv
<1> USE DEF Up, DownIsEmpty, FiringIsKnown
<1>2. CASE Tick \/ TickDown
  BY <1>1, <1>2, PassesInv DEF IInv
<1>3. ASSUME NEW k \in Findings, Fire(k) PROVE IInv'
  <2>1. k \in Keys /\ Alerts'
    BY <1>3, ConstantTypes, FiringInv DEF Fire
  <2> QED
    BY <1>1, <1>3, <2>1 DEF IInv, Fire
<1>4. ASSUME NEW k \in Findings, Resolve(k) PROVE IInv'
  <2>1. k \in Keys /\ Alerts'
    BY <1>4, ConstantTypes, ResolvingInv DEF Resolve
  <2> QED
    BY <1>1, <1>4, <2>1 DEF IInv, Resolve
<1>5. CASE Applied
  <2>1. Alerts'
    BY <1>5, AlertsUntouched DEF IInv, Applied, history
  <2> QED
    BY <1>1, <1>5, <2>1 DEF IInv, Applied, history
<1>6. CASE SignatureFires
  <2>1. Alerts'
    BY <1>6, ConstantTypes, FiringInv DEF SignatureFires
  <2> QED
    BY <1>1, <1>6, <2>1 DEF IInv, SignatureFires
<1>7. CASE SignatureRests
  <2>1. Alerts'
    <3>1. CASE Signature \in active /\ fired > TTL
      BY <1>7, <3>1, ConstantTypes, ResolvingInv DEF SignatureRests
    <3>2. CASE ~(Signature \in active /\ fired > TTL)
      BY <1>7, <3>2, AlertsUntouched DEF IInv, SignatureRests
    <3> QED
      BY <3>1, <3>2
  <2> QED
    BY <1>1, <1>7, <2>1 DEF IInv, SignatureRests
<1>8. CASE SendAccepted
  BY <1>1, <1>8, SendAcceptedInv DEF IInv, SendAccepted
<1>9. CASE SendFailed
  <2>1. Alerts'
    BY <1>9, AlertsUntouched DEF IInv, SendFailed, history
  <2> QED
    BY <1>1, <1>9, <2>1 DEF IInv, SendFailed, history
<1>10. CASE Save
  <2>1. Alerts'
    BY <1>10, AlertsUntouched DEF IInv, Save, server
  <2> QED
    BY <1>1, <1>10, <2>1 DEF IInv, Save, server
<1>11. CASE End
  <2>1. Alerts'
    BY <1>11, EndInv
  <2>2. DownIsEmpty' /\ FiringIsKnown'
    BY <1>11 DEF IInv, End
  <2> QED
    BY <1>1, <2>1, <2>2 DEF IInv
<1>12. CASE Load
  <2>1. Alerts'
    BY <1>12, LoadInv
  <2>2. memory' # "none" => disk.fired = since
    BY <1>12 DEF IInv, TypeOK, Load
  <2>3. DownIsEmpty' /\ FiringIsKnown'
    BY <1>12, <2>2 DEF Load, RestoredFired
  <2> QED
    BY <1>1, <2>1, <2>3 DEF IInv
<1>13. CASE StartEmpty
  <2>1. Alerts'
    BY <1>13, AlertsUntouched DEF IInv, StartEmpty
  <2> QED
    BY <1>1, <1>13, <2>1 DEF IInv, StartEmpty
<1>14. CASE AnswerLost
  BY <1>1, <1>14, AnswerLostInv DEF IInv, AnswerLost, history
<1>15. CASE UNCHANGED vars
  <2>1. Alerts'
    BY <1>15, AlertsUntouched DEF IInv, vars, server, history
  <2> QED
    BY <1>1, <1>15, <2>1 DEF IInv, vars, server, history
<1> QED
  BY <1>2, <1>3, <1>4, <1>5, <1>6, <1>7, <1>8, <1>9, <1>10, <1>11, <1>12, <1>13,
     <1>14, <1>15
  DEF Next, Sign

LEMMA Invariant == Spec => []IInv
<1>1. Init => IInv
  BY InitInv
<1>2. IInv /\ [Next]_vars => IInv'
  BY NextInv
<1> QED
  BY <1>1, <1>2, PTL DEF Spec

-------------------------------------------------------------------------------
(* What follows.                                                           *)

(***************************************************************************)
(* Every alert that the receiver shows belongs to an active finding, or    *)
(* its resolve is in the list and not sent, or was cut off the list or     *)
(* forgotten with the process: sendAlerts and resolveLocked lose none,     *)
(* whatever posts fail.                                                    *)
(***************************************************************************)
THEOREM OpenOwed == Spec => []OpenIsOwed
<1>1. IInv => OpenIsOwed
  BY DEF IInv, Alerts
<1> QED
  BY <1>1, Invariant, PTL

(***************************************************************************)
(* No alert stays open for more than Hold rounds after its finding ended,  *)
(* for every cap of the list, lost resolve and number of restarts.         *)
(***************************************************************************)
THEOREM AlertsClose == Spec => []ClosesInTime
<1>1. IInv => ClosesInTime
  BY DEF IInv, Alerts
<1> QED
  BY <1>1, Invariant, PTL

(***************************************************************************)
(* An active finding of which two posts were accepted is open at the       *)
(* receiver for as long as posts are not refused for Hold rounds.          *)
(***************************************************************************)
THEOREM TwoPostsOpen == Spec => []OpenAfterTwoPosts
<1>1. IInv => OpenAfterTwoPosts
  <2> SUFFICES ASSUME IInv, NEW k \in active, posts[k] = 2, silent < Hold
               PROVE  open[k] > 0
    BY DEF OpenAfterTwoPosts
  <2>1. open[k] >= Hold - silent
    BY DEF IInv, Alerts, OpenLongEnough
  <2>2. k \in Keys /\ open[k] \in 0 .. Hold /\ silent \in 0 .. Hold
    BY Types DEF IInv
  <2> QED
    BY <2>1, <2>2, ConstantTypes
<1> QED
  BY <1>1, Invariant, PTL

(***************************************************************************)
(* Two findings of a signature are SigEvery rounds apart, across restarts  *)
(* whose snapshot knows of the first one: sigFired is saved apart from the *)
(* finding, which --novelty-ttl ends much earlier.                         *)
(***************************************************************************)
THEOREM SignatureFiresOnce == Spec => SignatureOnce
<1>1. IInv /\ [Next]_vars
        => (Up /\ Signature \notin active /\ Signature \in active'
              => since = SigEvery \/ memory = "none")
  <2> SUFFICES ASSUME IInv, [Next]_vars, Up, Signature \notin active,
                      Signature \in active'
               PROVE  since = SigEvery \/ memory = "none"
    OBVIOUS
  <2>1. SignatureFires
    <3>1. ASSUME NEW k \in Findings, Fire(k) \/ Resolve(k)
          PROVE  Signature \notin active'
      BY <3>1, ConstantTypes DEF Fire, Resolve, Resolving
    <3> QED
      BY <3>1
      DEF Next, Sign, Tick, TickDown, Passes, Applied, SignatureRests, Resolving,
          SendAccepted, AnswerLost, SendFailed, Save, server, End, Load, StartEmpty, Up, vars
  <2>2. fired = SigEvery
    BY <2>1 DEF SignatureFires, SignatureMayFire
  <2> QED
    BY <2>2 DEF IInv, FiringIsKnown
<1> QED
  BY <1>1, Invariant, PTL DEF Spec, SignatureOnce

===============================================================================
