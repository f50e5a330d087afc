--------------------------- MODULE AgentPush_proofs ---------------------------
(***************************************************************************)
(* Proofs about AgentPush, for every set of keys and buckets, every        *)
(* backlog and any number of requests under way.                           *)
(***************************************************************************)
EXTENDS AgentPush, WellFoundedInduction, TLAPS

-------------------------------------------------------------------------------
(* Constants and operators on counts.                                      *)

LEMMA FirstBucket ==
  \E b \in Buckets : \A c \in Buckets : b <= c
<1> DEFINE R == OpToRel(<, Nat)
<1>1. IsWellFoundedOn(R, Nat)
  BY NatLessThanWellFounded
<1>2. \A x, y \in Nat : <<y, x>> \in R <=> y < x
  BY DEF OpToRel
<1> HIDE DEF R
<1>3. PICK x \in Buckets : \A y \in Buckets : <<y, x>> \notin R
  BY <1>1, BucketsAssumption, WFMin
<1>4. ASSUME NEW y \in Buckets PROVE x <= y
  <2>1. x \in Nat /\ y \in Nat
    BY BucketsAssumption
  <2>2. ~(y < x)
    BY <1>2, <1>3, <2>1
  <2> QED
    BY <2>1, <2>2
<1> QED
  BY <1>4

LEMMA NothingCounts ==
  Nothing \in Counts /\ \A k \in Keys, b \in Buckets : Nothing[k][b] = 0
BY DEF Nothing, Counts

LEMMA PlusCounts ==
  ASSUME NEW c \in Counts, NEW d \in Counts
  PROVE  /\ Plus(c, d) \in Counts
         /\ \A k \in Keys, b \in Buckets : Plus(c, d)[k][b] = c[k][b] + d[k][b]
BY DEF Plus, Counts

LEMMA OnlyCounts ==
  ASSUME NEW c \in Counts, NEW K
  PROVE  /\ Only(c, K) \in Counts
         /\ \A k \in Keys, b \in Buckets :
              Only(c, K)[k][b] = IF k \in K THEN c[k][b] ELSE 0
BY DEF Only, Counts, Nothing

LEMMA NoCount ==
  ASSUME NEW c \in Counts, NEW k \in Keys, k \notin KeysOf(c), NEW b \in Buckets
  PROVE  c[k][b] = 0
BY DEF KeysOf, Counts

LEMMA AtCounts ==
  ASSUME NEW c \in Counts, NEW j, NEW B
  PROVE  /\ At(c, j, B) \in Counts
         /\ \A k \in Keys, b \in Buckets :
              At(c, j, B)[k][b] = IF k = j /\ b \in B THEN c[k][b] ELSE 0
<1>1. \A k \in Keys, b \in Buckets : c[k][b] \in Nat
  BY DEF Counts
<1> QED
  BY <1>1 DEF At, Counts

Requests == [at : {"free", "server", "ok", "failed"},
             items : Counts, applied : SUBSET Keys]

LEMMA NewRequests ==
  /\ NoRequest \in Requests /\ NoRequest.at = "free"
  /\ \A c \in Counts : /\ Request(c) \in Requests /\ Request(c).at = "server"
                       /\ Request(c).items = c /\ Request(c).applied = {}
BY NothingCounts DEF NoRequest, Request, Requests

LEMMA Types ==
  ASSUME TypeOK
  PROVE  /\ counts \in Counts /\ got \in Counts /\ read \in Counts
         /\ dropped \in Counts /\ missed \in Counts /\ series \subseteq Keys
         /\ \A k \in Keys, b \in Buckets :
              /\ counts[k][b] \in Nat /\ got[k][b] \in Nat /\ missed[k][b] \in Nat
              /\ read[k][b] \in Nat /\ dropped[k][b] \in Nat
         /\ req \in [Slots -> Requests]
         /\ \A i \in Slots : /\ req[i] \in Requests
                             /\ req[i].items \in Counts /\ req[i].applied \subseteq Keys
                             /\ i # 0
         /\ agent = "pushing" => slot \in Slots
BY BoundsAssumption DEF TypeOK, Counts, Requests

\* A failed payload goes back to the counts or is dropped, and nothing is lost.
LEMMA PutBackAll ==
  ASSUME TypeOK, NEW items \in Counts, PutBack(items)
  PROVE  /\ counts' \in Counts /\ dropped' \in Counts
         /\ \A k \in Keys, b \in Buckets :
              counts'[k][b] + dropped'[k][b]
                = counts[k][b] + dropped[k][b] + items[k][b]
<1> DEFINE new == KeysOf(items) \ KeysOf(counts)
<1>1. PICK keep \in SUBSET new :
        /\ counts' = Plus(counts, Only(items, keep \cup KeysOf(counts)))
        /\ dropped' = Plus(dropped, Only(items, new \ keep))
  BY DEF PutBack
<1> DEFINE back == Only(items, keep \cup KeysOf(counts))
           gone == Only(items, new \ keep)
<1>2. /\ back \in Counts /\ gone \in Counts
      /\ \A k \in Keys, b \in Buckets :
           /\ back[k][b] = IF k \in keep \cup KeysOf(counts) THEN items[k][b] ELSE 0
           /\ gone[k][b] = IF k \in new \ keep THEN items[k][b] ELSE 0
  BY OnlyCounts
<1>3. counts \in Counts /\ dropped \in Counts
  BY Types
<1>4. counts' = Plus(counts, back) /\ dropped' = Plus(dropped, gone)
  BY <1>1
<1> HIDE DEF back, gone
<1>5. /\ counts' \in Counts /\ dropped' \in Counts
      /\ \A k \in Keys, b \in Buckets :
           /\ counts'[k][b] = counts[k][b] + back[k][b]
           /\ dropped'[k][b] = dropped[k][b] + gone[k][b]
  BY <1>2, <1>3, <1>4, PlusCounts
<1>6. ASSUME NEW k \in Keys, NEW b \in Buckets
      PROVE  back[k][b] + gone[k][b] = items[k][b]
  <2>1. items[k][b] \in Nat
    BY DEF Counts
  <2>2. k \in new \/ k \in KeysOf(counts) \/ items[k][b] = 0
    BY NoCount
  <2> QED
    BY <1>2, <2>1, <2>2
<1>7. ASSUME NEW k \in Keys, NEW b \in Buckets
      PROVE  counts'[k][b] + dropped'[k][b]
               = counts[k][b] + dropped[k][b] + items[k][b]
  <2>1. /\ counts[k][b] \in Nat /\ dropped[k][b] \in Nat /\ items[k][b] \in Nat
        /\ back[k][b] \in Nat /\ gone[k][b] \in Nat
    BY <1>2, <1>3 DEF Counts
  <2>2. /\ counts'[k][b] = counts[k][b] + back[k][b]
        /\ dropped'[k][b] = dropped[k][b] + gone[k][b]
    BY <1>5
  <2> QED
    BY <1>6, <2>1, <2>2
<1> QED
  BY <1>5, <1>7

-------------------------------------------------------------------------------
(* Types.                                                                  *)

LEMMA InitType == Init => TypeOK
<1> SUFFICES ASSUME Init PROVE TypeOK
  OBVIOUS
<1>1. bucket \in Buckets
  BY FirstBucket DEF Init
<1>2. req \in [Slots -> Requests]
  BY NewRequests DEF Init
<1> QED
  BY <1>1, <1>2, NothingCounts DEF Init, TypeOK, Requests

\* A step that changes at most one request, and no count.
LEMMA RequestType ==
  ASSUME TypeOK, UNCHANGED <<agentvars, history>>, got' \in Counts,
         missed' \in Counts, series' \subseteq Keys,
         req' \in [Slots -> Requests], trouble' \in Nat
  PROVE  TypeOK'
BY DEF TypeOK, Requests, agentvars, history

LEMMA NextType == TypeOK /\ [Next]_vars => TypeOK'
<1> SUFFICES ASSUME TypeOK, [Next]_vars PROVE TypeOK'
  OBVIOUS
<1>1. /\ trouble \in Nat /\ req \in [Slots -> Requests]
      /\ got \in Counts /\ missed \in Counts /\ series \subseteq Keys
  BY Types DEF TypeOK
<1>2. Trouble => trouble' \in Nat
  BY <1>1 DEF Trouble
<1>3. ASSUME NEW k \in Keys, Read(k) PROVE TypeOK'
  <2>1. \A c \in Counts : [c EXCEPT ![k][bucket] = @ + 1] \in Counts
    BY DEF TypeOK, Counts
  <2> QED
    BY <1>3, <2>1 DEF TypeOK, Read, logs
<1>4. CASE NextBucket
  BY <1>4 DEF TypeOK, NextBucket, history, logs
<1>5. ASSUME NEW last \in BOOLEAN, Push(last) PROVE TypeOK'
  <2>1. PICK i \in Slots : req' = [req EXCEPT ![i] = Request(counts)] /\ slot' = i
    BY <1>5 DEF Push
  <2>2. req' \in [Slots -> Requests] /\ i # 0
    BY <1>1, <2>1, NewRequests, Types
  <2> QED
    BY <1>5, <2>1, <2>2, NothingCounts DEF TypeOK, Push, history, Requests, logs
<1>6. CASE Accepted
  <2>1. req' \in [Slots -> Requests]
    BY <1>1, <1>6, NewRequests DEF Accepted
  <2> QED
    BY <1>6, <2>1 DEF TypeOK, Accepted, Done, Requests, logs
<1>7. CASE Rejected
  <2>1. req' \in [Slots -> Requests] /\ slot \in Slots /\ req[slot].items \in Counts
    BY <1>1, <1>7, NewRequests, Types DEF Rejected
  <2>2. counts' \in Counts /\ dropped' \in Counts
    BY <1>7, <2>1, PutBackAll DEF Rejected
  <2> QED
    BY <1>7, <2>1, <2>2 DEF TypeOK, Rejected, Done, Requests, logs
<1>8. CASE TimedOut
  <2>1. slot \in Slots /\ req[slot].items \in Counts
    BY <1>8, Types DEF TimedOut
  <2>2. counts' \in Counts /\ dropped' \in Counts
    BY <1>8, <2>1, PutBackAll DEF TimedOut
  <2> QED
    BY <1>2, <1>8, <2>2 DEF TypeOK, TimedOut, Done, logs
<1>9. ASSUME NEW i \in Slots, Refuse(i) \/ Break(i) \/ Answer(i) \/ Forget(i)
      PROVE  TypeOK'
  <2>1. \A a \in {"failed", "ok"} : [req EXCEPT ![i].at = a] \in [Slots -> Requests]
    BY <1>1 DEF Requests
  <2>2. [req EXCEPT ![i] = NoRequest] \in [Slots -> Requests]
    BY <1>1, NewRequests
  <2>3. req' \in [Slots -> Requests]
    BY <1>9, <2>1, <2>2 DEF Refuse, Break, Answer, Forget
  <2>4. /\ trouble' \in Nat /\ UNCHANGED <<agentvars, history>>
        /\ got' \in Counts /\ missed' \in Counts /\ series' \subseteq Keys
    BY <1>1, <1>2, <1>9 DEF Refuse, Break, Answer, Forget, logs
  <2> QED
    BY <2>3, <2>4, RequestType
<1>10. ASSUME NEW i \in Slots, NEW k \in Keys, Skip(i, k) PROVE TypeOK'
  <2>1. req' \in [Slots -> Requests]
    BY <1>1, <1>10 DEF Skip, Handled, Requests
  <2>2. Only(req[i].items, {k}) \in Counts
    BY Types, OnlyCounts
  <2>3. missed' \in Counts
    BY <1>1, <1>10, <2>2, PlusCounts DEF Skip
  <2>4. /\ trouble' \in Nat /\ UNCHANGED <<agentvars, history>>
        /\ got' \in Counts /\ series' \subseteq Keys
    BY <1>1, <1>10 DEF Skip
  <2> QED
    BY <2>1, <2>3, <2>4, RequestType
<1>11. ASSUME NEW i \in Slots, NEW k \in Keys, Count(i, k) PROVE TypeOK'
  <2>1. req' \in [Slots -> Requests]
    BY <1>1, <1>11 DEF Count, Handled, Requests
  <2>2. PICK refused \in Refusals(k) :
          /\ got' = Plus(got, At(req[i].items, k, Buckets \ refused))
          /\ missed' = Plus(missed, At(req[i].items, k, refused))
          /\ series' \in {series, series \cup {k}}
    BY <1>11 DEF Count
  <2>3. \A B : At(req[i].items, k, B) \in Counts
    BY Types, AtCounts
  <2>4. got' \in Counts /\ missed' \in Counts
    BY <1>1, <2>2, <2>3, PlusCounts
  <2>5. trouble' \in Nat /\ UNCHANGED <<agentvars, history>>
    BY <1>1, <1>11 DEF Count
  <2> QED
    BY <1>1, <2>1, <2>2, <2>4, <2>5, RequestType
<1>12. ASSUME NEW k \in Keys, Gc(k) PROVE TypeOK'
  <2>1. /\ UNCHANGED <<agentvars, history>> /\ req' = req /\ trouble' = trouble
        /\ got' = got /\ missed' = missed /\ series' \subseteq Keys
    BY <1>1, <1>12 DEF Gc
  <2> QED
    BY <1>1, <2>1, RequestType
<1>13. CASE UNCHANGED vars
  BY <1>13 DEF TypeOK, vars, agentvars, history, logs
<1> QED
  BY <1>3, <1>4, <1>5, <1>6, <1>7, <1>8, <1>9, <1>10, <1>11, <1>12, <1>13
  DEF Next, Agent, Server, Handle

(***************************************************************************)
(* Every variable keeps its type: counts stay natural numbers, and a push  *)
(* is under way exactly when a slot is taken for it.                       *)
(***************************************************************************)
THEOREM TypeCorrect == Spec => []TypeOK
<1>1. Init => TypeOK
  BY InitType
<1>2. TypeOK /\ [Next]_vars => TypeOK'
  BY NextType
<1> QED
  BY <1>1, <1>2, PTL DEF Spec

-------------------------------------------------------------------------------
(* The inductive invariant.                                                *)

\* A request is answered when every item is counted.
OkIsApplied ==
  \A i \in Slots : req[i].at = "ok" => KeysOf(req[i].items) \subseteq req[i].applied

\* Until the agent gives up on a request the server works only on the one that
\* the agent waits for.
NoneLeftOver ==
  ~lost => \A i \in Slots : req[i].at = "server" => agent = "pushing" /\ slot = i

IInv == TypeOK /\ OkIsApplied /\ NoneLeftOver /\ AtLeastOnce /\ OnceWhileAnswered

\* Where the lines read of a key in a bucket are.
Placed(k, b) ==
  got[k][b] + missed[k][b] + counts[k][b] + Pending(k, b) + dropped[k][b]

LEMMA PendingType ==
  ASSUME TypeOK, NEW k \in Keys, NEW b \in Buckets
  PROVE  Pending(k, b) \in Nat /\ Placed(k, b) \in Nat
<1>1. agent = "pushing" => req[slot].items[k][b] \in Nat
  BY Types DEF Counts
<1> QED
  BY <1>1, Types DEF Pending, Placed

\* A step may only move lines, or count some of a request given up again.
LEMMA MovedLines ==
  ASSUME IInv, TypeOK', read' = read, lost => lost',
         \A k \in Keys, b \in Buckets :
           /\ Placed(k, b)' >= Placed(k, b)
           /\ ~lost' => Placed(k, b)' = Placed(k, b)
  PROVE  AtLeastOnce' /\ OnceWhileAnswered'
<1>1. \A k \in Keys, b \in Buckets :
        /\ Placed(k, b) \in Nat /\ Placed(k, b) >= read[k][b]
        /\ ~lost => Placed(k, b) = read[k][b]
        /\ read[k][b] \in Nat
  BY PendingType, Types DEF IInv, AtLeastOnce, OnceWhileAnswered, Placed
<1>2. \A k \in Keys, b \in Buckets : Placed(k, b)' \in Int
  <2> TAKE k \in Keys, b \in Buckets
  <2>1. /\ got' \in Counts /\ missed' \in Counts
        /\ counts' \in Counts /\ dropped' \in Counts
    BY DEF TypeOK
  <2>2. /\ got'[k][b] \in Nat /\ missed'[k][b] \in Nat
        /\ counts'[k][b] \in Nat /\ dropped'[k][b] \in Nat
    BY <2>1 DEF Counts
  <2>3. Pending(k, b)' \in Nat
    <3>1. agent' = "pushing" => slot' \in Slots
      BY DEF TypeOK
    <3>2. \A i \in Slots : req'[i].items[k][b] \in Nat
      BY DEF TypeOK, Counts
    <3> QED
      BY <3>1, <3>2 DEF Pending
  <2> QED
    BY <2>2, <2>3 DEF Placed
<1>3. ASSUME NEW k \in Keys, NEW b \in Buckets
      PROVE  /\ Placed(k, b)' >= read'[k][b]
             /\ ~lost' => Placed(k, b)' = read'[k][b]
  BY <1>1, <1>2
<1> QED
  BY <1>3 DEF AtLeastOnce, OnceWhileAnswered, Placed

LEMMA ReadInv ==
  ASSUME IInv, NEW k \in Keys, Read(k)
  PROVE  AtLeastOnce' /\ OnceWhileAnswered'
<1>1. TypeOK /\ bucket \in Buckets /\ counts \in Counts /\ read \in Counts
  BY Types DEF IInv, TypeOK
<1>2. \A j \in Keys, b \in Buckets :
        /\ counts'[j][b] = IF j = k /\ b = bucket THEN counts[j][b] + 1 ELSE counts[j][b]
        /\ read'[j][b] = IF j = k /\ b = bucket THEN read[j][b] + 1 ELSE read[j][b]
  BY <1>1 DEF Read, Counts
<1>3. \A j \in Keys, b \in Buckets :
        /\ Pending(j, b) = 0 /\ Pending(j, b)' = 0
        /\ got'[j][b] = got[j][b] /\ dropped'[j][b] = dropped[j][b]
        /\ missed'[j][b] = missed[j][b] /\ missed[j][b] \in Nat
        /\ got[j][b] \in Nat /\ dropped[j][b] \in Nat
        /\ counts[j][b] \in Nat /\ read[j][b] \in Nat
  BY <1>1, Types DEF Read, Pending, logs
<1>4. ASSUME NEW j \in Keys, NEW b \in Buckets
      PROVE  /\ Placed(j, b)' >= read'[j][b]
             /\ ~lost' => Placed(j, b)' = read'[j][b]
  <2>1. Placed(j, b) >= read[j][b] /\ (~lost => Placed(j, b) = read[j][b])
    BY DEF IInv, AtLeastOnce, OnceWhileAnswered, Placed
  <2>2. lost' = lost
    BY DEF Read
  <2> QED
    BY <1>2, <1>3, <2>1, <2>2 DEF Placed
<1> QED
  BY <1>4 DEF AtLeastOnce, OnceWhileAnswered, Placed

LEMMA PushInv ==
  ASSUME IInv, NEW last \in BOOLEAN, Push(last)
  PROVE  IInv'
<1>1. /\ TypeOK /\ TypeOK' /\ req \in [Slots -> Requests] /\ counts \in Counts
      /\ agent = "reading" /\ agent' = "pushing" /\ lost' = lost /\ read' = read
      /\ counts' = Nothing /\ got' = got /\ missed' = missed /\ dropped' = dropped
  BY NextType, Types DEF IInv, Push, Next, Agent, history, logs
<1>2. PICK i \in Slots : /\ req' = [req EXCEPT ![i] = Request(counts)]
                         /\ slot' = i
  BY DEF Push
<1>3. /\ req'[i].at = "server" /\ req'[i].items = counts /\ req'[i].applied = {}
      /\ \A j \in Slots : j # i => req'[j] = req[j]
  BY <1>1, <1>2, NewRequests
<1>4. OkIsApplied'
  BY <1>3 DEF IInv, OkIsApplied, KeysOf
<1>5. NoneLeftOver'
  BY <1>1, <1>2, <1>3 DEF IInv, NoneLeftOver
<1>6. ASSUME NEW k \in Keys, NEW b \in Buckets
      PROVE  Placed(k, b)' = Placed(k, b)
  <2>1. Pending(k, b) = 0 /\ Pending(k, b)' = counts[k][b]
    BY <1>1, <1>2, <1>3 DEF Pending
  <2>2. counts'[k][b] = 0
    BY <1>1, NothingCounts
  <2> QED
    BY <1>1, <2>1, <2>2, Types DEF Placed
<1>7. AtLeastOnce' /\ OnceWhileAnswered'
  BY <1>1, <1>6, PendingType, MovedLines
<1> QED
  BY <1>1, <1>4, <1>5, <1>7 DEF IInv

LEMMA AcceptedInv ==
  ASSUME IInv, Accepted
  PROVE  IInv'
<1>1. /\ TypeOK /\ TypeOK' /\ req \in [Slots -> Requests] /\ slot \in Slots
      /\ agent = "pushing" /\ agent' # "pushing" /\ lost' = lost /\ read' = read
      /\ counts' = counts /\ got' = got /\ missed' = missed /\ dropped' = dropped
      /\ req[slot].at = "ok" /\ req' = [req EXCEPT ![slot] = NoRequest]
  BY NextType, Types DEF IInv, Accepted, Done, Next, Agent, logs
<1>2. /\ req'[slot].at = "free"
      /\ \A j \in Slots : j # slot => req'[j] = req[j]
  BY <1>1, NewRequests
<1>3. OkIsApplied' /\ NoneLeftOver'
  BY <1>1, <1>2 DEF IInv, OkIsApplied, NoneLeftOver, KeysOf
<1>4. ASSUME NEW k \in Keys, NEW b \in Buckets
      PROVE  Placed(k, b)' = Placed(k, b)
  <2>1. Pending(k, b) = 0
    <3>1. KeysOf(req[slot].items) \subseteq req[slot].applied
      BY <1>1 DEF IInv, OkIsApplied
    <3>2. k \notin req[slot].applied => req[slot].items[k][b] = 0
      BY <1>1, <3>1, NoCount, Types
    <3> QED
      BY <3>2 DEF Pending
  <2>2. Pending(k, b)' = 0
    BY <1>1 DEF Pending
  <2> QED
    BY <1>1, <2>1, <2>2 DEF Placed
<1>5. AtLeastOnce' /\ OnceWhileAnswered'
  BY <1>1, <1>4, PendingType, MovedLines
<1> QED
  BY <1>1, <1>3, <1>5 DEF IInv

\* The payload of a push that failed or timed out goes back.
LEMMA PayloadBack ==
  ASSUME IInv, TypeOK', agent = "pushing", agent' # "pushing", slot \in Slots,
         PutBack(req[slot].items), got' = got, missed' = missed, read' = read, lost => lost',
         ~lost' => req[slot].applied = {}
  PROVE  AtLeastOnce' /\ OnceWhileAnswered'
<1>1. /\ TypeOK /\ req[slot].items \in Counts
  BY Types DEF IInv
<1>2. ASSUME NEW k \in Keys, NEW b \in Buckets
      PROVE  /\ Placed(k, b)' >= Placed(k, b)
             /\ ~lost' => Placed(k, b)' = Placed(k, b)
  <2>1. /\ counts' \in Counts /\ dropped' \in Counts
        /\ counts'[k][b] + dropped'[k][b]
             = counts[k][b] + dropped[k][b] + req[slot].items[k][b]
    BY <1>1, PutBackAll
  <2>2. /\ counts'[k][b] \in Nat /\ dropped'[k][b] \in Nat
        /\ req[slot].items[k][b] \in Nat
    BY <1>1, <2>1 DEF Counts
  <2>3. /\ Pending(k, b)' = 0 /\ got'[k][b] = got[k][b] /\ missed'[k][b] = missed[k][b]
        /\ Pending(k, b) = IF k \notin req[slot].applied
                           THEN req[slot].items[k][b] ELSE 0
    BY DEF Pending
  <2>4. /\ got[k][b] \in Nat /\ missed[k][b] \in Nat
        /\ counts[k][b] \in Nat /\ dropped[k][b] \in Nat
    BY <1>1, Types
  <2> QED
    BY <2>1, <2>2, <2>3, <2>4 DEF Placed
<1> QED
  BY <1>2, MovedLines

LEMMA RejectedInv ==
  ASSUME IInv, Rejected
  PROVE  IInv'
<1>1. /\ TypeOK /\ TypeOK' /\ req \in [Slots -> Requests] /\ slot \in Slots
      /\ agent = "pushing" /\ agent' # "pushing" /\ read' = read
      /\ got' = got /\ missed' = missed
      /\ PutBack(req[slot].items) /\ req' = [req EXCEPT ![slot] = NoRequest]
      /\ lost' = (lost \/ req[slot].applied # {})
  BY NextType, Types DEF IInv, Rejected, Done, Next, Agent, logs
<1>2. /\ req'[slot].at = "free"
      /\ \A j \in Slots : j # slot => req'[j] = req[j]
  BY <1>1, NewRequests
<1>3. OkIsApplied' /\ NoneLeftOver'
  BY <1>1, <1>2 DEF IInv, OkIsApplied, NoneLeftOver, KeysOf
<1>4. AtLeastOnce' /\ OnceWhileAnswered'
  BY <1>1, PayloadBack
<1> QED
  BY <1>1, <1>3, <1>4 DEF IInv

LEMMA TimedOutInv ==
  ASSUME IInv, TimedOut
  PROVE  IInv'
<1>1. /\ TypeOK /\ TypeOK' /\ slot \in Slots /\ req' = req
      /\ agent = "pushing" /\ agent' # "pushing" /\ read' = read
      /\ got' = got /\ missed' = missed
      /\ PutBack(req[slot].items) /\ lost'
  BY NextType, Types DEF IInv, TimedOut, Done, Next, Agent, logs
<1>2. OkIsApplied' /\ NoneLeftOver'
  BY <1>1 DEF IInv, OkIsApplied, NoneLeftOver, KeysOf
<1>3. AtLeastOnce' /\ OnceWhileAnswered'
  BY <1>1, PayloadBack
<1> QED
  BY <1>1, <1>2, <1>3 DEF IInv

\* An item is handled when its lines are counted or missed, all of them.
LEMMA HandledItem ==
  ASSUME TypeOK, NEW i \in Slots, NEW j \in Keys, Skip(i, j) \/ Count(i, j)
  PROVE  /\ req[i].at = "server" /\ j \notin req[i].applied /\ Handled(i, j)
         /\ UNCHANGED <<agentvars, history>>
         /\ \A k \in Keys, b \in Buckets :
              got'[k][b] + missed'[k][b]
                = got[k][b] + missed[k][b]
                    + (IF k = j THEN req[i].items[k][b] ELSE 0)
<1>1. got \in Counts /\ missed \in Counts /\ req[i].items \in Counts
  BY Types
<1>2. \A k \in Keys, b \in Buckets :
        /\ got[k][b] \in Nat /\ missed[k][b] \in Nat /\ req[i].items[k][b] \in Nat
  BY <1>1 DEF Counts
<1>3. CASE Skip(i, j)
  <2>1. /\ got' = got /\ missed' = Plus(missed, Only(req[i].items, {j}))
        /\ req[i].at = "server" /\ j \notin req[i].applied /\ Handled(i, j)
        /\ UNCHANGED <<agentvars, history>>
    BY <1>3 DEF Skip
  <2>2. ASSUME NEW k \in Keys, NEW b \in Buckets
        PROVE  missed'[k][b]
                 = missed[k][b] + (IF k = j THEN req[i].items[k][b] ELSE 0)
    <3>1. /\ Only(req[i].items, {j}) \in Counts
          /\ Only(req[i].items, {j})[k][b] = IF k = j THEN req[i].items[k][b] ELSE 0
      BY <1>1, OnlyCounts
    <3> QED
      BY <1>1, <2>1, <3>1, PlusCounts
  <2>3. ASSUME NEW k \in Keys, NEW b \in Buckets
        PROVE  got'[k][b] + missed'[k][b]
                 = got[k][b] + missed[k][b]
                     + (IF k = j THEN req[i].items[k][b] ELSE 0)
    <3>1. got'[k][b] = got[k][b]
      BY <2>1
    <3> QED
      BY <1>2, <2>2, <3>1
  <2> QED
    BY <2>1, <2>3
<1>4. CASE Count(i, j)
  <2>1. /\ req[i].at = "server" /\ j \notin req[i].applied /\ Handled(i, j)
        /\ UNCHANGED <<agentvars, history>>
    BY <1>4 DEF Count
  <2>2. PICK refused :
          /\ got' = Plus(got, At(req[i].items, j, Buckets \ refused))
          /\ missed' = Plus(missed, At(req[i].items, j, refused))
    BY <1>4 DEF Count
  <2>3. ASSUME NEW k \in Keys, NEW b \in Buckets
        PROVE  got'[k][b] + missed'[k][b]
                 = got[k][b] + missed[k][b]
                     + (IF k = j THEN req[i].items[k][b] ELSE 0)
    <3> DEFINE in == At(req[i].items, j, Buckets \ refused)
               out == At(req[i].items, j, refused)
    <3>1. /\ in \in Counts /\ out \in Counts
          /\ in[k][b] = IF k = j /\ b \notin refused THEN req[i].items[k][b] ELSE 0
          /\ out[k][b] = IF k = j /\ b \in refused THEN req[i].items[k][b] ELSE 0
      BY <1>1, AtCounts
    <3> HIDE DEF in, out
    <3>2. /\ got'[k][b] = got[k][b] + in[k][b]
          /\ missed'[k][b] = missed[k][b] + out[k][b]
      BY <1>1, <2>2, <3>1, PlusCounts DEF in, out
    <3> QED
      BY <1>2, <3>1, <3>2
  <2> QED
    BY <2>1, <2>3
<1> QED
  BY <1>3, <1>4

\* One item is handled: of the push under way it is not pending any more, of a
\* request given up it is handled once more.
LEMMA HandledInv ==
  ASSUME IInv, NEW i \in Slots, NEW j \in Keys, Skip(i, j) \/ Count(i, j)
  PROVE  IInv'
<1>1. /\ TypeOK /\ TypeOK' /\ req \in [Slots -> Requests]
      /\ req[i] \in Requests /\ req[i].items \in Counts
      /\ req[i].at = "server" /\ j \notin req[i].applied
      /\ req' = [req EXCEPT ![i].applied = @ \cup {j}]
      /\ UNCHANGED <<agentvars, history>>
  BY NextType, Types, HandledItem DEF IInv, Handled, Next, Server, Handle
<1>2. /\ req'[i].at = req[i].at /\ req'[i].items = req[i].items
      /\ req'[i].applied = req[i].applied \cup {j}
      /\ \A n \in Slots : n # i => req'[n] = req[n]
  BY <1>1 DEF Requests
<1>3. /\ agent' = agent /\ slot' = slot /\ counts' = counts
      /\ read' = read /\ dropped' = dropped /\ lost' = lost
  BY <1>1 DEF agentvars, history
<1>4. OkIsApplied' /\ NoneLeftOver'
  BY <1>1, <1>2, <1>3 DEF IInv, OkIsApplied, NoneLeftOver, KeysOf
<1>5. ASSUME NEW k \in Keys, NEW b \in Buckets
      PROVE  /\ Placed(k, b)' >= Placed(k, b)
             /\ ~lost' => Placed(k, b)' = Placed(k, b)
  <2>1. got'[k][b] + missed'[k][b]
          = got[k][b] + missed[k][b] + (IF k = j THEN req[i].items[k][b] ELSE 0)
    BY <1>1, HandledItem
  <2>2. /\ got[k][b] \in Nat /\ missed[k][b] \in Nat
        /\ counts[k][b] \in Nat /\ dropped[k][b] \in Nat
        /\ req[i].items[k][b] \in Nat
        /\ got'[k][b] \in Nat /\ missed'[k][b] \in Nat
    BY <1>1, Types DEF Counts, TypeOK
  <2>3. CASE agent = "pushing" /\ slot = i
    <3>1. /\ Pending(k, b) = IF k \notin req[i].applied THEN req[i].items[k][b] ELSE 0
          /\ Pending(k, b)' = IF k \notin req[i].applied /\ k # j
                              THEN req[i].items[k][b] ELSE 0
      BY <1>2, <1>3, <2>3 DEF Pending
    <3> QED
      BY <1>1, <1>3, <2>1, <2>2, <3>1 DEF Placed
  <2>4. CASE ~(agent = "pushing" /\ slot = i)
    <3>1. lost
      BY <1>1, <2>4 DEF IInv, NoneLeftOver
    <3>2. Pending(k, b)' = Pending(k, b) /\ Pending(k, b) \in Nat
      BY <1>1, <1>2, <1>3, <2>4, PendingType, Types DEF Pending
    <3> QED
      BY <1>3, <2>1, <2>2, <3>1, <3>2 DEF Placed
  <2> QED
    BY <2>3, <2>4
<1>6. AtLeastOnce' /\ OnceWhileAnswered'
  BY <1>1, <1>3, <1>5, MovedLines
<1> QED
  BY <1>1, <1>4, <1>6 DEF IInv

\* The server settles or forgets a request.
LEMMA SettleInv ==
  ASSUME IInv, NEW i \in Slots, Refuse(i) \/ Break(i) \/ Answer(i) \/ Forget(i)
  PROVE  IInv'
<1>1. /\ TypeOK /\ TypeOK' /\ req \in [Slots -> Requests]
      /\ agent' = agent /\ slot' = slot /\ counts' = counts
      /\ got' = got /\ missed' = missed
      /\ read' = read /\ dropped' = dropped /\ lost' = lost
  BY NextType, Types
  DEF IInv, Refuse, Break, Answer, Forget, Next, Server, Handle, agentvars, history,
      logs
<1>2. /\ \A n \in Slots : n # i => req'[n] = req[n]
      /\ req'[i].at # "server"
  BY <1>1, NewRequests DEF Refuse, Break, Answer, Forget, Requests
<1>3. /\ agent = "pushing" /\ slot = i => /\ req'[i].items = req[i].items
                                          /\ req'[i].applied = req[i].applied
      /\ req'[i].at = "ok" => KeysOf(req'[i].items) \subseteq req'[i].applied
  BY <1>1, NewRequests DEF Refuse, Break, Answer, Forget, Requests
<1>4. OkIsApplied' /\ NoneLeftOver'
  BY <1>1, <1>2, <1>3 DEF IInv, OkIsApplied, NoneLeftOver, KeysOf
<1>5. ASSUME NEW k \in Keys, NEW b \in Buckets
      PROVE  Placed(k, b)' = Placed(k, b)
  <2>1. Pending(k, b)' = Pending(k, b)
    BY <1>1, <1>2, <1>3, Types DEF Pending
  <2> QED
    BY <1>1, <2>1 DEF Placed
<1>6. AtLeastOnce' /\ OnceWhileAnswered'
  BY <1>1, <1>5, PendingType, MovedLines
<1> QED
  BY <1>1, <1>4, <1>6 DEF IInv

LEMMA InitInv == Init => IInv
<1> SUFFICES ASSUME Init PROVE IInv
  OBVIOUS
<1>1. TypeOK
  BY InitType
<1>2. /\ \A i \in Slots : req[i] = NoRequest
      /\ agent = "reading" /\ counts = Nothing
      /\ got = Nothing /\ missed = Nothing
      /\ dropped = Nothing /\ read = Nothing
  BY DEF Init
<1>3. OkIsApplied /\ NoneLeftOver
  BY <1>2, NewRequests DEF OkIsApplied, NoneLeftOver
<1>4. ASSUME NEW k \in Keys, NEW b \in Buckets
      PROVE  Placed(k, b) = 0 /\ read[k][b] = 0
  <2>1. Pending(k, b) = 0
    BY <1>2 DEF Pending
  <2> QED
    BY <1>2, <2>1, NothingCounts DEF Placed
<1>5. AtLeastOnce /\ OnceWhileAnswered
  BY <1>4 DEF AtLeastOnce, OnceWhileAnswered, Placed
<1> QED
  BY <1>1, <1>3, <1>5 DEF IInv

LEMMA NextInv == IInv /\ [Next]_vars => IInv'
<1> SUFFICES ASSUME IInv, [Next]_vars PROVE IInv'
  OBVIOUS
<1>1. TypeOK /\ TypeOK'
  BY NextType DEF IInv
<1>2. ASSUME NEW k \in Keys, Read(k) PROVE IInv'
  <2>1. AtLeastOnce' /\ OnceWhileAnswered'
    BY <1>2, ReadInv
  <2>2. OkIsApplied' /\ NoneLeftOver'
    BY <1>2 DEF IInv, OkIsApplied, NoneLeftOver, Read, KeysOf
  <2> QED
    BY <1>1, <2>1, <2>2 DEF IInv
<1>3. ASSUME NextBucket \/ (\E k \in Keys : Gc(k)) \/ UNCHANGED vars PROVE IInv'
  <2>1. /\ agent' = agent /\ slot' = slot /\ counts' = counts
        /\ got' = got /\ missed' = missed
        /\ read' = read /\ dropped' = dropped /\ lost' = lost /\ req' = req
    BY <1>3 DEF NextBucket, Gc, vars, agentvars, history, logs
  <2>2. OkIsApplied' /\ NoneLeftOver' /\ AtLeastOnce' /\ OnceWhileAnswered'
    BY <2>1 DEF IInv, OkIsApplied, NoneLeftOver, AtLeastOnce, OnceWhileAnswered,
                Pending, KeysOf
  <2> QED
    BY <1>1, <2>2 DEF IInv
<1>4. ASSUME NEW last \in BOOLEAN, Push(last) PROVE IInv'
  BY <1>4, PushInv
<1>5. CASE Accepted
  BY <1>5, AcceptedInv
<1>6. CASE Rejected
  BY <1>6, RejectedInv
<1>7. CASE TimedOut
  BY <1>7, TimedOutInv
<1>8. ASSUME NEW i \in Slots, NEW k \in Keys, Skip(i, k) \/ Count(i, k)
      PROVE  IInv'
  BY <1>8, HandledInv
<1>9. ASSUME NEW i \in Slots, Refuse(i) \/ Break(i) \/ Answer(i) \/ Forget(i)
      PROVE  IInv'
  BY <1>9, SettleInv
<1> QED
  BY <1>2, <1>3, <1>4, <1>5, <1>6, <1>7, <1>8, <1>9
  DEF Next, Agent, Server, Handle

LEMMA Invariant == Spec => []IInv
<1>1. Init => IInv
  BY InitInv
<1>2. IInv /\ [Next]_vars => IInv'
  BY NextInv
<1> QED
  BY <1>1, <1>2, PTL DEF Spec

(***************************************************************************)
(* Every line the agent read is handled by the server at least once, waits *)
(* to be pushed or was dropped for want of room in the backlog, with any   *)
(* number of keys, buckets, requests under way and failures; a handled     *)
(* line is counted, or missed for its empty template or a full log store.  *)
(***************************************************************************)
THEOREM HandledAtLeastOnce == Spec => []AtLeastOnce
<1>1. IInv => AtLeastOnce
  BY DEF IInv
<1> QED
  BY <1>1, Invariant, PTL

(***************************************************************************)
(* As long as the agent never gave up on a request that reached the        *)
(* server, every line is counted, missed by the server, waits or was       *)
(* dropped exactly once.                                                   *)
(***************************************************************************)
THEOREM HandledOnceWhileAnswered == Spec => []OnceWhileAnswered
<1>1. IInv => OnceWhileAnswered
  BY DEF IInv
<1> QED
  BY <1>1, Invariant, PTL

===============================================================================
