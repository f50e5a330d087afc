------------------------------ MODULE AgentPush ------------------------------
(***************************************************************************)
(* How the lines an agent counted reach the server: the counts and their   *)
(* backlog (merge, push and post of internal/agent/agent.go) against       *)
(* handlePush (internal/server/ingest.go), over HTTP requests that may be  *)
(* refused, break off half-way, or outlive the agent's patience.           *)
(*                                                                         *)
(* One goroutine of the agent reads and pushes, so no line is counted      *)
(* while a push waits.  The server handles each request item by item, in   *)
(* its own goroutine, and goes on when the agent has given up.  It answers *)
(* with success although it counts nothing for an empty template, or for a *)
(* series that a full log store refuses.  The clock of the agent is not    *)
(* ahead of the server's by more than maxFuture, or the server would skip  *)
(* its counts too.                                                         *)
(***************************************************************************)
EXTENDS Integers, FiniteSets

CONSTANTS
  Keys,        \* count keys: template and level of a service
  Blank,       \* those with an empty template: lines without a token
  Buckets,     \* times the agent counts at, in order
  MaxBacklog,  \* --max-backlog
  Slots,       \* bound: requests under way, abandoned ones included
  MaxLines,    \* bound: lines read of a key in a bucket
  MaxTrouble   \* bound: requests that fail or time out

ASSUME BlankAssumption == Blank \subseteq Keys
ASSUME BucketsAssumption == Buckets \subseteq Nat /\ Buckets # {}
ASSUME BoundsAssumption == /\ MaxBacklog \in Nat
                           /\ Slots \subseteq Nat \ {0}
                           /\ MaxLines \in Nat /\ MaxTrouble \in Nat

VARIABLES
  agent,    \* "reading", "pushing" or "stopped"
  closing,  \* the push under way is the last one
  bucket,   \* the bucket the agent counts in
  counts,   \* counts[k][b]: lines not pushed yet
  slot,     \* the request of the push under way, 0 without one
  req,      \* req[i]: a request
  series,   \* keys whose template series is in the log store
  got,      \* history: got[k][b]: lines the server added to that series
  missed,   \* history: lines of handled items that it did not add
  read,     \* history: lines the agent read
  dropped,  \* history: lines dropped because the backlog was full
  lost,     \* history: the agent gave up on a request that reached the server
  trouble   \* failed or timed out requests so far

agentvars == <<agent, closing, bucket, counts, slot>>
logs == <<series, got, missed>>
history == <<read, dropped, lost>>
vars == <<agentvars, req, logs, history, trouble>>

Nothing == [k \in Keys |-> [b \in Buckets |-> 0]]
Plus(c, d) == [k \in Keys |-> [b \in Buckets |-> c[k][b] + d[k][b]]]
Only(c, K) == [k \in Keys |-> IF k \in K THEN c[k] ELSE Nothing[k]]
KeysOf(c) == {k \in Keys : \E b \in Buckets : c[k][b] > 0}

NoRequest == [at |-> "free", items |-> Nothing, applied |-> {}]
Request(items) == [at |-> "server", items |-> items, applied |-> {}]

-------------------------------------------------------------------------------
(* The agent.                                                              *)

\* merge, for one line.
Read(k) ==
  /\ agent = "reading" /\ read[k][bucket] < MaxLines
  /\ counts' = [counts EXCEPT ![k][bucket] = @ + 1]
  /\ read' = [read EXCEPT ![k][bucket] = @ + 1]
  /\ UNCHANGED <<agent, closing, bucket, slot, req, logs, dropped, lost,
                 trouble>>

NextBucket ==
  /\ bucket + 1 \in Buckets
  /\ bucket' = bucket + 1
  /\ UNCHANGED <<agent, closing, counts, slot, req, logs, history, trouble>>

\* Slots are alike: a request takes the first free one.
FreeSlot(i) == req[i].at = "free" /\ \A j \in Slots : j < i => req[j].at # "free"

\* Mutant: the counts are sent but not cleared.
PushKeeps(last) ==
  /\ agent = "reading"
  /\ \E i \in Slots :
       /\ FreeSlot(i)
       /\ req' = [req EXCEPT ![i] = Request(counts)]
       /\ slot' = i
  /\ agent' = "pushing" /\ closing' = last
  /\ UNCHANGED <<bucket, counts, logs, history, trouble>>

\* Take the counts and post them, without any when it is only a heartbeat; the
\* last time when the agent is asked to stop.
Push(last) ==
  /\ agent = "reading"
  /\ \E i \in Slots :
       /\ FreeSlot(i)
       /\ req' = [req EXCEPT ![i] = Request(counts)]
       /\ slot' = i
  /\ agent' = "pushing" /\ closing' = last
  /\ counts' = Nothing
  /\ UNCHANGED <<bucket, logs, history, trouble>>

\* Mutant: the connection of an answered push is not given back.
DoneHolds == /\ agent' = IF closing THEN "stopped" ELSE "reading"
             /\ slot' = slot

Done == /\ agent' = IF closing THEN "stopped" ELSE "reading"
        /\ slot' = 0

\* The post was answered with 204.
Accepted ==
  /\ agent = "pushing" /\ req[slot].at = "ok"
  /\ req' = [req EXCEPT ![slot] = NoRequest]
  /\ Done
  /\ UNCHANGED <<closing, bucket, counts, logs, read, dropped, lost, trouble>>

\* Keys that are counted already take their counts back, new ones while there
\* is room, in the order of a map iteration.
PutBack(items) ==
  LET new  == KeysOf(items) \ KeysOf(counts)
      room == IF MaxBacklog > Cardinality(KeysOf(counts))
              THEN MaxBacklog - Cardinality(KeysOf(counts)) ELSE 0
  IN  \E keep \in SUBSET new :
        /\ Cardinality(keep) = IF Cardinality(new) <= room
                               THEN Cardinality(new) ELSE room
        /\ counts' = Plus(counts, Only(items, keep \cup KeysOf(counts)))
        /\ dropped' = Plus(dropped, Only(items, new \ keep))

\* Mutant: a rejected payload is given up.
RejectedForgets ==
  /\ agent = "pushing" /\ req[slot].at = "failed"
  /\ req' = [req EXCEPT ![slot] = NoRequest]
  /\ lost' = (lost \/ req[slot].applied # {})
  /\ Done
  /\ UNCHANGED <<closing, bucket, counts, logs, read, dropped, trouble>>

Rejected ==
  /\ agent = "pushing" /\ req[slot].at = "failed"
  /\ PutBack(req[slot].items)
  /\ req' = [req EXCEPT ![slot] = NoRequest]
  /\ lost' = (lost \/ req[slot].applied # {})
  /\ Done
  /\ UNCHANGED <<closing, bucket, logs, read, trouble>>

Trouble == trouble < MaxTrouble /\ trouble' = trouble + 1

\* No answer in time, or it is lost: the server may still be at work.
TimedOut ==
  /\ agent = "pushing" /\ req[slot].at \in {"server", "ok"}
  /\ Trouble
  /\ PutBack(req[slot].items)
  /\ lost' = TRUE
  /\ Done
  /\ UNCHANGED <<closing, bucket, req, logs, read>>

-------------------------------------------------------------------------------
(* The server.                                                             *)

\* The service is down, the payload does not decode, or the agent's step does
\* not divide the server's: nothing is counted.
Refuse(i) ==
  /\ req[i].at = "server" /\ req[i].applied = {}
  /\ Trouble
  /\ req' = [req EXCEPT ![i].at = "failed"]
  /\ UNCHANGED <<agentvars, logs, history>>

Handled(i, k) == req' = [req EXCEPT ![i].applied = @ \cup {k}]

\* An item with an empty template: the handler goes on to the next one.
Skip(i, k) ==
  /\ req[i].at = "server" /\ k \in KeysOf(req[i].items) \ req[i].applied
  /\ k \in Blank
  /\ missed' = Plus(missed, Only(req[i].items, {k}))
  /\ Handled(i, k)
  /\ UNCHANGED <<agentvars, series, got, history, trouble>>

\* Its counts at the times in B.
At(c, k, B) ==
  [j \in Keys |-> [b \in Buckets |-> IF j = k /\ b \in B THEN c[j][b] ELSE 0]]

\* The counts of an item go oldest first.  Those that a store full of other
\* series refuses, until room is made, are a beginning of them; a series that
\* is there takes all.
Refusals(k) ==
  IF k \in series THEN {{}}
  ELSE {B \in SUBSET Buckets : \A b \in B, c \in Buckets : c < b => c \in B}

\* One item: globalTemplate, then addLog for each of its counts.  Keys that
\* differ in level only share a series in the code; the volume series is filled
\* in the same way.
Count(i, k) ==
  /\ req[i].at = "server" /\ k \in KeysOf(req[i].items) \ req[i].applied
  /\ k \notin Blank
  /\ \E refused \in Refusals(k) :
       /\ got' = Plus(got, At(req[i].items, k, Buckets \ refused))
       /\ missed' = Plus(missed, At(req[i].items, k, refused))
       /\ series' = IF \E b \in Buckets \ refused : req[i].items[k][b] > 0
                    THEN series \cup {k} ELSE series
  /\ Handled(i, k)
  /\ UNCHANGED <<agentvars, history, trouble>>

\* gc deletes a series that had no line for a season (here a bucket).
Gc(k) ==
  /\ k \in series /\ \A b \in Buckets : got[k][b] > 0 => b < bucket
  /\ series' = series \ {k}
  /\ UNCHANGED <<agentvars, req, got, missed, history, trouble>>

\* The server goes down between two items.  What it counted since its last
\* snapshot is the subject of Snapshots.
Break(i) ==
  /\ req[i].at = "server" /\ req[i].applied # {}
  /\ Trouble
  /\ req' = [req EXCEPT ![i].at = "failed"]
  /\ UNCHANGED <<agentvars, logs, history>>

\* Mutant: the request is answered before it is handled.
AnswerEarly(i) ==
  /\ req[i].at = "server"
  /\ req' = [req EXCEPT ![i].at = "ok"]
  /\ UNCHANGED <<agentvars, logs, history, trouble>>

Answer(i) ==
  /\ req[i].at = "server" /\ KeysOf(req[i].items) \subseteq req[i].applied
  /\ req' = [req EXCEPT ![i].at = "ok"]
  /\ UNCHANGED <<agentvars, logs, history, trouble>>

\* The answer to a request that the agent gave up on goes nowhere.
Forget(i) ==
  /\ req[i].at \in {"ok", "failed"} /\ ~(agent = "pushing" /\ slot = i)
  /\ req' = [req EXCEPT ![i] = NoRequest]
  /\ UNCHANGED <<agentvars, logs, history, trouble>>

Handle(i) == (\E k \in Keys : Skip(i, k) \/ Count(i, k)) \/ Answer(i) \/ Forget(i)

-------------------------------------------------------------------------------

Init ==
  /\ agent = "reading" /\ closing = FALSE
  /\ bucket = CHOOSE b \in Buckets : \A c \in Buckets : b <= c
  /\ counts = Nothing
  /\ slot = 0
  /\ req = [i \in Slots |-> NoRequest]
  /\ series = {} /\ got = Nothing /\ missed = Nothing
  /\ read = Nothing /\ dropped = Nothing
  /\ lost = FALSE
  /\ trouble = 0

Agent == \/ \E k \in Keys : Read(k)
         \/ NextBucket
         \/ \E last \in BOOLEAN : Push(last)
         \/ Accepted \/ Rejected \/ TimedOut

Server == \/ \E i \in Slots : Handle(i) \/ Refuse(i) \/ Break(i)
          \/ \E k \in Keys : Gc(k)

Next == Agent \/ Server

Spec == Init /\ [][Next]_vars

\* The flush ticker calls push, push returns with its answer, and a server that
\* is up handles what it received.
FairSpec == /\ Spec
            /\ WF_vars(Push(FALSE))
            /\ WF_vars(Accepted) /\ WF_vars(Rejected)
            /\ \A i \in Slots : WF_vars(Handle(i))

-------------------------------------------------------------------------------
(* Correctness.                                                            *)

Counts == [Keys -> [Buckets -> Nat]]

TypeOK ==
  /\ agent \in {"reading", "pushing", "stopped"} /\ closing \in BOOLEAN
  /\ bucket \in Buckets /\ slot \in Slots \cup {0}
  /\ agent = "pushing" <=> slot # 0
  /\ series \subseteq Keys /\ got \in Counts /\ missed \in Counts
  /\ counts \in Counts /\ read \in Counts /\ dropped \in Counts
  /\ req \in [Slots -> [at : {"free", "server", "ok", "failed"},
                        items : Counts, applied : SUBSET Keys]]
  /\ lost \in BOOLEAN /\ trouble \in Nat

\* Lines of the push under way that the server has not handled.
Pending(k, b) ==
  IF agent = "pushing" /\ k \notin req[slot].applied
  THEN req[slot].items[k][b] ELSE 0

(***************************************************************************)
(* Every line is handled by the server at least once, waits to be pushed,  *)
(* or was dropped because the backlog was full, whatever requests fail,    *)
(* break off or are given up (agent.go:372-431).  Handled is counted,      *)
(* unless its template is empty (ingest.go:359) or its series new to a     *)
(* full log store (ingest.go:474).                                         *)
(***************************************************************************)
AtLeastOnce ==
  \A k \in Keys, b \in Buckets :
    got[k][b] + missed[k][b] + counts[k][b] + Pending(k, b) + dropped[k][b]
      >= read[k][b]

(***************************************************************************)
(* A line is handled twice only when a push reached the server and its     *)
(* answer did not reach the agent; else it is in exactly one place:        *)
(* counted, missed by the server, waiting, or dropped.                     *)
(***************************************************************************)
OnceWhileAnswered ==
  ~lost =>
    \A k \in Keys, b \in Buckets :
      got[k][b] + missed[k][b] + counts[k][b] + Pending(k, b) + dropped[k][b]
        = read[k][b]

(***************************************************************************)
(* When requests stop failing, again and again every line read so far is   *)
(* counted by the server, or one of the lines it misses or of those        *)
(* reported as dropped, unless the agent is stopped first                  *)
(* (README.md:418-422, agent.go:372-431).                                  *)
(***************************************************************************)
Delivered ==
  []<>(agent = "stopped" \/ \A k \in Keys, b \in Buckets :
                              got[k][b] + missed[k][b] + dropped[k][b] >= read[k][b])

===============================================================================
