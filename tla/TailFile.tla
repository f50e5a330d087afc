------------------------------- MODULE TailFile -------------------------------
(***************************************************************************)
(* How an agent turns the bytes of a log file into lines: scan, open,      *)
(* pollAll, read and line of internal/agent/agent.go, for one path,        *)
(* against a container runtime that appends, rotates, truncates and        *)
(* removes the file behind it.                                             *)
(*                                                                         *)
(* A file is written in pieces.  A piece is the end of a physical line     *)
(* ("full"), of a physical line whose envelope says that more follows      *)
(* ("chunk", for the lines a runtime splits), or stops inside a line       *)
(* ("torn", what a poll sees of a line under way).  Chunks of stdout and   *)
(* stderr interleave.  Truncating a file starts a new generation of it, so *)
(* texts only grow; file and generation are numbers.                       *)
(*                                                                         *)
(* A poll reads piece by piece, then asks for the state of the path, then  *)
(* may finish a rotated file: the runtime works on between any two steps.  *)
(* Lines beyond 1 MiB, which are counted early, and empty ones are left    *)
(* out.                                                                    *)
(***************************************************************************)
EXTENDS Integers, Sequences, Functions

CONSTANTS
  Streams,    \* stdout and stderr
  Limit,      \* pieces a read consumes at most, 8 MiB in the code
  MaxPieces,  \* bound: pieces written
  MaxGens     \* bound: files and truncations

ASSUME TailAssumption == {Limit, MaxPieces, MaxGens} \subseteq Nat \ {0}

None == 0    \* no file

VARIABLES
  log,      \* log[g]: the file a generation belongs to, and its text
  path,     \* the file at the path
  writer,   \* the file the runtime has open
  pen,      \* how many pieces it wrote, the streams whose line or message is open
  tf,       \* the agent's tailFile
  poll,     \* "idle", or pollAll is at "read", "stat" or, a second read, "finish"
  total,    \* pieces consumed by the read under way
  skip,     \* history: the length of the text at start-up that is not read
  counted   \* history: the lines counted, each the places of its pieces

files == <<log, path, writer, pen>>
vars == <<files, tf, poll, total, skip, counted>>

-------------------------------------------------------------------------------
(* Files.                                                                  *)

Ends == {"torn", "chunk", "full"}
Piece(s, end, cont, first) ==
  [stream |-> s, end |-> end,
   cont |-> cont,     \* the physical line began in an earlier piece
   first |-> first]   \* no chunk of the message came before

Latest == Len(log)
Generation(f) == CHOOSE g \in DOMAIN log :
                   log[g].file = f /\ \A h \in DOMAIN log : log[h].file = f => h <= g
Text(f) == log[Generation(f)].text
NewFile == log[Latest].file + 1

-------------------------------------------------------------------------------
(* The agent.                                                              *)

NoTail == [file |-> None, live |-> FALSE, off |-> 0, partial |-> <<>>,
           cpart |-> [s \in Streams |-> <<>>], gone |-> "no"]

\* open: a fresh handle, nothing buffered.
Opened(f, off) == [NoTail EXCEPT !.file = f, !.live = TRUE, !.off = off]

\* Mutant: chunks of the old file are not dropped.
RewoundKeepsChunks(t) == [t EXCEPT !.off = 0, !.partial = <<>>]

\* Truncated in place: seek to the start, drop what is buffered.
Rewound(t) == [t EXCEPT !.off = 0, !.partial = <<>>, !.cpart = NoTail.cpart]

At(place) == log[place[1]].text[place[2]]

\* The place <<generation, index>> of the next piece.
NextPlace == <<Generation(tf.file), tf.off + 1>>

\* Pieces between the offset and the end; fewer than none after a truncation.
Unread == IF tf.live THEN Len(Text(tf.file)) - tf.off ELSE 0
CanRead == Unread > 0 /\ total < Limit

\* Mutant: the offset moves on by the size of the buffer.
MovesByBuffer == Limit

\* Mutant: a read that hits its limit takes its last piece again.
MovesShort == IF total + 1 = Limit THEN 0 ELSE 1

MovesBy == 1

\* The line goes on in the next piece.
Torn(places) ==
  /\ tf' = [tf EXCEPT !.off = @ + MovesBy, !.partial = places]
  /\ UNCHANGED counted

\* line: a chunk waits for the rest of its message.
Chunk(places, s) ==
  /\ tf' = [tf EXCEPT !.off = @ + MovesBy, !.partial = <<>>, !.cpart[s] = @ \o places]
  /\ UNCHANGED counted

\* line: the end of a message.
Full(places, s) ==
  /\ tf' = [tf EXCEPT !.off = @ + MovesBy, !.partial = <<>>, !.cpart[s] = <<>>]
  /\ counted' = Append(counted, tf.cpart[s] \o places)

\* line: what is left of a line whose start was not read is no envelope and
\* counts as it is.
Rest(places) ==
  /\ tf' = [tf EXCEPT !.off = @ + MovesBy, !.partial = <<>>]
  /\ counted' = Append(counted, places)

\* read: the loop over the data of one file, one piece of it.
ReadPiece ==
  /\ poll \in {"read", "finish"} /\ CanRead
  /\ LET places == Append(tf.partial, NextPlace)
         p == At(NextPlace)
     IN  \/ p.end = "torn" /\ Torn(places)
         \/ p.end # "torn" /\ At(places[1]).cont /\ Rest(places)
         \/ p.end = "chunk" /\ ~At(places[1]).cont /\ Chunk(places, p.stream)
         \/ p.end = "full" /\ ~At(places[1]).cont /\ Full(places, p.stream)
  /\ total' = total + 1
  /\ UNCHANGED <<files, poll, skip>>

\* pollAll comes to the file.
PollBegin ==
  /\ poll = "idle" /\ tf.file # None
  /\ poll' = "read" /\ total' = 0
  /\ UNCHANGED <<files, tf, skip, counted>>

\* Nothing more to read, or read enough.
ReadEnds ==
  /\ poll = "read" /\ ~CanRead
  /\ poll' = "stat"
  /\ UNCHANGED <<files, tf, total, skip, counted>>

\* Mutant: the grace period starts anew with every failing Stat.
GoneKeepsOn ==
  /\ poll = "stat" /\ path = None
  /\ tf' = [tf EXCEPT !.gone = "yes"]
  /\ poll' = "idle" /\ total' = 0
  /\ UNCHANGED <<files, skip, counted>>

\* The path is missing: keep the handle until nothing was left to read and the
\* grace period is over.
Gone ==
  /\ poll = "stat" /\ path = None
  /\ tf' = IF tf.gone = "over" /\ total = 0 THEN NoTail
           ELSE IF tf.gone = "no" THEN [tf EXCEPT !.gone = "yes"] ELSE tf
  /\ poll' = "idle" /\ total' = 0
  /\ UNCHANGED <<files, skip, counted>>

\* Mutant: the old file is not finished.
RotatedAtOnce ==
  /\ poll = "stat" /\ path # None /\ path # tf.file
  /\ tf' = Opened(path, 0)
  /\ poll' = "idle" /\ total' = 0
  /\ UNCHANGED <<files, skip, counted>>

\* Another file is at the path: finish the old one.
Rotated ==
  /\ poll = "stat" /\ path # None /\ path # tf.file
  /\ tf' = [tf EXCEPT !.gone = "no"]
  /\ poll' = "finish" /\ total' = 0
  /\ UNCHANGED <<files, skip, counted>>

\* Then follow the new one.  The next poll tries an open that failed again;
\* bound: it succeeds then.
Follow(opens) ==
  /\ poll = "finish" /\ ~CanRead
  /\ opens \/ tf.live
  /\ tf' = IF opens THEN Opened(path, 0) ELSE [tf EXCEPT !.live = FALSE]
  /\ poll' = "idle" /\ total' = 0
  /\ UNCHANGED <<files, skip, counted>>

\* The file is smaller than what was read of it, or just there.
Present ==
  /\ poll = "stat" /\ path # None /\ path = tf.file
  /\ tf' = LET t == [tf EXCEPT !.gone = "no"]
           IN  IF Len(Text(path)) < tf.off THEN Rewound(t) ELSE t
  /\ poll' = "idle" /\ total' = 0
  /\ UNCHANGED <<files, skip, counted>>

\* scan: a path that is not tailed is read from its beginning.
Rescan ==
  /\ poll = "idle" /\ tf.file = None
  /\ tf' = IF path = None THEN tf ELSE Opened(path, 0)
  /\ UNCHANGED <<files, poll, total, skip, counted>>

\* removeGrace passes.  A rotation leaves the path missing for far less.
GracePasses ==
  /\ tf.gone = "yes" /\ path = None /\ writer = None
  /\ tf' = [tf EXCEPT !.gone = "over"]
  /\ UNCHANGED <<files, poll, total, skip, counted>>

-------------------------------------------------------------------------------
(* The runtime and the kubelet.                                            *)

\* The agent has the file that is at the path open and knows of its truncation:
\* rotations, truncations and removals are further apart than two polls.
Followed == path # None /\ tf.file = path /\ tf.live /\ Unread >= 0

\* What is left to read of a rotated file fits in one read.
NearlyRead == Unread <= Limit

\* A truncated file is polled before it outgrows what was read of it.
Outgrows == /\ tf.live /\ tf.file = writer /\ tf.off > Len(Text(writer))
            /\ tf.off <= Len(Text(writer)) + 1

\* The runtime appends a piece, to the same stream while inside a line.
Write(s, end) ==
  /\ writer # None /\ pen.pieces < MaxPieces /\ ~Outgrows
  /\ pen.line \subseteq {s}
  /\ log' = [log EXCEPT ![Latest].text =
               Append(@, Piece(s, end, pen.line # {}, s \notin pen.messages))]
  /\ pen' = [pieces |-> pen.pieces + 1,
             line |-> IF end = "torn" THEN {s} ELSE {},
             messages |-> (pen.messages \ {s}) \cup (IF end = "full" THEN {} ELSE {s})]
  /\ UNCHANGED <<path, writer, tf, poll, total, skip, counted>>

\* Rotation, first half: rename.  The runtime writes on to the renamed file.
Rename ==
  /\ Followed /\ writer = path /\ Latest < MaxGens
  /\ path' = None
  /\ UNCHANGED <<log, writer, pen, tf, poll, total, skip, counted>>

NewGeneration(f) == log' = Append(log, [file |-> f, text |-> <<>>])

\* Second half: between two lines the runtime opens a new file at the path.
Reopen ==
  /\ path = None /\ writer # None /\ pen.line = {} /\ NearlyRead
  /\ NewGeneration(NewFile)
  /\ path' = NewFile /\ writer' = NewFile
  /\ UNCHANGED <<pen, tf, poll, total, skip, counted>>

\* copytruncate, at any moment.
Truncate ==
  /\ path # None /\ writer = path /\ Latest < MaxGens
  /\ Text(path) # <<>>
  /\ NewGeneration(path)
  /\ UNCHANGED <<path, writer, pen, tf, poll, total, skip, counted>>

\* The pod goes away, and the kubelet deletes its file.
Delete ==
  /\ Followed /\ writer = path
  /\ path' = None /\ writer' = None
  /\ UNCHANGED <<log, pen, tf, poll, total, skip, counted>>

\* A new container logs to the same path.
Create ==
  /\ path = None /\ writer = None /\ Latest < MaxGens /\ NearlyRead
  /\ NewGeneration(NewFile)
  /\ path' = NewFile /\ writer' = NewFile
  /\ UNCHANGED <<pen, tf, poll, total, skip, counted>>

-------------------------------------------------------------------------------

\* The agent starts on a file that holds a piece or none, from its end unless
\* --from-start.
Init ==
  \E s \in Streams, end \in Ends, n \in {0, 1},
     fromStart \in BOOLEAN :
    /\ log = <<[file |-> 1,
                text |-> IF n = 0 THEN <<>> ELSE <<Piece(s, end, FALSE, TRUE)>>]>>
    /\ pen = [pieces |-> n,
              line |-> IF n = 1 /\ end = "torn" THEN {s} ELSE {},
              messages |-> IF n = 1 /\ end # "full" THEN {s} ELSE {}]
    /\ path = 1 /\ writer = 1
    /\ skip = IF fromStart THEN 0 ELSE n
    /\ tf = Opened(1, skip)
    /\ poll = "idle" /\ total = 0
    /\ counted = <<>>

Stat == Gone \/ Rotated \/ Present
Poll == \/ PollBegin \/ ReadPiece \/ ReadEnds \/ Stat
        \/ \E opens \in BOOLEAN : Follow(opens)
Runtime == \/ \E s \in Streams, end \in Ends : Write(s, end)
           \/ Rename \/ Reopen \/ Truncate \/ Delete \/ Create

Next == Poll \/ Rescan \/ GracePasses \/ Runtime

Spec == Init /\ [][Next]_vars

FairSpec == Spec /\ WF_vars(Poll) /\ WF_tf(Rescan) /\ WF_tf(GracePasses)

-------------------------------------------------------------------------------
(* Correctness.                                                            *)

Places == (1 .. MaxGens) \X (1 .. MaxPieces)
Pieces == [stream : Streams, end : Ends, cont : BOOLEAN, first : BOOLEAN]

TypeOK ==
  /\ log \in Seq([file : 1 .. MaxGens, text : Seq(Pieces)])
  /\ path \in 0 .. MaxGens /\ writer \in 0 .. MaxGens
  /\ pen \in [pieces : 0 .. MaxPieces, line : SUBSET Streams,
              messages : SUBSET Streams]
  /\ tf \in [file : 0 .. MaxGens, live : BOOLEAN, off : 0 .. MaxPieces,
             partial : Seq(Places), cpart : [Streams -> Seq(Places)],
             gone : {"no", "yes", "over"}]
  /\ poll \in {"idle", "read", "stat", "finish"} /\ total \in 0 .. Limit
  /\ skip \in 0 .. 1 /\ counted \in Seq(Seq(Places))

Skipped(place) == place[1] = 1 /\ place[2] <= skip

\* The pieces of the message of s that n pieces of generation g leave open.
Begun(g, s, n) ==
  {i \in 1 .. n :
     /\ At(<<g, i>>).stream = s /\ ~Skipped(<<g, i>>)
     /\ \A j \in i .. n : At(<<g, j>>).stream = s => At(<<g, j>>).end # "full"}

\* The places of the message that place p ends or continues, as far as they
\* are in its file and were not skipped.
Message(p) == {p} \cup {<<p[1], i>> : i \in Begun(p[1], At(p).stream, p[2] - 1)}

\* Its beginning was written to this file, after start-up.
Uncut(p) == \E q \in Message(p) : At(q).first

InOrder(c) == \A j, k \in DOMAIN c : j < k => c[j][2] < c[k][2]

(***************************************************************************)
(* Every line counted is one whole message: no poll, rotation or           *)
(* truncation tears it or joins it with another, and chunks of the two     *)
(* streams are not mixed.  Only messages that begin before start-up or in  *)
(* another file are counted in part (agent.go:195-244, 268-324).           *)
(***************************************************************************)
WholeMessages ==
  \A c \in Range(counted) :
    LET end == c[Len(c)]
    IN  Uncut(end) => At(end).end = "full" /\ InOrder(c) /\ Range(c) = Message(end)

(***************************************************************************)
(* No byte is counted twice, whatever happens to the file between a read   *)
(* and the Stat after it (agent.go:217-243).                               *)
(***************************************************************************)
CountedOnce ==
  \A i, j \in DOMAIN counted : \A k \in DOMAIN counted[i], l \in DOMAIN counted[j] :
    counted[i][k] = counted[j][l] => i = j /\ k = l

\* The file of generation g was truncated: what was not read of it is gone.
Truncated(g) == g < Latest /\ log[g + 1].file = log[g].file

Due(p) == At(p).end = "full" /\ ~Skipped(p) /\ ~Truncated(p[1])

(***************************************************************************)
(* While polls go on, again and again every message written so far has     *)
(* been counted, in rotated and removed files too, unless its file was     *)
(* truncated (README.md:404-411: the agent finishes the old file, then     *)
(* follows the new one).                                                   *)
(***************************************************************************)
EverythingCounted ==
  []<>(\A g \in DOMAIN log : \A i \in DOMAIN log[g].text :
         Due(<<g, i>>) => \E c \in Range(counted) : c[Len(c)] = <<g, i>>)

(***************************************************************************)
(* The handle on a file that was removed is closed in the end, so its disk *)
(* space is freed, unless a file comes back to the path                    *)
(* (README.md:410-411, agent.go:97-102).                                   *)
(***************************************************************************)
HandleClosed ==
  path = None /\ writer = None ~> tf.file = None \/ path # None

===============================================================================
