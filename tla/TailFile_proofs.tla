---------------------------- MODULE TailFile_proofs ----------------------------
(***************************************************************************)
(* That tailing counts every line once and whole, proved for any streams,  *)
(* any limit of a read and any number of pieces, files and truncations.    *)
(***************************************************************************)
EXTENDS TailFile, TLAPS

-------------------------------------------------------------------------------
(* The inductive invariant.                                                *)

Size(g) == Len(log[g].text)

\* Files get the numbers they are created in, and the newest generation is of
\* the file at the path, the file the runtime writes, or both.
Numbered ==
  /\ 1 <= Latest /\ Latest <= MaxGens
  /\ \A g \in DOMAIN log : 1 <= log[g].file /\ log[g].file <= g
  /\ \A g, h \in DOMAIN log : g <= h => log[g].file <= log[h].file
  /\ path # None => path = log[Latest].file /\ writer = path
  /\ writer # None => writer = log[Latest].file
  /\ path = None /\ writer # None => Latest < MaxGens

\* In a text a line goes on in its stream, and the next message of a stream
\* begins when the last one has ended.
Ended(t, s, i, j) == \E k \in i .. j : t[k].stream = s /\ t[k].end = "full"
Wellformed(t) ==
  \A i \in 1 .. Len(t) :
    /\ t[i].cont => ~t[i].first
    /\ i > 1 => /\ t[i].cont <=> t[i - 1].end = "torn"
                /\ t[i].cont => t[i].stream = t[i - 1].stream
    /\ t[i].first => \A k \in 1 .. i - 1 :
                       t[k].stream = t[i].stream => Ended(t, t[i].stream, k, i - 1)

\* What the runtime knows of its last line and of the messages under way.
Unfinished(t, line, messages) ==
  /\ line \subseteq messages
  /\ Len(t) > 0 => line = IF t[Len(t)].end = "torn" THEN {t[Len(t)].stream} ELSE {}
  /\ \A i \in 1 .. Len(t) :
       t[i].stream \in messages \/ Ended(t, t[i].stream, i, Len(t))

Texts == /\ Unfinished(log[Latest].text, pen.line, pen.messages)
         /\ \A g \in DOMAIN log : Size(g) <= pen.pieces /\ Wellformed(log[g].text)

\* The newest generation of the file that the agent has open is g.
Reading(g) == /\ g \in DOMAIN log /\ log[g].file = tf.file
              /\ \A h \in DOMAIN log : log[h].file = tf.file => h <= g

\* The handle, the grace period and the state of the path.  The first file is
\* opened at start-up only.
Handle ==
  /\ tf.file = None => tf = NoTail /\ poll = "idle" /\ path # 1
  /\ tf.live /\ Reading(1) => tf.off <= Size(1)
  /\ tf.file # None => \E g \in DOMAIN log : Reading(g)
  /\ poll = "finish" => path # None /\ path # tf.file
  /\ tf.gone = "over" => path # tf.file /\ (path = None => writer = None)

Taken(q) == \E i \in DOMAIN counted : \E k \in DOMAIN counted[i] : counted[i][k] = q

\* What was counted was read: it lies before the offset of the generation the
\* agent reads, and not in a file it has yet to open.
Behind ==
  /\ \A i \in DOMAIN counted : counted[i] # <<>>
  /\ \A q \in Places :
       Taken(q) => /\ q[1] \in DOMAIN log /\ q[2] \in 1 .. Size(q[1])
                   /\ tf.file = None => log[q[1]].file # path
                   /\ tf.file # None => log[q[1]].file <= tf.file
                   /\ tf.live /\ Reading(q[1]) => /\ q[2] <= tf.off
                                                 /\ tf.off <= Size(q[1])

\* The first pieces of generation g are not read.
Base(g) == IF g = 1 THEN skip ELSE 0
Cut == tf.off - Len(tf.partial)

\* The line under way: the torn pieces of one stream up to the offset.
LineUnderWay(g) ==
  /\ Base(g) <= Cut
  /\ \A k \in DOMAIN tf.partial :
       /\ tf.partial[k] = <<g, Cut + k>>
       /\ At(<<g, Cut + k>>).end = "torn"
       /\ At(<<g, Cut + k>>).stream = At(<<g, tf.off>>).stream
  /\ Cut > Base(g) => At(<<g, Cut>>).end # "torn"

\* The chunks of s: pieces of its message before that line, in order, and all of
\* them if the message began in this file after start-up.
ChunksOf(s, g) ==
  /\ InOrder(tf.cpart[s])
  /\ \A k \in DOMAIN tf.cpart[s] :
       LET q == tf.cpart[s][k]
       IN  q[1] = g /\ q[2] <= Cut /\ q[2] \in Begun(g, s, tf.off) /\ ~Taken(q)
  /\ (\E i \in Begun(g, s, tf.off) : At(<<g, i>>).first) =>
       \A i \in Begun(g, s, tf.off) :
         i <= Cut => \E k \in DOMAIN tf.cpart[s] : tf.cpart[s][k] = <<g, i>>

\* Unless the file was truncated since, the buffers hold what lies before the
\* offset and was not counted.
Buffers ==
  \A g \in DOMAIN log :
    tf.live /\ Reading(g) /\ tf.off <= Size(g) =>
      /\ LineUnderWay(g)
      /\ \A k \in DOMAIN tf.partial : ~Taken(tf.partial[k])
      /\ \A s \in Streams : ChunksOf(s, g)

IInv == /\ TypeOK /\ Numbered /\ Texts /\ Handle /\ Behind /\ Buffers /\ CountedOnce /\ WholeMessages
-------------------------------------------------------------------------------
(* Types.                                                                  *)

FileRecord == [file : 1 .. MaxGens, text : Seq(Pieces)]

LEMMA Types ==
  ASSUME TypeOK
  PROVE  /\ log \in Seq(FileRecord)
         /\ tf.file \in 0 .. MaxGens /\ tf.live \in BOOLEAN /\ tf.off \in Nat
         /\ tf.partial \in Seq(Places) /\ tf.cpart \in [Streams -> Seq(Places)]
         /\ path \in Nat /\ writer \in Nat /\ skip \in Nat /\ total \in Nat
         /\ pen.pieces \in Nat
  BY TailAssumption DEF TypeOK, FileRecord

LEMMA LogTypes ==
  ASSUME TypeOK
  PROVE  /\ Latest \in Nat /\ DOMAIN log = 1 .. Latest
         /\ \A g \in DOMAIN log :
              /\ g \in Nat /\ log[g].file \in Nat /\ log[g].text \in Seq(Pieces)
              /\ Size(g) \in Nat /\ DOMAIN log[g].text = 1 .. Size(g)
              /\ \A i \in 1 .. Size(g) : At(<<g, i>>) \in Pieces
<1>1. log \in Seq(FileRecord)
  BY Types
<1>2. ASSUME NEW g \in DOMAIN log
      PROVE  /\ g \in Nat /\ log[g].file \in Nat /\ log[g].text \in Seq(Pieces)
  <2>1. log[g] \in FileRecord /\ g \in Nat
    BY <1>1
  <2> QED
    BY <2>1, TailAssumption DEF FileRecord
<1>3. ASSUME NEW g \in DOMAIN log
      PROVE  /\ Size(g) \in Nat /\ DOMAIN log[g].text = 1 .. Size(g)
             /\ \A i \in 1 .. Size(g) : At(<<g, i>>) \in Pieces
  BY <1>2 DEF Size, At
<1> QED
  BY <1>1, <1>2, <1>3 DEF Latest

\* Files only grow: what was written stays where it is.
Grown ==
  /\ Latest <= Latest'
  /\ \A g \in DOMAIN log : /\ log'[g].file = log[g].file
                           /\ Size(g) <= Size(g)'
                           /\ \A i \in 1 .. Size(g) : At(<<g, i>>)' = At(<<g, i>>)

\* What a piece that is written is like.
NewPiece(s, end) == Piece(s, end, pen.line # {}, s \notin pen.messages)

LEMMA Written ==
  ASSUME TypeOK, Numbered, NEW s \in Streams, NEW end \in Ends, Write(s, end)
  PROVE  /\ log' \in Seq(FileRecord)
         /\ Grown /\ Latest' = Latest
         /\ \A g \in DOMAIN log : g # Latest => log'[g] = log[g]
         /\ Size(Latest)' = Size(Latest) + 1
         /\ log'[Latest].text[Size(Latest) + 1] = NewPiece(s, end)
<1> DEFINE n == Latest
           p == NewPiece(s, end)
           t == Append(log[n].text, p)
<1>1. n \in DOMAIN log /\ log[n].text \in Seq(Pieces) /\ log[n].file \in 1 .. MaxGens
      /\ n \in Nat /\ DOMAIN log = 1 .. n /\ log[n] \in FileRecord
  <2>1. n \in DOMAIN log /\ n \in Nat /\ DOMAIN log = 1 .. n
    BY LogTypes DEF Numbered
  <2>2. log[n] \in FileRecord
    BY <2>1, Types
  <2> QED
    BY <2>1, <2>2 DEF FileRecord
<1>2. p \in Pieces
  BY DEF NewPiece, Piece, Pieces
<1>3. t \in Seq(Pieces) /\ Len(t) = Len(log[n].text) + 1
      /\ t[Len(t)] = p /\ \A i \in 1 .. Len(log[n].text) : t[i] = log[n].text[i]
  BY <1>1, <1>2
<1>4. log' = [log EXCEPT ![n] = [log[n] EXCEPT !.text = t]]
  BY DEF Write, NewPiece
<1>5. log' \in Seq(FileRecord)
  <2> HIDE DEF t
  <2>1. [log[n] EXCEPT !.text = t] \in FileRecord
    BY <1>1, <1>3 DEF FileRecord
  <2> QED
    BY <2>1, <1>1, <1>4, Types
<1> HIDE DEF t
<1>6. Len(log') = Len(log) /\ log'[n].text = t /\ log'[n].file = log[n].file
      /\ \A g \in DOMAIN log : g # n => log'[g] = log[g]
  BY <1>1, <1>4, Types
<1>7. Size(n) = Len(log[n].text) /\ Size(n) \in Nat /\ Latest' = Latest
  BY <1>1, <1>6 DEF Size, Latest
<1>8. Size(Latest)' = Size(Latest) + 1
  BY <1>3, <1>6, <1>7 DEF Size
<1>9. Grown
  <2> SUFFICES ASSUME NEW g \in DOMAIN log
               PROVE  /\ log'[g].file = log[g].file /\ Size(g) <= Size(g)'
                      /\ \A i \in 1 .. Size(g) : At(<<g, i>>)' = At(<<g, i>>)
    BY <1>1, <1>7 DEF Grown
  <2>1. CASE g = n
    BY <2>1, <1>1, <1>3, <1>6, <1>7, <1>8 DEF Size, At
  <2>2. CASE g # n
    BY <2>2, <1>6, LogTypes DEF Size, At
  <2> QED
    BY <2>1, <2>2
<1>10. log'[Latest].text[Size(Latest) + 1] = p
  BY <1>3, <1>6, <1>7
<1> QED
  BY <1>5, <1>6, <1>7, <1>8, <1>9, <1>10

LEMMA Generated ==
  ASSUME TypeOK, Numbered, NEW f \in 1 .. MaxGens, NewGeneration(f)
  PROVE  /\ log' \in Seq(FileRecord)
         /\ Grown /\ Latest' = Latest + 1
         /\ \A g \in DOMAIN log : log'[g] = log[g]
         /\ log'[Latest'].file = f /\ Size(Latest)' = 0
<1> DEFINE e == [file |-> f, text |-> <<>>]
<1>1. e \in FileRecord /\ log' = Append(log, e)
  BY DEF NewGeneration, FileRecord
<1> HIDE DEF e
<1>2. /\ log' \in Seq(FileRecord)
      /\ Len(log') = Len(log) + 1 /\ log'[Len(log) + 1] = e
      /\ \A g \in DOMAIN log : log'[g] = log[g]
  BY <1>1, Types
<1>3. Latest' = Latest + 1 /\ Latest \in Nat
  BY <1>2, LogTypes DEF Latest
<1>4. Grown
  BY <1>2, <1>3, LogTypes DEF Grown, Size, At
<1>5. log'[Latest'].file = f /\ Size(Latest)' = 0
  BY <1>2, <1>3 DEF Size, Latest, e
<1> QED
  BY <1>2, <1>3, <1>4, <1>5
-------------------------------------------------------------------------------
(* Generations.                                                            *)

LEMMA OnlyGeneration ==
  ASSUME TypeOK, NEW g \in DOMAIN log, Reading(g)
  PROVE  /\ Generation(tf.file) = g
         /\ \A h \in DOMAIN log : Reading(h) => h = g
<1>1. \A h \in DOMAIN log : Reading(h) => h = g
  BY LogTypes DEF Reading
<1>2. \A h \in DOMAIN log :
        (log[h].file = tf.file /\ \A k \in DOMAIN log : log[k].file = tf.file => k <= h)
          <=> h = g
  BY <1>1 DEF Reading
<1> QED
  BY <1>1, <1>2, Zenon DEF Generation

LEMMA LatestGeneration ==
  ASSUME TypeOK, Numbered
  PROVE  /\ Latest \in DOMAIN log
         /\ tf.file = log[Latest].file => Reading(Latest)
  BY LogTypes DEF Numbered, Reading

\* A later generation of the file that the agent reads is the newest one.
LEMMA StillReading ==
  ASSUME TypeOK, Numbered, Grown, DOMAIN log' = 1 .. Latest', tf'.file = tf.file,
         Latest' \in {Latest, Latest + 1}, NEW g \in DOMAIN log', Reading(g)'
  PROVE  g \in DOMAIN log => Reading(g)
  BY LogTypes DEF Grown, Reading, Numbered
-------------------------------------------------------------------------------
(* The files.                                                              *)

\* A piece makes the text t into u, and what is unfinished into l and m.
Extends(t, line, messages, s, end, u, l, m) ==
  /\ u = Append(t, Piece(s, end, line # {}, s \notin messages))
  /\ l = IF end = "torn" THEN {s} ELSE {}
  /\ m = (messages \ {s}) \cup (IF end = "full" THEN {} ELSE {s})

LEMMA AppendText ==
  ASSUME NEW t \in Seq(Pieces), NEW line \in SUBSET Streams,
         NEW messages \in SUBSET Streams,
         Wellformed(t), Unfinished(t, line, messages),
         NEW s \in Streams, NEW end \in Ends, line \subseteq {s},
         NEW u, NEW l, NEW m, Extends(t, line, messages, s, end, u, l, m)
  PROVE  Wellformed(u) /\ Unfinished(u, l, m)
<1> DEFINE p == Piece(s, end, line # {}, s \notin messages)
           n == Len(t)
<1> USE DEF Extends
<1>1. /\ n \in Nat /\ Len(u) = n + 1 /\ u[n + 1] = p
      /\ \A i \in 1 .. n : u[i] = t[i] /\ t[i] \in Pieces
  <2>1. p \in Pieces
    BY DEF Piece, Pieces
  <2>2. u = Append(t, p)
    OBVIOUS
  <2> HIDE DEF p
  <2> QED
    BY <2>1, <2>2
<1>2. /\ p.stream = s /\ p.end = end /\ (p.cont <=> line # {})
      /\ (p.first <=> s \notin messages)
  BY DEF Piece
<1> HIDE DEF p, n
<1>3. \A z, i, j : j \in 1 .. n /\ i \in Nat \ {0} /\ Ended(t, z, i, j) => Ended(u, z, i, j)
  BY <1>1 DEF Ended
<1>4. n > 0 => line = IF t[n].end = "torn" THEN {t[n].stream} ELSE {}
  BY DEF Unfinished, n
<1>5. \A i \in 1 .. n : t[i].stream \in messages \/ Ended(t, t[i].stream, i, n)
  BY DEF Unfinished, n
<1>6. Wellformed(u)
  <2> SUFFICES ASSUME NEW i \in 1 .. n + 1
               PROVE  /\ u[i].cont => ~u[i].first
                      /\ i > 1 => /\ u[i].cont <=> u[i - 1].end = "torn"
                                  /\ u[i].cont => u[i].stream = u[i - 1].stream
                      /\ u[i].first => \A k \in 1 .. i - 1 :
                           u[k].stream = u[i].stream => Ended(u, u[i].stream, k, i - 1)
    BY <1>1 DEF Wellformed
  <2>1. CASE i \in 1 .. n
    <3>1. /\ u[i] = t[i] /\ (i > 1 => u[i - 1] = t[i - 1])
          /\ \A k \in 1 .. i - 1 : u[k] = t[k]
      BY <1>1, <2>1
    <3>2. /\ t[i].cont => ~t[i].first
          /\ i > 1 => /\ t[i].cont <=> t[i - 1].end = "torn"
                      /\ t[i].cont => t[i].stream = t[i - 1].stream
          /\ t[i].first => \A k \in 1 .. i - 1 :
               t[k].stream = t[i].stream => Ended(t, t[i].stream, k, i - 1)
      BY <2>1 DEF Wellformed, n
    <3>3. ASSUME NEW k \in 1 .. i - 1, Ended(t, t[i].stream, k, i - 1)
          PROVE  Ended(u, t[i].stream, k, i - 1)
      <4>1. i - 1 \in 1 .. n /\ k \in Nat \ {0}
        BY <1>1, <2>1
      <4> QED
        BY <1>3, <3>3, <4>1
    <3> QED
      BY <3>1, <3>2, <3>3
  <2>2. CASE i = n + 1
    <3>1. u[i] = p /\ i - 1 = n /\ (n > 0 => u[n] = t[n])
      BY <1>1, <2>2
    <3>2. p.cont => ~p.first
      BY <1>2 DEF Unfinished
    <3>3. i > 1 => /\ p.cont <=> t[n].end = "torn"
                   /\ p.cont => p.stream = t[n].stream
      <4>1. CASE n > 0 /\ t[n].end = "torn"
        <5>1. line = {t[n].stream} /\ t[n].stream = s
          BY <1>4, <4>1
        <5> QED
          BY <1>2, <4>1, <5>1
      <4>2. CASE n > 0 /\ t[n].end # "torn"
        BY <1>2, <1>4, <4>2
      <4> QED
        BY <1>1, <2>2, <4>1, <4>2
    <3>4. ASSUME p.first, NEW k \in 1 .. n, u[k].stream = s
          PROVE  Ended(u, s, k, n)
      <4>1. Ended(t, s, k, n)
        BY <1>1, <1>2, <1>5, <3>4
      <4> QED
        BY <1>1, <1>3, <4>1
    <3> QED
      BY <1>1, <1>2, <3>1, <3>2, <3>3, <3>4
  <2> QED
    BY <1>1, <2>1, <2>2
<1>7. Unfinished(u, l, m)
  <2>1. l \subseteq m
    OBVIOUS
  <2>2. Len(u) > 0 => l = IF u[Len(u)].end = "torn" THEN {u[Len(u)].stream} ELSE {}
    <3>1. CASE end = "torn"
      BY <1>1, <1>2, <3>1
    <3>2. CASE end # "torn"
      BY <1>1, <1>2, <3>2
    <3> QED
      BY <3>1, <3>2
  <2>3. ASSUME NEW i \in 1 .. n + 1, u[i].stream \notin m
        PROVE  Ended(u, u[i].stream, i, n + 1)
    <3>1. CASE u[i].stream = s
      <4>1. end = "full"
        BY <2>3, <3>1
      <4> QED
        BY <1>1, <1>2, <3>1, <4>1 DEF Ended
    <3>2. CASE u[i].stream # s
      <4>1. i \in 1 .. n /\ u[i] = t[i]
        BY <1>1, <1>2, <3>2
      <4>2. Ended(t, u[i].stream, i, n)
        BY <1>5, <2>3, <3>2, <4>1
      <4> QED
        BY <1>1, <4>1, <4>2 DEF Ended
    <3> QED
      BY <3>1, <3>2
  <2> QED
    BY <1>1, <2>1, <2>2, <2>3 DEF Unfinished
<1> QED
  BY <1>6, <1>7

LEMMA WriteNumbered ==
  ASSUME TypeOK, Numbered, Latest' = Latest, Grown, DOMAIN log' = 1 .. Latest',
         UNCHANGED <<path, writer>>
  PROVE  Numbered'
<1>1. /\ Latest \in DOMAIN log /\ Latest \in Nat /\ DOMAIN log' = DOMAIN log
      /\ \A g \in DOMAIN log : log'[g].file = log[g].file
  BY LogTypes, LatestGeneration DEF Grown
<1> QED
  BY <1>1 DEF Numbered

LEMMA WriteTexts ==
  ASSUME TypeOK, Numbered, Texts, NEW s \in Streams, NEW end \in Ends, Write(s, end)
  PROVE  Numbered' /\ Texts'
<1>1. /\ Latest \in DOMAIN log /\ DOMAIN log = 1 .. Latest /\ Latest \in Nat
      /\ pen.pieces \in Nat
  BY LogTypes, Types, LatestGeneration
<1>2. /\ Grown /\ Latest' = Latest /\ Size(Latest)' = Size(Latest) + 1
      /\ \A g \in DOMAIN log : g # Latest => log'[g] = log[g]
      /\ log' \in Seq(FileRecord)
  BY Written
<1>3. DOMAIN log' = DOMAIN log /\ DOMAIN log' = 1 .. Latest'
  BY <1>1, <1>2 DEF Latest
<1>4. /\ pen.line \subseteq {s} /\ pen.line \in SUBSET Streams
      /\ pen.messages \in SUBSET Streams
      /\ pen'.pieces = pen.pieces + 1
      /\ pen'.line = IF end = "torn" THEN {s} ELSE {}
      /\ pen'.messages = (pen.messages \ {s}) \cup (IF end = "full" THEN {} ELSE {s})
      /\ UNCHANGED <<path, writer>>
  BY DEF Write, TypeOK
<1>5. log'[Latest].text = Append(log[Latest].text,
                                 Piece(s, end, pen.line # {}, s \notin pen.messages))
  <2>1. log[Latest] \in FileRecord
    BY <1>1, Types
  <2> QED
    BY <1>1, <2>1, Types DEF Write, FileRecord
<1>6. Wellformed(log[Latest].text) /\ Unfinished(log[Latest].text, pen.line, pen.messages)
      /\ log[Latest].text \in Seq(Pieces)
  BY <1>1, LogTypes DEF Texts
<1>7. Wellformed(log'[Latest].text)
      /\ Unfinished(log'[Latest].text, pen'.line, pen'.messages)
  <2> DEFINE t == log[Latest].text
             line == pen.line
             messages == pen.messages
             u == log'[Latest].text
             l == pen'.line
             m == pen'.messages
  <2>1. /\ t \in Seq(Pieces) /\ line \in SUBSET Streams /\ messages \in SUBSET Streams
        /\ Wellformed(t) /\ Unfinished(t, line, messages) /\ line \subseteq {s}
    BY <1>4, <1>6
  <2>2. Extends(t, line, messages, s, end, u, l, m)
    BY <1>4, <1>5 DEF Extends
  <2> HIDE DEF t, line, messages, u, l, m
  <2>3. Wellformed(u) /\ Unfinished(u, l, m)
    BY <2>1, <2>2, AppendText
  <2> QED
    BY <2>3 DEF u, l, m
<1>8. ASSUME NEW g \in DOMAIN log
      PROVE  Len(log'[g].text) <= pen'.pieces /\ Wellformed(log'[g].text)
  <2>1. Len(log[g].text) <= pen.pieces /\ Wellformed(log[g].text) /\ Len(log[g].text) \in Nat
    BY LogTypes DEF Texts, Size
  <2>2. CASE g = Latest
    BY <1>1, <1>2, <1>4, <1>7, <2>1, <2>2 DEF Size
  <2>3. CASE g # Latest
    BY <1>1, <1>2, <1>4, <2>1, <2>3
  <2> QED
    BY <2>2, <2>3
<1>9. Numbered'
  BY <1>2, <1>3, <1>4, WriteNumbered
<1>10. Texts'
  BY <1>2, <1>3, <1>7, <1>8 DEF Texts, Size
<1> QED
  BY <1>9, <1>10
-------------------------------------------------------------------------------
(* What was written, and so what was counted, stays as it is.              *)

LEMMA BegunStays ==
  ASSUME TypeOK, Grown, skip' = skip, NEW g \in DOMAIN log, NEW n \in 0 .. Size(g),
         NEW s
  PROVE  Begun(g, s, n)' = Begun(g, s, n)
<1>1. \A i \in 1 .. n : At(<<g, i>>)' = At(<<g, i>>)
  BY LogTypes DEF Grown
<1>2. \A i \in 1 .. n : Skipped(<<g, i>>)' <=> Skipped(<<g, i>>)
  BY DEF Skipped
<1>3. \A i \in 1 .. n : \A j \in i .. n : At(<<g, j>>)' = At(<<g, j>>)
  BY <1>1
<1> QED
  BY <1>1, <1>2, <1>3 DEF Begun

LEMMA MessageStays ==
  ASSUME TypeOK, Grown, skip' = skip,
         NEW p, p[1] \in DOMAIN log, p[2] \in 1 .. Size(p[1])
  PROVE  /\ Message(p)' = Message(p) /\ At(p)' = At(p)
         /\ Uncut(p)' <=> Uncut(p)
<1> DEFINE g == p[1]
           n == p[2] - 1
           s == At(p).stream
<1>1. n \in 0 .. Size(g) /\ n \in Nat /\ g \in DOMAIN log /\ Size(g) \in Nat
  BY LogTypes
<1>2. At(p)' = At(p)
  <2>1. At(<<p[1], p[2]>>)' = At(<<p[1], p[2]>>)
    BY DEF Grown
  <2>2. At(<<p[1], p[2]>>) = At(p) /\ At(<<p[1], p[2]>>)' = At(p)'
    BY DEF At
  <2> QED
    BY <2>1, <2>2
<1>3. \A z : Begun(g, z, n)' = Begun(g, z, n)
  BY <1>1, BegunStays
<1>4. Message(p)' = Message(p)
  BY <1>2, <1>3 DEF Message
<1>5. \A i \in Begun(g, s, n) : At(<<g, i>>)' = At(<<g, i>>)
  <2>1. \A i \in Begun(g, s, n) : i \in 1 .. Size(g)
    BY <1>1 DEF Begun
  <2> QED
    BY <1>1, <2>1 DEF Grown
<1>6. \A q \in Message(p) : At(q)' = At(q)
  BY <1>2, <1>5 DEF Message
<1> QED
  BY <1>2, <1>4, <1>6 DEF Uncut

\* The agent does not notice the step: its offset is not beyond a text that was
\* shorter before.
Unnoticed ==
  /\ log' \in Seq(FileRecord) /\ Grown /\ Latest' \in {Latest, Latest + 1} /\ DOMAIN log' = 1 .. Latest'
  /\ UNCHANGED <<tf, poll, total, skip, counted>>
  /\ \A g \in DOMAIN log' : g \notin DOMAIN log => Size(g)' = 0
  /\ \A g \in DOMAIN log : tf.live /\ Reading(g) /\ tf.off <= Size(g)' => tf.off <= Size(g)
  /\ path' \in {path, None} \/ path' = log[Latest].file + 1

LEMMA CountedTypes ==
  ASSUME IInv, NEW i \in DOMAIN counted
  PROVE  /\ counted[i] \in Seq(Places) /\ Len(counted[i]) \in DOMAIN counted[i]
         /\ \A k \in DOMAIN counted[i] :
              /\ counted[i][k] \in Places
              /\ counted[i][k][1] \in DOMAIN log
              /\ counted[i][k][2] \in 1 .. Size(counted[i][k][1])
<1>1. counted[i] \in Seq(Places) /\ counted[i] # <<>>
  BY DEF IInv, TypeOK, Behind
<1>2. Len(counted[i]) \in DOMAIN counted[i] /\ \A k \in DOMAIN counted[i] : counted[i][k] \in Places
  BY <1>1
<1>3. \A k \in DOMAIN counted[i] : Taken(counted[i][k])
  BY DEF Taken
<1> QED
  BY <1>1, <1>2, <1>3 DEF IInv, Behind

LEMMA MessagesStay ==
  ASSUME IInv, Grown, UNCHANGED <<skip, counted>>
  PROVE  WholeMessages' /\ CountedOnce'
<1>1. TypeOK /\ WholeMessages /\ CountedOnce
  BY DEF IInv
<1>2. CountedOnce'
  BY <1>1 DEF CountedOnce
<1>3. ASSUME NEW c \in Range(counted)
      PROVE  LET end == c[Len(c)]
             IN  Uncut(end)' => /\ At(end)'.end = "full" /\ InOrder(c)
                                /\ Range(c) = Message(end)'
  <2> DEFINE end == c[Len(c)]
  <2>1. PICK i \in DOMAIN counted : c = counted[i]
    BY DEF Range
  <2>2. end[1] \in DOMAIN log /\ end[2] \in 1 .. Size(end[1])
    BY <2>1, CountedTypes
  <2>3. Uncut(end) => At(end).end = "full" /\ InOrder(c) /\ Range(c) = Message(end)
    BY <1>1 DEF WholeMessages
  <2> HIDE DEF end
  <2>4. /\ Message(end)' = Message(end) /\ At(end)' = At(end)
        /\ Uncut(end)' <=> Uncut(end)
    BY <1>1, <2>2, MessageStays
  <2> QED
    BY <2>3, <2>4 DEF end
<1>4. WholeMessages'
  BY <1>3 DEF WholeMessages
<1> QED
  BY <1>2, <1>4
LEMMA ReadingStays ==
  ASSUME IInv, Unnoticed, NEW g \in DOMAIN log, Reading(g)'
  PROVE  Reading(g)
<1>1. TypeOK /\ Numbered
  BY DEF IInv
<1>2. g \in DOMAIN log'
  BY <1>1, LogTypes DEF Unnoticed
<1> QED
  BY <1>1, <1>2, StillReading DEF Unnoticed

LEMMA UnnoticedBehind ==
  ASSUME IInv, Unnoticed
  PROVE  Behind'
<1>1. TypeOK /\ Numbered /\ Behind /\ Handle
  BY DEF IInv
<1>2. counted' = counted /\ tf' = tf
  BY DEF Unnoticed
<1>3. ASSUME NEW q \in Places, Taken(q)
      PROVE  /\ q[1] \in DOMAIN log' /\ q[2] \in 1 .. Size(q[1])'
             /\ tf.file = None => log'[q[1]].file # path'
             /\ tf.file # None => log'[q[1]].file <= tf.file
             /\ tf.live /\ Reading(q[1])' => q[2] <= tf.off /\ tf.off <= Size(q[1])'
  <2>1. /\ q[1] \in DOMAIN log /\ q[2] \in 1 .. Size(q[1])
        /\ tf.file = None => log[q[1]].file # path
        /\ tf.file # None => log[q[1]].file <= tf.file
        /\ tf.live /\ Reading(q[1]) => q[2] <= tf.off /\ tf.off <= Size(q[1])
    BY <1>1, <1>3 DEF Behind
  <2>2. /\ log'[q[1]].file = log[q[1]].file /\ Size(q[1]) <= Size(q[1])'
        /\ q[1] \in DOMAIN log' /\ Size(q[1]) \in Nat
    BY <1>1, <2>1, LogTypes DEF Unnoticed, Grown
  <2>3. Size(q[1])' \in Int
    BY <2>2 DEF Unnoticed, Size
  <2>4. /\ log[q[1]].file <= log[Latest].file
        /\ log[q[1]].file # None /\ log[q[1]].file \in Nat /\ log[Latest].file \in Nat
    BY <1>1, <2>1, LogTypes, LatestGeneration DEF Numbered, None
  <2>5. tf.file = None => log'[q[1]].file # path'
    BY <2>1, <2>2, <2>4 DEF Unnoticed
  <2>6. Reading(q[1])' => Reading(q[1])
    BY <2>1, ReadingStays
  <2>7. q[2] \in Int /\ tf.off \in Int /\ Size(q[1]) \in Int
    BY <1>1, <2>1, <2>2, Types
  <2>8. q[2] \in 1 .. Size(q[1])'
    BY <2>1, <2>2, <2>3, <2>7
  <2>9. tf.live /\ Reading(q[1])' => q[2] <= tf.off /\ tf.off <= Size(q[1])'
    BY <2>1, <2>2, <2>3, <2>6, <2>7
  <2> QED
    BY <2>1, <2>2, <2>5, <2>8, <2>9
<1>4. \A q : Taken(q)' <=> Taken(q)
  BY <1>2 DEF Taken
<1> QED
  BY <1>1, <1>2, <1>3, <1>4 DEF Behind

LEMMA EmptyDomain ==
  ASSUME NEW c \in Seq(Places), DOMAIN c = {}
  PROVE  c = <<>>
<1>1. DOMAIN c = 1 .. Len(c) /\ Len(c) \in Nat
  OBVIOUS
<1>2. Len(c) = 0
  BY <1>1
<1> QED
  BY <1>2

\* An agent that has read nothing has nothing buffered.
LEMMA EmptyBuffers ==
  ASSUME IInv, tf.live, tf.off = 0
  PROVE  tf.partial = <<>> /\ \A s \in Streams : tf.cpart[s] = <<>>
<1>1. TypeOK /\ Numbered /\ Buffers /\ Handle
  BY DEF IInv
<1>2. PICK g \in DOMAIN log : Reading(g)
  BY <1>1 DEF Handle, NoTail
<1>3. g \in Nat /\ Size(g) \in Nat /\ skip \in Nat /\ tf.partial \in Seq(Places)
      /\ tf.cpart \in [Streams -> Seq(Places)]
  BY <1>1, LogTypes, Types
<1>4. LineUnderWay(g) /\ \A s \in Streams : ChunksOf(s, g)
  BY <1>1, <1>2, <1>3 DEF Buffers
<1>5. Base(g) \in Nat /\ Len(tf.partial) \in Nat
  BY <1>3 DEF Base
<1>6. Len(tf.partial) = 0
  BY <1>4, <1>5 DEF LineUnderWay, Cut
<1>7. tf.partial = <<>>
  BY <1>3, <1>6
<1>8. ASSUME NEW s \in Streams PROVE tf.cpart[s] = <<>>
  <2>1. Begun(g, s, tf.off) = {}
    BY DEF Begun
  <2>2. DOMAIN tf.cpart[s] = {} /\ tf.cpart[s] \in Seq(Places)
    BY <1>3, <1>4, <2>1 DEF ChunksOf
  <2> QED
    BY <2>2, EmptyDomain
<1> QED
  BY <1>7, <1>8

LEMMA ChunksStay ==
  ASSUME NEW g, NEW s, ChunksOf(s, g), tf'.cpart = tf.cpart, Cut' = Cut,
         \A q : Taken(q)' <=> Taken(q),
         Begun(g, s, tf.off)' = Begun(g, s, tf.off),
         \A i \in Begun(g, s, tf.off) : At(<<g, i>>)' = At(<<g, i>>)
  PROVE  ChunksOf(s, g)'
<1>1. InOrder(tf.cpart[s])'
  BY DEF ChunksOf, InOrder
<1>2. ASSUME NEW k \in DOMAIN tf.cpart[s], NEW q, q = tf.cpart[s][k]
      PROVE  q[1] = g /\ q[2] <= Cut' /\ q[2] \in Begun(g, s, tf.off)' /\ ~Taken(q)'
  <2>1. q[1] = g /\ q[2] <= Cut /\ q[2] \in Begun(g, s, tf.off) /\ ~Taken(q)
    BY <1>2 DEF ChunksOf
  <2> QED
    BY <2>1
<1>3. (\E i \in Begun(g, s, tf.off)' : At(<<g, i>>)'.first) =>
        \A i \in Begun(g, s, tf.off)' :
          i <= Cut' => \E k \in DOMAIN tf'.cpart[s] : tf'.cpart[s][k] = <<g, i>>
  BY DEF ChunksOf
<1> QED
  BY <1>1, <1>2, <1>3 DEF ChunksOf

LEMMA UnnoticedBuffers ==
  ASSUME IInv, Unnoticed
  PROVE  Buffers'
<1>1. /\ TypeOK /\ Numbered /\ Buffers /\ Handle /\ tf.off \in Nat
      /\ tf.partial \in Seq(Places) /\ skip \in Nat
  BY Types DEF IInv
<1>2. tf' = tf /\ skip' = skip /\ counted' = counted /\ Grown
  BY DEF Unnoticed
<1>3. Cut' = Cut /\ \A q : Taken(q)' <=> Taken(q)
  BY <1>2 DEF Cut, Taken
<1>4. ASSUME NEW g \in DOMAIN log', tf.live, Reading(g)', tf.off <= Size(g)'
      PROVE  /\ LineUnderWay(g)'
             /\ \A k \in DOMAIN tf.partial : ~Taken(tf.partial[k])
             /\ \A s \in Streams : ChunksOf(s, g)'
  <2>1. CASE g \in DOMAIN log
    <3>1. Reading(g) /\ tf.off <= Size(g) /\ Size(g) \in Nat
      BY <1>1, <1>4, <2>1, ReadingStays, LogTypes DEF Unnoticed
    <3>2. /\ LineUnderWay(g)
          /\ \A k \in DOMAIN tf.partial : ~Taken(tf.partial[k])
          /\ \A s \in Streams : ChunksOf(s, g)
      BY <1>1, <1>4, <2>1, <3>1 DEF Buffers
    <3>3. \A s : Begun(g, s, tf.off)' = Begun(g, s, tf.off)
      <4>1. tf.off \in 0 .. Size(g)
        BY <1>1, <3>1
      <4>2. \A n \in 0 .. Size(g) : \A s : Begun(g, s, n)' = Begun(g, s, n)
        BY <1>1, <1>2, <2>1, BegunStays
      <4> QED
        BY <1>2, <4>1, <4>2
    <3>4. Base(g)' = Base(g) /\ Base(g) \in Nat /\ Len(tf.partial) \in Nat
      BY <1>1, <1>2 DEF Base
    <3>5. \A i \in 1 .. tf.off : At(<<g, i>>)' = At(<<g, i>>)
      BY <1>1, <1>2, <2>1, <3>1 DEF Grown
    <3>6. LineUnderWay(g)'
      <4>1. ASSUME NEW k \in DOMAIN tf.partial
            PROVE  Cut + k \in 1 .. tf.off
        BY <1>1, <3>2, <3>4 DEF LineUnderWay, Cut
      <4>2. Cut > Base(g) => Cut \in 1 .. tf.off
        BY <1>1, <3>4 DEF Cut
      <4>3. DOMAIN tf.partial # {} => tf.off \in 1 .. tf.off
        BY <1>1, <4>1
      <4> QED
        BY <1>2, <1>3, <3>2, <3>4, <3>5, <4>1, <4>2, <4>3 DEF LineUnderWay
    <3>7. ASSUME NEW s \in Streams PROVE ChunksOf(s, g)'
      <4>1. \A i \in Begun(g, s, tf.off) : At(<<g, i>>)' = At(<<g, i>>)
        BY <3>5 DEF Begun
      <4> QED
        BY <1>2, <1>3, <3>2, <3>3, <4>1, ChunksStay
    <3> QED
      BY <3>2, <3>6, <3>7
  <2>2. CASE g \notin DOMAIN log
    <3>1. Size(g)' = 0 /\ g \in Nat \ {0, 1}
      BY <1>1, <1>4, <2>2, LogTypes DEF Unnoticed, Numbered
    <3>2. tf.off = 0 /\ Base(g)' = 0
      BY <1>1, <1>4, <3>1 DEF Base
    <3>3. tf.partial = <<>> /\ \A s \in Streams : tf.cpart[s] = <<>>
      BY <1>4, <3>2, EmptyBuffers
    <3>4. LineUnderWay(g)'
      BY <1>2, <3>2, <3>3 DEF LineUnderWay, Cut
    <3>5. ASSUME NEW s \in Streams PROVE ChunksOf(s, g)'
      <4>1. Begun(g, s, tf.off)' = {}
        BY <1>2, <3>2 DEF Begun
      <4> QED
        BY <1>2, <3>3, <4>1 DEF ChunksOf, InOrder
    <3> QED
      BY <3>3, <3>4, <3>5
  <2> QED
    BY <2>1, <2>2
<1> QED
  BY <1>2, <1>3, <1>4 DEF Buffers
-------------------------------------------------------------------------------
(* The runtime.                                                            *)

\* What a step of the runtime must do for the agent's part of the invariant.
Tolerable ==
  /\ Unnoticed
  /\ poll = "finish" => path' # None /\ path' # tf.file
  /\ tf.gone = "over" => path' # tf.file /\ (path' = None => writer' = None)

LEMMA TolerableHandle ==
  ASSUME IInv, Tolerable
  PROVE  Handle'
<1>1. TypeOK /\ Numbered /\ Handle
  BY DEF IInv
<1>2. /\ Grown /\ Latest' \in {Latest, Latest + 1} /\ DOMAIN log' = 1 .. Latest'
      /\ UNCHANGED <<tf, poll>>
  BY DEF Tolerable, Unnoticed
<1>3. tf.file # None => \E g \in DOMAIN log' : Reading(g)'
  <2> SUFFICES ASSUME tf.file # None PROVE \E g \in DOMAIN log' : Reading(g)'
    OBVIOUS
  <2>1. PICK g \in DOMAIN log : Reading(g)
    BY <1>1 DEF Handle
  <2>2. Latest \in Nat /\ DOMAIN log = 1 .. Latest /\ g \in DOMAIN log'
    BY <1>1, <1>2, LogTypes
  <2>3. CASE Latest' # Latest /\ log'[Latest'].file = tf.file
    BY <1>2, <2>2, <2>3 DEF Reading
  <2>4. CASE Latest' = Latest \/ log'[Latest'].file # tf.file
    <3>1. ASSUME NEW h \in DOMAIN log', log'[h].file = tf.file PROVE h \in DOMAIN log
      BY <1>2, <2>2, <2>4, <3>1
    <3>2. \A h \in DOMAIN log : log'[h].file = log[h].file
      BY <1>2 DEF Grown
    <3> QED
      BY <1>2, <2>1, <2>2, <3>1, <3>2 DEF Reading
  <2> QED
    BY <2>3, <2>4
<1>4. tf.file = None => path' # 1
  <2>1. path' = log[Latest].file + 1 => path' # 1
    BY <1>1, LogTypes, LatestGeneration DEF Numbered
  <2> QED
    BY <1>1, <2>1 DEF Handle, Tolerable, Unnoticed, None
<1>5. tf.live /\ Reading(1)' => tf.off <= Size(1)'
  <2>1. 1 \in DOMAIN log /\ Size(1) \in Nat /\ Size(1) <= Size(1)' /\ Size(1)' \in Int
    BY <1>1, <1>2, LogTypes DEF Numbered, Grown, Size, Tolerable, Unnoticed
  <2>2. Reading(1)' => Reading(1)
    BY <2>1, ReadingStays DEF Tolerable
  <2> QED
    BY <1>1, <2>1, <2>2, Types DEF Handle
<1> QED
  BY <1>1, <1>2, <1>3, <1>4, <1>5 DEF Handle, Tolerable

LEMMA TolerableInv ==
  ASSUME IInv, TypeOK', Numbered', Texts', Tolerable
  PROVE  IInv'
<1>1. Unnoticed /\ Grown /\ UNCHANGED <<skip, counted>>
  BY DEF Tolerable, Unnoticed
<1>2. Handle'
  BY TolerableHandle
<1>3. Behind' /\ Buffers'
  BY <1>1, UnnoticedBehind, UnnoticedBuffers
<1>4. WholeMessages' /\ CountedOnce'
  BY <1>1, MessagesStay
<1> QED
  BY <1>2, <1>3, <1>4 DEF IInv

\* The files stay as they are.
LEMMA SameFiles ==
  ASSUME TypeOK, Numbered, UNCHANGED <<log, pen>>
  PROVE  /\ Grown /\ Latest' = Latest /\ DOMAIN log' = 1 .. Latest'
         /\ log' \in Seq(FileRecord)
         /\ (Texts => Texts')
         /\ \A g \in DOMAIN log : Size(g)' = Size(g)
<1>1. DOMAIN log = 1 .. Latest /\ Latest \in Nat /\ log \in Seq(FileRecord)
      /\ \A g \in DOMAIN log : Size(g) \in Nat
  BY LogTypes, Types
<1>2. Latest' = Latest /\ \A g : Size(g)' = Size(g) /\ \A i : At(<<g, i>>)' = At(<<g, i>>)
  BY DEF Latest, Size, At
<1>3. Texts => Texts'
  BY <1>2 DEF Texts
<1> QED
  BY <1>1, <1>2, <1>3 DEF Grown

LEMMA WriteInv ==
  ASSUME IInv, NEW s \in Streams, NEW end \in Ends, Write(s, end)
  PROVE  IInv'
<1>1. TypeOK /\ Numbered /\ Texts /\ Handle
  BY DEF IInv
<1>2. Numbered' /\ Texts'
  BY <1>1, WriteTexts
<1>3. /\ log' \in Seq(FileRecord) /\ Grown /\ Latest' = Latest
      /\ \A g \in DOMAIN log : g # Latest => log'[g] = log[g]
      /\ Size(Latest)' = Size(Latest) + 1
  BY <1>1, Written
<1>4. DOMAIN log' = 1 .. Latest' /\ DOMAIN log = 1 .. Latest /\ Latest \in DOMAIN log
      /\ Size(Latest) \in Nat
  BY <1>1, <1>3, LogTypes, LatestGeneration DEF Latest
<1>5. /\ pen' \in [pieces : 0 .. MaxPieces, line : SUBSET Streams,
                   messages : SUBSET Streams]
      /\ UNCHANGED <<path, writer, tf, poll, total, skip, counted>>
      /\ writer # None /\ ~Outgrows
  <2>1. pen.pieces + 1 \in 0 .. MaxPieces
    <3>1. pen.pieces \in Nat /\ pen.pieces < MaxPieces
      BY <1>1, Types DEF Write
    <3>2. MaxPieces \in Nat
      BY TailAssumption
    <3> QED
      BY <3>1, <3>2
  <2>2. (IF end = "torn" THEN {s} ELSE {}) \subseteq Streams
    OBVIOUS
  <2>3. (pen.messages \ {s}) \cup (IF end = "full" THEN {} ELSE {s}) \subseteq Streams
    BY <1>1 DEF TypeOK
  <2> QED
    BY <2>1, <2>2, <2>3 DEF Write
<1>6. TypeOK'
  BY <1>1, <1>3, <1>5 DEF TypeOK, FileRecord
<1>7. ASSUME NEW g \in DOMAIN log, tf.live, Reading(g), tf.off <= Size(g)'
      PROVE  tf.off <= Size(g)
  <2>1. CASE g = Latest
    <3>1. writer = tf.file /\ Generation(tf.file) = g
      BY <1>1, <1>5, <1>7, <2>1, OnlyGeneration DEF Numbered, Reading
    <3>2. Len(Text(writer)) = Size(g)
      BY <3>1 DEF Text, Size
    <3>3. tf.off \in Nat
      BY <1>1, Types
    <3> QED
      BY <1>3, <1>4, <1>5, <1>7, <2>1, <3>1, <3>2, <3>3 DEF Outgrows
  <2>2. CASE g # Latest
    BY <1>3, <1>7, <2>2 DEF Size
  <2> QED
    BY <2>1, <2>2
<1>8. Unnoticed
  BY <1>3, <1>4, <1>5, <1>7 DEF Unnoticed
<1>9. Tolerable
  BY <1>1, <1>5, <1>8 DEF Tolerable, Handle
<1> QED
  BY <1>2, <1>6, <1>9, TolerableInv

LEMMA UnlinkInv ==
  ASSUME IInv, Rename \/ Delete
  PROVE  IInv'
<1>1. TypeOK /\ Numbered /\ Texts /\ Handle
  BY DEF IInv
<1>2. /\ Followed /\ path' = None /\ (Latest < MaxGens \/ writer' = None)
      /\ writer' \in {writer, None}
      /\ UNCHANGED <<log, pen, tf, poll, total, skip, counted>>
  BY DEF Rename, Delete
<1>3. /\ Grown /\ Latest' = Latest /\ DOMAIN log' = 1 .. Latest'
      /\ log' \in Seq(FileRecord) /\ Texts'
      /\ \A g \in DOMAIN log : Size(g)' = Size(g)
      /\ DOMAIN log = 1 .. Latest
  BY <1>1, <1>2, SameFiles, LogTypes
<1>4. TypeOK'
  BY <1>1, <1>2, TailAssumption DEF TypeOK, None
<1>5. Numbered'
  BY <1>1, <1>2, <1>3 DEF Numbered
<1>6. Unnoticed
  BY <1>2, <1>3 DEF Unnoticed
<1>7. Tolerable
  BY <1>1, <1>2, <1>6 DEF Tolerable, Handle, Followed
<1> QED
  BY <1>3, <1>4, <1>5, <1>7, TolerableInv

\* A new generation of the file at the path, or of a new one.
LEMMA GenerateInv ==
  ASSUME IInv, Reopen \/ Truncate \/ Create
  PROVE  IInv'
<1>1. TypeOK /\ Numbered /\ Texts /\ Handle
  BY DEF IInv
<1> DEFINE f == IF path = None THEN NewFile ELSE path
<1>2. /\ NewGeneration(f) /\ Latest < MaxGens
      /\ path' = f /\ writer' = f
      /\ path # None => path' = path
      /\ UNCHANGED <<pen, tf, poll, total, skip, counted>>
  BY <1>1 DEF Reopen, Truncate, Create, Numbered
<1>3. /\ Latest \in DOMAIN log /\ DOMAIN log = 1 .. Latest /\ Latest \in Nat
      /\ log[Latest].file \in 1 .. Latest
      /\ MaxGens \in Nat
      /\ \A g \in DOMAIN log : log[g].file \in Nat /\ log[g].file <= log[Latest].file
  BY <1>1, LogTypes, LatestGeneration, TailAssumption DEF Numbered
<1>4. /\ f \in 1 .. MaxGens /\ f <= Latest + 1 /\ log[Latest].file <= f
      /\ path = None => f = log[Latest].file + 1
      /\ path # None => f = path /\ f = log[Latest].file
  BY <1>1, <1>2, <1>3 DEF NewFile, Numbered
<1> HIDE DEF f
<1>5. /\ log' \in Seq(FileRecord) /\ Grown /\ Latest' = Latest + 1
      /\ \A g \in DOMAIN log : log'[g] = log[g]
      /\ log'[Latest'].file = f /\ Size(Latest)' = 0
  BY <1>1, <1>2, <1>4, Generated
<1>6. DOMAIN log' = 1 .. Latest' /\ Latest' \in DOMAIN log'
      /\ \A g \in DOMAIN log' : g \in DOMAIN log \/ g = Latest'
  BY <1>3, <1>5 DEF Latest
<1>7. TypeOK'
  <2>1. path' \in 0 .. MaxGens /\ writer' \in 0 .. MaxGens
    BY <1>2, <1>3, <1>4
  <2> QED
    BY <1>1, <1>2, <1>5, <2>1 DEF TypeOK, FileRecord
<1>8. Numbered'
  <2>1. /\ \A g \in DOMAIN log : log'[g].file = log[g].file /\ g < Latest'
        /\ Latest' <= MaxGens /\ f \in 1 .. Latest'
    BY <1>2, <1>3, <1>4, <1>5
  <2>2. ASSUME NEW g \in DOMAIN log'
        PROVE  /\ 1 <= log'[g].file /\ log'[g].file <= g
               /\ log'[g].file <= f
    BY <1>1, <1>3, <1>4, <1>5, <1>6, <2>1 DEF Numbered
  <2>3. ASSUME NEW g \in DOMAIN log', NEW h \in DOMAIN log', g <= h
        PROVE  log'[g].file <= log'[h].file
    <3>1. CASE h \in DOMAIN log
      <4>1. g \in DOMAIN log
        BY <1>3, <1>5, <1>6, <2>3, <3>1
      <4> QED
        BY <1>1, <2>1, <2>3, <3>1, <4>1 DEF Numbered
    <3>2. CASE h = Latest'
      BY <1>5, <2>2, <3>2
    <3> QED
      BY <1>6, <3>1, <3>2
  <2>4. f # None /\ 1 <= Latest'
    BY <1>3, <1>4, <1>5 DEF None
  <2> QED
    BY <1>2, <1>5, <2>1, <2>2, <2>3, <2>4 DEF Numbered
<1>9. Texts'
  <2>1. log'[Latest'].text = <<>> \/ Len(log'[Latest'].text) = 0
    BY <1>5 DEF Size
  <2>2. Unfinished(log'[Latest'].text, pen'.line, pen'.messages)
    BY <1>1, <1>2, <2>1 DEF Texts, Unfinished
  <2>3. ASSUME NEW g \in DOMAIN log'
        PROVE  Len(log'[g].text) <= pen'.pieces /\ Wellformed(log'[g].text)
    <3>1. CASE g \in DOMAIN log
      BY <1>1, <1>2, <1>5, <3>1 DEF Texts, Size
    <3>2. CASE g = Latest'
      BY <1>1, <1>2, <2>1, <3>2, Types DEF Wellformed
    <3> QED
      BY <1>6, <3>1, <3>2
  <2> QED
    BY <2>2, <2>3 DEF Texts, Size
<1>10. Unnoticed
  BY <1>2, <1>3, <1>4, <1>5, <1>6 DEF Unnoticed, Size
<1>11. Tolerable
  <2>1. path = None => f # tf.file
    BY <1>1, <1>3, <1>4 DEF Handle, Reading, None
  <2> QED
    BY <1>1, <1>2, <1>4, <1>10, <2>1 DEF Tolerable, Handle, None
<1> QED
  BY <1>7, <1>8, <1>9, <1>11, TolerableInv
-------------------------------------------------------------------------------
(* The agent, as long as it consumes nothing.                              *)

LEMMA FilesStay ==
  ASSUME IInv, UNCHANGED <<files, skip>>
  PROVE  /\ Numbered' /\ Texts' /\ log' \in Seq(FileRecord) /\ Grown /\ Latest' = Latest
         /\ DOMAIN log' = DOMAIN log
         /\ \A g : Size(g)' = Size(g) /\ Base(g)' = Base(g)
         /\ \A q : At(q)' = At(q)
         /\ \A g, s, n : Begun(g, s, n)' = Begun(g, s, n)
<1>1. TypeOK /\ Numbered /\ Texts /\ log' = log /\ UNCHANGED <<log, pen, path, writer, skip>>
  BY DEF IInv, files
<1>2. /\ Texts' /\ log' \in Seq(FileRecord) /\ Grown /\ Latest' = Latest
  BY <1>1, SameFiles
<1>3. Numbered'
  BY <1>1 DEF Numbered, Latest
<1>4. \A g : Size(g)' = Size(g) /\ Base(g)' = Base(g)
  BY <1>1 DEF Size, Base
<1>5. \A q : At(q)' = At(q)
  BY <1>1 DEF At
<1>6. \A g, s, n : Begun(g, s, n)' = Begun(g, s, n)
  BY <1>1 DEF Begun, Skipped, At
<1> QED
  BY <1>1, <1>2, <1>3, <1>4, <1>5, <1>6

TailRecord ==
  [file : 0 .. MaxGens, live : BOOLEAN, off : 0 .. MaxPieces,
   partial : Seq(Places), cpart : [Streams -> Seq(Places)],
   gone : {"no", "yes", "over"}]

LEMMA TypeStays ==
  ASSUME TypeOK, UNCHANGED <<files, skip, counted>>, tf' \in TailRecord,
         poll' \in {"idle", "read", "stat", "finish"}, total' \in {0, total}
  PROVE  TypeOK'
<1>1. total' \in 0 .. Limit
  BY TailAssumption DEF TypeOK
<1> QED
  BY <1>1 DEF TypeOK, TailRecord, files

LEMMA TailTypes ==
  ASSUME TypeOK
  PROVE  /\ tf \in TailRecord
         /\ \A live \in {tf.live, FALSE} :
              [tf EXCEPT !.live = live] \in TailRecord
         /\ \A gone \in {"no", "yes", "over"} : [tf EXCEPT !.gone = gone] \in TailRecord
         /\ NoTail \in TailRecord
         /\ \A f \in 0 .. MaxGens : Opened(f, 0) \in TailRecord
         /\ \A t \in TailRecord : Rewound(t) \in TailRecord
<1>1. tf \in TailRecord
  BY DEF TypeOK, TailRecord
<1>2. NoTail \in TailRecord
  BY TailAssumption DEF NoTail, TailRecord, None
<1>3. ASSUME NEW f \in 0 .. MaxGens PROVE Opened(f, 0) \in TailRecord
  <2> DEFINE t == NoTail
  <2>1. t \in TailRecord /\ 0 \in 0 .. MaxPieces
    BY <1>2, TailAssumption
  <2>2. Opened(f, 0) = [t EXCEPT !.file = f, !.live = TRUE, !.off = 0]
    BY DEF Opened
  <2> HIDE DEF t
  <2> QED
    BY <2>1, <2>2 DEF TailRecord
<1>4. NoTail.cpart \in [Streams -> Seq(Places)]
  BY <1>2 DEF TailRecord
<1>5. ASSUME NEW t \in TailRecord PROVE Rewound(t) \in TailRecord
  <2> DEFINE c == NoTail.cpart
             e == <<>>
  <2>1. c \in [Streams -> Seq(Places)] /\ 0 \in 0 .. MaxPieces /\ e \in Seq(Places)
    BY <1>4, TailAssumption
  <2>2. Rewound(t) = [t EXCEPT !.off = 0, !.partial = e, !.cpart = c]
    BY DEF Rewound
  <2> HIDE DEF c, e
  <2> QED
    BY <2>1, <2>2 DEF TailRecord
<1> QED
  BY <1>1, <1>2, <1>3, <1>5 DEF TailRecord

LEMMA CountsStay ==
  ASSUME IInv, UNCHANGED <<files, skip, counted>>
  PROVE  /\ CountedOnce' /\ WholeMessages'
         /\ \A q : Taken(q)' <=> Taken(q)
<1>1. Grown
  BY FilesStay
<1>2. CountedOnce' /\ WholeMessages'
  BY <1>1, MessagesStay
<1> QED
  BY <1>2 DEF Taken

\* What is buffered stays, and the handle is in order.
Quiet ==
  /\ UNCHANGED <<files, skip, counted>>
  /\ tf'.file = tf.file /\ tf'.off = tf.off /\ tf'.partial = tf.partial
  /\ tf'.cpart = tf.cpart
  /\ tf'.live => tf.live
  /\ tf.file = None => tf' = tf /\ poll' = poll
  /\ poll' = "finish" => path # None /\ path # tf.file
  /\ tf'.gone = "over" => path # tf.file /\ (path = None => writer = None)

LEMMA QuietInv ==
  ASSUME IInv, TypeOK', Quiet
  PROVE  IInv'
<1>1. TypeOK /\ Handle /\ Behind /\ Buffers
  BY DEF IInv
<1>2. UNCHANGED <<files, skip, counted>> /\ path' = path /\ writer' = writer /\ log' = log
  BY DEF Quiet, files
<1>3. CountedOnce' /\ WholeMessages' /\ \A q : Taken(q)' <=> Taken(q)
  BY <1>2, CountsStay
<1>4. /\ Numbered' /\ Texts' /\ DOMAIN log' = DOMAIN log
      /\ \A g : Size(g)' = Size(g) /\ Base(g)' = Base(g)
      /\ \A q : At(q)' = At(q)
      /\ \A g, s, n : Begun(g, s, n)' = Begun(g, s, n)
  BY <1>2, FilesStay
<1>5. /\ tf'.file = tf.file /\ tf'.off = tf.off /\ tf'.partial = tf.partial
      /\ tf'.cpart = tf.cpart /\ (tf'.live => tf.live)
  BY DEF Quiet
<1>6. \A g : Reading(g)' <=> Reading(g)
  BY <1>2, <1>5 DEF Reading
<1>7. Handle'
  BY <1>1, <1>2, <1>4, <1>5, <1>6 DEF Handle, Quiet
<1>8. Behind'
  BY <1>1, <1>2, <1>3, <1>4, <1>5, <1>6 DEF Behind
<1>9. Buffers'
  <2>1. Cut' = Cut
    BY <1>5 DEF Cut
  <2>2. \A g : LineUnderWay(g)' <=> LineUnderWay(g)
    BY <1>4, <1>5, <2>1 DEF LineUnderWay
  <2>3. ASSUME NEW g, NEW s, ChunksOf(s, g) PROVE ChunksOf(s, g)'
    <3>1. Begun(g, s, tf.off)' = Begun(g, s, tf.off)
      BY <1>4, <1>5
    <3> QED
      BY <1>3, <1>4, <1>5, <2>1, <2>3, <3>1, ChunksStay
  <2> QED
    BY <1>1, <1>2, <1>3, <1>4, <1>5, <1>6, <2>2, <2>3 DEF Buffers
<1> QED
  BY <1>3, <1>4, <1>7, <1>8, <1>9 DEF IInv

\* The agent starts over, with file f or none.
Fresh(f) ==
  /\ UNCHANGED <<files, skip, counted>>
  /\ tf'.file = f /\ tf'.off = 0 /\ tf'.partial = <<>>
  /\ \A s \in Streams : tf'.cpart[s] = <<>>
  /\ f = None => tf' = NoTail /\ path = None
  /\ f # None => f = log[Latest].file
  /\ poll' = "idle" /\ tf'.gone = "no"

LEMMA FreshInv ==
  ASSUME IInv, TypeOK', NEW f \in Nat, Fresh(f),
         tf'.live => /\ ~Reading(1)'
                     /\ \A q \in Places : Taken(q) => ~Reading(q[1])'
  PROVE  IInv'
<1>1. TypeOK /\ Numbered /\ Handle /\ Behind /\ Buffers
  BY DEF IInv
<1>2. UNCHANGED <<files, skip, counted>> /\ path' = path /\ writer' = writer /\ log' = log
  BY DEF Fresh, files
<1>3. CountedOnce' /\ WholeMessages' /\ \A q : Taken(q)' <=> Taken(q)
  BY <1>2, CountsStay
<1>4. /\ Numbered' /\ Texts' /\ DOMAIN log' = DOMAIN log
      /\ \A g : Size(g)' = Size(g) /\ Base(g)' = Base(g)
      /\ \A q : At(q)' = At(q)
      /\ \A g, s, n : Begun(g, s, n)' = Begun(g, s, n)
  BY <1>2, FilesStay
<1>5. /\ tf'.file = f /\ tf'.off = 0 /\ tf'.partial = <<>>
      /\ \A s \in Streams : tf'.cpart[s] = <<>>
      /\ f = None => tf' = NoTail /\ path = None
      /\ f # None => f = log[Latest].file
      /\ poll' = "idle" /\ tf'.gone = "no"
  BY DEF Fresh
<1>6. /\ DOMAIN log = 1 .. Latest /\ Latest \in DOMAIN log
      /\ \A g \in DOMAIN log : /\ log[g].file \in Nat /\ log[g].file <= log[Latest].file
                               /\ 1 <= log[g].file /\ Size(g) \in Nat
  BY <1>1, LogTypes, LatestGeneration DEF Numbered
<1>7. Handle'
  <2>1. f # None => Reading(Latest)'
    BY <1>2, <1>4, <1>5, <1>6 DEF Reading, Latest
  <2>2. f # None => \E g \in DOMAIN log' : Reading(g)'
    BY <1>2, <1>6, <2>1 DEF Latest
  <2> QED
    BY <1>2, <1>5, <2>2 DEF Handle, None
<1>8. Behind'
  <2>1. ASSUME NEW q \in Places, Taken(q)
        PROVE  /\ q[1] \in DOMAIN log /\ q[2] \in 1 .. Size(q[1])
               /\ f = None => log[q[1]].file # path
               /\ f # None => log[q[1]].file <= f
               /\ tf'.live => ~Reading(q[1])'
    <3>1. q[1] \in DOMAIN log /\ q[2] \in 1 .. Size(q[1])
      BY <1>1, <2>1 DEF Behind
    <3> QED
      BY <1>5, <1>6, <2>1, <3>1 DEF None
  <2> QED
    BY <1>1, <1>2, <1>3, <1>4, <1>5, <2>1 DEF Behind
<1>9. Buffers'
  <2> SUFFICES ASSUME NEW g \in DOMAIN log, Reading(g)', tf'.live
               PROVE  LineUnderWay(g)' /\ \A s \in Streams : ChunksOf(s, g)'
    BY <1>4, <1>5 DEF Buffers
  <2>1. g # 1 /\ Base(g)' = 0
    BY DEF Base
  <2>2. LineUnderWay(g)'
    BY <1>5, <2>1 DEF LineUnderWay, Cut
  <2>3. ASSUME NEW s \in Streams PROVE ChunksOf(s, g)'
    <3>1. Begun(g, s, tf.off)' = {}
      BY <1>5 DEF Begun
    <3> QED
      BY <1>5, <3>1 DEF ChunksOf, InOrder
  <2> QED
    BY <2>2, <2>3
<1> QED
  BY <1>3, <1>4, <1>7, <1>8, <1>9 DEF IInv
LEMMA WaitingInv ==
  ASSUME IInv, PollBegin \/ ReadEnds \/ Rotated \/ Follow(FALSE) \/ GracePasses
  PROVE  IInv'
<1>1. TypeOK /\ Handle
  BY DEF IInv
<1>2. TypeOK'
  <2>1. /\ UNCHANGED <<files, skip, counted>> /\ total' \in {0, total}
        /\ poll' \in {poll, "idle", "read", "stat", "finish"}
        /\ \/ tf' = tf \/ tf' = [tf EXCEPT !.live = FALSE]
           \/ \E gone \in {"no", "over"} : tf' = [tf EXCEPT !.gone = gone]
    BY DEF PollBegin, ReadEnds, Rotated, Follow, GracePasses
  <2>2. tf' \in TailRecord
    BY <1>1, <2>1, TailTypes
  <2>3. poll \in {"idle", "read", "stat", "finish"}
    BY <1>1 DEF TypeOK
  <2> QED
    BY <1>1, <2>1, <2>2, <2>3, TypeStays
<1>3. CASE PollBegin \/ ReadEnds
  <2>1. Quiet
    BY <1>1, <1>3 DEF PollBegin, ReadEnds, Quiet, Handle
  <2> QED
    BY <1>2, <2>1, QuietInv
<1>4. CASE Rotated \/ Follow(FALSE)
  <2>1. tf.file # None /\ path # None /\ path # tf.file
    BY <1>1, <1>4 DEF Rotated, Follow, Handle
  <2>2. /\ UNCHANGED <<files, skip, counted>>
        /\ tf'.file = tf.file /\ tf'.off = tf.off /\ tf'.partial = tf.partial
        /\ tf'.cpart = tf.cpart /\ (tf'.live => tf.live)
    BY <1>1, <1>4 DEF Rotated, Follow, TypeOK
  <2>3. Quiet
    BY <1>1, <2>1, <2>2 DEF Quiet
  <2> QED
    BY <1>2, <2>3, QuietInv
<1>5. CASE GracePasses
  <2>1. tf.file # None /\ path # tf.file
    BY <1>1, <1>5 DEF GracePasses, Handle, NoTail
  <2>2. Quiet
    BY <1>1, <1>5, <2>1 DEF GracePasses, Quiet, TypeOK, Handle
  <2> QED
    BY <1>2, <2>2, QuietInv
<1> QED
  BY <1>3, <1>4, <1>5

LEMMA GoneInv ==
  ASSUME IInv, Gone
  PROVE  IInv'
<1>1. TypeOK /\ Numbered /\ Handle
  BY DEF IInv
<1>2. /\ UNCHANGED <<files, skip, counted>> /\ path = None
      /\ tf.file # None /\ poll' = "idle" /\ log' = log
  BY <1>1 DEF Gone, Handle, files
<1>3. CASE tf.gone = "over" /\ total = 0
  <2>1. tf' = NoTail
    BY <1>3 DEF Gone
  <2>2. TypeOK'
    BY <1>1, <1>2, <2>1, TailTypes, TypeStays DEF Gone
  <2>3. Fresh(None) /\ ~tf'.live
    BY <1>2, <2>1 DEF Fresh, NoTail
  <2> QED
    BY <2>2, <2>3, FreshInv DEF None
<1>4. CASE ~(tf.gone = "over" /\ total = 0)
  <2>1. tf' = IF tf.gone = "no" THEN [tf EXCEPT !.gone = "yes"] ELSE tf
    BY <1>4 DEF Gone
  <2>2. TypeOK'
    <3>1. tf' \in TailRecord /\ total' = 0
      BY <1>1, <2>1, TailTypes DEF Gone
    <3> QED
      BY <1>1, <1>2, <3>1, TypeStays
  <2>3. Quiet
    BY <1>1, <1>2, <2>1 DEF Quiet, TypeOK, Handle
  <2> QED
    BY <2>2, <2>3, QuietInv
<1> QED
  BY <1>3, <1>4

\* A file that the agent opens, or comes to again, is the newest one.
LEMMA OpenInv ==
  ASSUME IInv, path # None, tf' = Opened(path, 0), poll' = "idle", total' \in {0, total},
         UNCHANGED <<files, skip, counted>>,
         path # tf.file
  PROVE  IInv'
<1>1. TypeOK /\ Numbered /\ Handle /\ Behind
  BY DEF IInv
<1>2. /\ tf'.file = path /\ tf'.live /\ tf'.off = 0 /\ tf'.partial = <<>>
      /\ \A s \in Streams : tf'.cpart[s] = <<>>
      /\ tf'.gone = "no"
  BY DEF Opened, NoTail
<1>3. TypeOK'
  <2>1. path \in 0 .. MaxGens
    BY <1>1 DEF TypeOK
  <2> QED
    BY <1>1, <2>1, TailTypes, TypeStays
<1>4. /\ path = log[Latest].file /\ log' = log /\ path \in Nat /\ Latest \in DOMAIN log
      /\ \A g \in DOMAIN log : log[g].file \in Nat /\ log[g].file <= path
      /\ 1 \in DOMAIN log /\ log[1].file = 1
  BY <1>1, LogTypes, LatestGeneration DEF Numbered, files
<1>5. Fresh(path)
  BY <1>2, <1>4 DEF Fresh
<1>6. path # 1
  <2>1. CASE tf.file = None
    BY <1>1, <2>1 DEF Handle
  <2>2. CASE tf.file # None
    <3>1. PICK g \in DOMAIN log : log[g].file = tf.file
      BY <1>1, <2>2 DEF Handle, Reading
    <3> QED
      BY <1>1, <1>4, <3>1 DEF Numbered
  <2> QED
    BY <2>1, <2>2
<1>7. ASSUME NEW q \in Places, Taken(q)
      PROVE  q[1] \in DOMAIN log /\ log[q[1]].file # path
  <2>1. /\ q[1] \in DOMAIN log
        /\ tf.file = None => log[q[1]].file # path
        /\ tf.file # None => log[q[1]].file <= tf.file
    BY <1>1, <1>7 DEF Behind
  <2>2. tf.file # None => tf.file \in Nat /\ tf.file <= path
    BY <1>1, <1>4 DEF Handle, Reading
  <2> QED
    BY <1>4, <2>1, <2>2
<1>8. \A g : Reading(g)' => log[g].file = path
  BY <1>2, <1>4 DEF Reading
<1>9. ~Reading(1)' /\ \A q \in Places : Taken(q) => ~Reading(q[1])'
  BY <1>4, <1>6, <1>7, <1>8
<1> QED
  BY <1>3, <1>4, <1>5, <1>9, FreshInv

LEMMA FollowInv ==
  ASSUME IInv, Follow(TRUE)
  PROVE  IInv'
<1>1. Handle
  BY DEF IInv
<1>2. /\ path # None /\ path # tf.file /\ tf' = Opened(path, 0) /\ poll' = "idle"
      /\ total' = 0 /\ UNCHANGED <<files, skip, counted>>
  BY <1>1 DEF Follow, Handle
<1> QED
  BY <1>2, OpenInv

LEMMA RescanInv ==
  ASSUME IInv, Rescan
  PROVE  IInv'
<1>1. TypeOK /\ Handle
  BY DEF IInv
<1>2. UNCHANGED <<files, poll, total, skip, counted>> /\ tf.file = None /\ poll = "idle"
  BY DEF Rescan
<1>3. CASE path = None
  <2>1. tf' = tf
    BY <1>3 DEF Rescan
  <2>2. TypeOK' /\ Quiet
    BY <1>1, <1>2, <2>1 DEF TypeOK, Quiet, Handle, files
  <2> QED
    BY <2>2, QuietInv
<1>4. CASE path # None
  <2>1. tf' = Opened(path, 0) /\ path # tf.file
    BY <1>2, <1>4 DEF Rescan
  <2> QED
    BY <1>2, <1>4, <2>1, OpenInv
<1> QED
  BY <1>3, <1>4

LEMMA PresentInv ==
  ASSUME IInv, Present
  PROVE  IInv'
<1>1. TypeOK /\ Numbered /\ Handle /\ Behind
  BY DEF IInv
<1>2. /\ path # None /\ tf.file = path /\ poll' = "idle" /\ total' = 0
      /\ UNCHANGED <<files, skip, counted>> /\ log' = log
  BY DEF Present, files
<1>3. /\ Latest \in DOMAIN log /\ Reading(Latest) /\ Generation(path) = Latest
      /\ path = log[Latest].file /\ path \in Nat
      /\ \A g \in DOMAIN log : Reading(g) => g = Latest
      /\ Size(Latest) \in Nat
  BY <1>1, <1>2, Types, LogTypes, LatestGeneration, OnlyGeneration DEF Numbered
<1> DEFINE t == [tf EXCEPT !.gone = "no"]
<1>4. CASE Size(Latest) < tf.off
  <2>1. tf' = Rewound(t)
    BY <1>3, <1>4 DEF Present, Text, Size
  <2>2. TypeOK'
    <3>1. tf' \in TailRecord
      BY <1>1, <2>1, TailTypes
    <3> QED
      BY <1>1, <1>2, <3>1, TypeStays
  <2>3. Fresh(path)
    BY <1>1, <1>2, <1>3, <2>1 DEF Fresh, Rewound, NoTail, TypeOK
  <2>4. tf'.live = tf.live /\ tf'.file = tf.file
    BY <1>1, <2>1 DEF Rewound, TypeOK
  <2>5. \A g : Reading(g)' <=> Reading(g)
    BY <1>2, <2>4 DEF Reading
  <2>6. tf.live => ~Reading(1)
    BY <1>1, <1>3, <1>4, Types DEF Handle
  <2>7. ASSUME tf.live, NEW q \in Places, Taken(q) PROVE ~Reading(q[1])
    BY <1>1, <1>3, <1>4, <2>7, Types DEF Behind
  <2> QED
    BY <1>3, <2>2, <2>3, <2>4, <2>5, <2>6, <2>7, FreshInv
<1>5. CASE ~(Size(Latest) < tf.off)
  <2>1. tf' = t
    BY <1>3, <1>5 DEF Present, Text, Size
  <2>2. TypeOK'
    <3>1. tf' \in TailRecord
      BY <1>1, <2>1, TailTypes
    <3> QED
      BY <1>1, <1>2, <3>1, TypeStays
  <2>3. Quiet
    BY <1>1, <1>2, <2>1 DEF Quiet, TypeOK
  <2> QED
    BY <2>2, <2>3, QuietInv
<1> QED
  BY <1>4, <1>5
-------------------------------------------------------------------------------
(* The agent, as it consumes a piece.                                      *)

\* The agent comes to what follows the first n pieces of generation g.
Ahead(g, n) == tf.live /\ Reading(g) /\ n = tf.off /\ n < Size(g)

LEMMA Reaches ==
  ASSUME IInv, CanRead
  PROVE  \E g \in DOMAIN log : \E n \in Nat : Ahead(g, n) /\ NextPlace = <<g, n + 1>>
<1>1. TypeOK /\ Handle
  BY DEF IInv
<1>2. tf.live /\ Len(Text(tf.file)) - tf.off > 0 /\ tf.off \in Nat
  BY <1>1, Types DEF CanRead, Unread
<1>3. PICK g \in DOMAIN log : Reading(g)
  BY <1>1, <1>2 DEF Handle, NoTail
<1>4. Generation(tf.file) = g
  BY <1>1, <1>3, OnlyGeneration
<1>5. tf.off < Size(g)
  BY <1>1, <1>2, <1>4, LogTypes DEF Text, Size
<1> QED
  BY <1>2, <1>3, <1>4, <1>5 DEF Ahead, NextPlace

\* The text around what the agent reads.
LEMMA TextAhead ==
  ASSUME IInv, NEW g \in DOMAIN log, NEW n \in Nat, Ahead(g, n)
  PROVE  /\ g \in 1 .. MaxGens /\ n + 1 \in 1 .. MaxPieces
         /\ \A i \in 1 .. n + 1 :
              /\ At(<<g, i>>) \in Pieces
              /\ At(<<g, i>>).cont => ~At(<<g, i>>).first
         /\ \A i \in 1 .. n : /\ At(<<g, i + 1>>).cont <=> At(<<g, i>>).end = "torn"
                              /\ At(<<g, i + 1>>).cont =>
                                   At(<<g, i + 1>>).stream = At(<<g, i>>).stream
         /\ At(<<g, n + 1>>).first => Begun(g, At(<<g, n + 1>>).stream, n) = {}
<1> DEFINE t == log[g].text
<1>1. TypeOK /\ Numbered /\ Texts
  BY DEF IInv
<1>2. /\ Size(g) \in Nat /\ n + 1 <= Size(g) /\ Size(g) <= pen.pieces /\ pen.pieces \in Nat
      /\ g \in Nat /\ g <= Latest /\ 1 <= g /\ Latest \in Nat
  <2>1. Size(g) \in Nat /\ g \in Nat /\ Latest \in Nat /\ g \in 1 .. Latest
    BY <1>1, LogTypes
  <2>2. n < Size(g) /\ Size(g) <= pen.pieces /\ pen.pieces \in Nat
    BY <1>1, Types DEF Ahead, Texts
  <2> QED
    BY <2>1, <2>2
<1>3. pen.pieces <= MaxPieces /\ Latest <= MaxGens /\ MaxPieces \in Nat /\ MaxGens \in Nat
  BY <1>1, TailAssumption DEF TypeOK, Numbered
<1>4. g \in 1 .. MaxGens /\ n + 1 \in 1 .. MaxPieces
  BY <1>2, <1>3
<1>5. \A i \in 1 .. n + 1 : At(<<g, i>>) \in Pieces /\ At(<<g, i>>) = t[i]
  BY <1>1, <1>2, LogTypes DEF At
<1>6. Wellformed(t) /\ Len(t) = Size(g)
  BY <1>1 DEF Texts, Size
<1> HIDE DEF t
<1>7. ASSUME NEW i \in 1 .. n + 1 PROVE At(<<g, i>>).cont => ~At(<<g, i>>).first
  BY <1>2, <1>5, <1>6 DEF Wellformed
<1>8. ASSUME NEW i \in 1 .. n
      PROVE  /\ At(<<g, i + 1>>).cont <=> At(<<g, i>>).end = "torn"
             /\ At(<<g, i + 1>>).cont => At(<<g, i + 1>>).stream = At(<<g, i>>).stream
  <2>1. i + 1 \in 1 .. Len(t) /\ i + 1 > 1 /\ (i + 1) - 1 = i
    BY <1>2, <1>6
  <2>2. /\ t[i + 1].cont <=> t[i].end = "torn"
        /\ t[i + 1].cont => t[i + 1].stream = t[i].stream
    BY <1>6, <2>1 DEF Wellformed
  <2>3. At(<<g, i + 1>>) = t[i + 1] /\ At(<<g, i>>) = t[i]
    BY <1>5
  <2> QED
    BY <2>2, <2>3
<1>9. ASSUME At(<<g, n + 1>>).first, NEW k \in Begun(g, At(<<g, n + 1>>).stream, n)
      PROVE  FALSE
  <2>1. k \in 1 .. n /\ At(<<g, k>>).stream = At(<<g, n + 1>>).stream
        /\ \A j \in k .. n : At(<<g, j>>).stream = At(<<g, n + 1>>).stream =>
                               At(<<g, j>>).end # "full"
    BY <1>9 DEF Begun
  <2>2. n + 1 \in 1 .. Len(t) /\ (n + 1) - 1 = n
    BY <1>2, <1>6
  <2>3. t[k].stream = t[n + 1].stream /\ t[n + 1].first
    BY <1>5, <1>9, <2>1
  <2>4. Ended(t, t[n + 1].stream, k, n)
    BY <1>6, <2>1, <2>2, <2>3 DEF Wellformed
  <2>5. PICK j \in k .. n : t[j].stream = t[n + 1].stream /\ t[j].end = "full"
    BY <2>4 DEF Ended
  <2>6. j \in 1 .. n + 1 /\ At(<<g, j>>) = t[j] /\ At(<<g, n + 1>>) = t[n + 1]
    BY <1>5, <2>1
  <2> QED
    BY <1>5, <2>1, <2>5, <2>6
<1> QED
  BY <1>4, <1>5, <1>7, <1>8, <1>9

\* The line under way, and where it begins.
LEMMA LineAhead ==
  ASSUME IInv, NEW g \in DOMAIN log, NEW n \in Nat, Ahead(g, n)
  PROVE  /\ Base(g) \in Nat /\ Cut \in Base(g) .. n /\ Len(tf.partial) = n - Cut
         /\ \A i \in Cut + 1 .. n : /\ tf.partial[i - Cut] = <<g, i>>
                                    /\ At(<<g, i>>).end = "torn" /\ At(<<g, i + 1>>).cont
                                    /\ At(<<g, i>>).stream = At(<<g, n + 1>>).stream
         /\ Cut > Base(g) => At(<<g, Cut>>).end # "torn" /\ ~At(<<g, Cut + 1>>).cont
<1>1. /\ LineUnderWay(g) /\ tf.partial \in Seq(Places) /\ n = tf.off /\ skip \in Nat
  <2>1. TypeOK /\ Buffers /\ tf.live /\ Reading(g) /\ n = tf.off /\ n < Size(g)
    BY DEF IInv, Ahead
  <2>2. tf.off <= Size(g)
    BY <2>1, LogTypes
  <2> QED
    BY <2>1, <2>2, Types DEF Buffers
<1>2. /\ Base(g) \in Nat /\ Len(tf.partial) \in Nat /\ Cut = n - Len(tf.partial)
      /\ Base(g) <= Cut /\ DOMAIN tf.partial = 1 .. Len(tf.partial)
  BY <1>1 DEF Base, Cut, LineUnderWay
<1>3. Cut \in Base(g) .. n /\ Cut \in Nat /\ Len(tf.partial) = n - Cut
  BY <1>2
<1>4. ASSUME NEW i \in Cut + 1 .. n
      PROVE  /\ tf.partial[i - Cut] = <<g, i>>
             /\ At(<<g, i>>).end = "torn" /\ At(<<g, i>>).stream = At(<<g, n>>).stream
  <2>1. i - Cut \in DOMAIN tf.partial /\ Cut + (i - Cut) = i
    <3>1. i - Cut \in 1 .. n - Cut /\ Cut + (i - Cut) = i
      BY <1>3, <1>4
    <3> QED
      BY <1>2, <1>3, <3>1
  <2> QED
    BY <1>1, <2>1 DEF LineUnderWay
<1>5. ASSUME NEW i \in Cut + 1 .. n
      PROVE  /\ At(<<g, i + 1>>).cont /\ At(<<g, i>>).stream = At(<<g, n + 1>>).stream
  <2>1. i \in 1 .. n /\ n \in 1 .. n /\ n \in Cut + 1 .. n
    BY <1>3, <1>5
  <2> QED
    BY <1>4, <2>1, TextAhead
<1>6. Cut > Base(g) => At(<<g, Cut>>).end # "torn" /\ ~At(<<g, Cut + 1>>).cont
  <2> SUFFICES ASSUME Cut > Base(g)
               PROVE  At(<<g, Cut>>).end # "torn" /\ ~At(<<g, Cut + 1>>).cont
    OBVIOUS
  <2>1. Cut \in 1 .. n /\ At(<<g, Cut>>).end # "torn"
    BY <1>1, <1>2, <1>3 DEF LineUnderWay
  <2> QED
    BY <2>1, TextAhead
<1> QED
  BY <1>2, <1>3, <1>4, <1>5, <1>6

\* The messages under way, before and after the next piece.
LEMMA BegunAhead ==
  ASSUME IInv, NEW g \in DOMAIN log, NEW n \in Nat, Ahead(g, n), NEW s,
         s = At(<<g, n + 1>>).stream
  PROVE  /\ \A z : \A i \in Begun(g, z, n) : i \in Base(g) + 1 .. n /\ At(<<g, i>>).stream = z
         /\ \A i \in Cut + 1 .. n : i \in Begun(g, s, n)
         /\ \A z : \A i \in Begun(g, z, n) : z # s => i <= Cut
         /\ \A z : z # s => Begun(g, z, n + 1) = Begun(g, z, n)
         /\ At(<<g, n + 1>>).end = "full" => Begun(g, s, n + 1) = {}
         /\ At(<<g, n + 1>>).end # "full" => Begun(g, s, n + 1) = Begun(g, s, n) \cup {n + 1}
<1>1. /\ Base(g) \in Nat /\ Cut \in Base(g) .. n
      /\ \A i \in Cut + 1 .. n : At(<<g, i>>).end = "torn" /\ At(<<g, i>>).stream = s
  BY LineAhead
<1>2. \A i \in 1 .. n + 1 : i > Base(g) => ~Skipped(<<g, i>>)
  BY Types DEF Base, Skipped, IInv
<1>3. \A i \in 1 .. n : ~Skipped(<<g, i>>) => i > Base(g)
  BY Types DEF Base, Skipped, IInv
<1>4. ASSUME NEW z, NEW i \in Begun(g, z, n)
      PROVE  /\ i \in Base(g) + 1 .. n /\ At(<<g, i>>).stream = z
             /\ z # s => i <= Cut
  <2>1. i \in 1 .. n /\ At(<<g, i>>).stream = z /\ ~Skipped(<<g, i>>)
    BY <1>4 DEF Begun
  <2> QED
    BY <1>1, <1>3, <2>1
<1>5. ASSUME NEW i \in Cut + 1 .. n PROVE i \in Begun(g, s, n)
  <2>1. i \in 1 .. n /\ i > Base(g) /\ i \in 1 .. n + 1
    BY <1>1
  <2>2. \A j \in i .. n : At(<<g, j>>).end # "full"
    BY <1>1, <2>1
  <2> QED
    BY <1>1, <1>2, <2>1, <2>2 DEF Begun
<1>6. ASSUME NEW z, z # s PROVE Begun(g, z, n + 1) = Begun(g, z, n)
  <2>1. \A i \in 1 .. n : \A j \in i .. n + 1 : j \in i .. n \/ j = n + 1
    OBVIOUS
  <2>2. \A i \in 1 .. n + 1 : At(<<g, i>>).stream = z => i \in 1 .. n
    BY <1>6
  <2>3. \A i \in 1 .. n : i \in 1 .. n + 1 /\ \A j \in i .. n : j \in i .. n + 1
    OBVIOUS
  <2> QED
    BY <1>6, <2>1, <2>2, <2>3 DEF Begun
<1>7. At(<<g, n + 1>>).end = "full" => Begun(g, s, n + 1) = {}
  BY DEF Begun
<1>8. ASSUME At(<<g, n + 1>>).end # "full"
      PROVE  Begun(g, s, n + 1) = Begun(g, s, n) \cup {n + 1}
  <2>1. n + 1 \in Begun(g, s, n + 1)
    BY <1>1, <1>2, <1>8 DEF Begun
  <2>2. ASSUME NEW i \in 1 .. n PROVE i \in Begun(g, s, n + 1) <=> i \in Begun(g, s, n)
    BY <1>8 DEF Begun
  <2>3. \A i \in Begun(g, s, n + 1) : i \in 1 .. n \/ i = n + 1
    BY DEF Begun
  <2>4. \A i \in Begun(g, s, n) : i \in 1 .. n
    BY DEF Begun
  <2> QED
    BY <2>1, <2>2, <2>3, <2>4
<1> QED
  BY <1>4, <1>5, <1>6, <1>7, <1>8
\* The pieces of B up to u, and those from u + 1 to m.
Joins(a, b, c, g, u, m, B) ==
  /\ c = a \o b /\ u < m /\ B \in SUBSET Nat
  /\ Len(b) = m - u /\ \A k \in 1 .. m - u : b[k] = <<g, u + k>>
  /\ InOrder(a)
  /\ \A k \in DOMAIN a : a[k][1] = g /\ a[k][2] <= u /\ a[k][2] \in B
  /\ \A i \in u + 1 .. m : i \in B

Joint(a, b, c, g, u, m, B) ==
  /\ c \in Seq(Places) /\ c # <<>> /\ c[Len(c)] = <<g, m>> /\ InOrder(c)
  /\ \A k \in DOMAIN c :
       /\ c[k][1] = g /\ c[k][2] \in B /\ c[k] = <<g, c[k][2]>>
       /\ \/ \E l \in DOMAIN a : c[k] = a[l]
          \/ \E l \in DOMAIN b : c[k] = b[l]
  /\ \A l \in DOMAIN a : \E k \in DOMAIN c : c[k] = a[l]
  /\ \A i \in u + 1 .. m : \E k \in DOMAIN c : c[k] = <<g, i>>

LEMMA Joined ==
  ASSUME NEW a \in Seq(Places), NEW b \in Seq(Places), NEW c,
         NEW g, NEW u \in Nat, NEW m \in Nat, NEW B, Joins(a, b, c, g, u, m, B)
  PROVE  Joint(a, b, c, g, u, m, B)
<1>1. /\ c \in Seq(Places) /\ DOMAIN c = 1 .. Len(a) + Len(b) /\ Len(c) = Len(a) + Len(b)
      /\ Len(a) \in Nat /\ Len(b) \in Nat /\ DOMAIN a = 1 .. Len(a) /\ DOMAIN b = 1 .. Len(b)
      /\ \A k \in 1 .. Len(a) : c[k] = a[k]
      /\ \A k \in 1 .. Len(b) : c[Len(a) + k] = b[k]
  <2> c = a \o b
    BY DEF Joins
  <2>1. c \in Seq(Places)
    OBVIOUS
  <2>2. /\ Len(c) = Len(a) + Len(b) /\ Len(a) \in Nat /\ Len(b) \in Nat
        /\ DOMAIN c = 1 .. Len(a) + Len(b)
        /\ DOMAIN a = 1 .. Len(a) /\ DOMAIN b = 1 .. Len(b)
    OBVIOUS
  <2>3. \A k \in 1 .. Len(a) : c[k] = a[k]
    OBVIOUS
  <2>4. \A k \in 1 .. Len(b) : c[Len(a) + k] = b[k]
    OBVIOUS
  <2> QED
    BY <2>1, <2>2, <2>3, <2>4
<1>2. ASSUME NEW l \in 1 .. Len(b)
      PROVE  /\ Len(a) + l \in DOMAIN c /\ u + l \in u + 1 .. m
             /\ c[Len(a) + l] = <<g, u + l>> /\ c[Len(a) + l] = b[l]
  BY <1>1 DEF Joins
<1>3. ASSUME NEW k \in DOMAIN c
      PROVE  \/ k \in DOMAIN a /\ c[k] = a[k]
             \/ \E l \in 1 .. Len(b) : k = Len(a) + l
  <2>1. CASE k <= Len(a)
    BY <1>1, <2>1
  <2>2. CASE k > Len(a)
    <3>1. k - Len(a) \in 1 .. Len(b) /\ k = Len(a) + (k - Len(a))
      BY <1>1, <2>2
    <3> QED
      BY <3>1
  <2> QED
    BY <1>1, <2>1, <2>2
<1>4. ASSUME NEW k \in DOMAIN c
      PROVE  /\ c[k][1] = g /\ c[k][2] \in B /\ c[k] = <<g, c[k][2]>>
             /\ \/ \E l \in DOMAIN a : c[k] = a[l]
                \/ \E l \in DOMAIN b : c[k] = b[l]
  <2>1. CASE k \in DOMAIN a /\ c[k] = a[k]
    <3>1. c[k] \in Places
      BY <1>1
    <3> QED
      BY <2>1, <3>1 DEF Places, Joins
  <2>2. ASSUME NEW l \in 1 .. Len(b), k = Len(a) + l
        PROVE  /\ c[k][1] = g /\ c[k][2] \in B /\ c[k] = <<g, c[k][2]>>
               /\ \E h \in DOMAIN b : c[k] = b[h]
    <3>1. c[k] = <<g, u + l>> /\ c[k] = b[l] /\ u + l \in u + 1 .. m /\ l \in DOMAIN b
      BY <1>1, <1>2, <2>2
    <3>2. u + l \in B
      BY <3>1 DEF Joins
    <3>3. c[k][1] = g /\ c[k][2] = u + l
      BY <3>1
    <3> QED
      BY <3>1, <3>2, <3>3
  <2> QED
    BY <1>3, <2>1, <2>2
<1>5. InOrder(c)
  <2> SUFFICES ASSUME NEW j \in DOMAIN c, NEW k \in DOMAIN c, j < k
               PROVE  c[j][2] < c[k][2]
    BY DEF InOrder
  <2>1. CASE k \in DOMAIN a
    <3>1. j \in DOMAIN a /\ c[j] = a[j] /\ c[k] = a[k]
      BY <1>1, <2>1
    <3> QED
      BY <2>1, <3>1 DEF InOrder, Joins
  <2>2. ASSUME NEW l \in 1 .. Len(b), k = Len(a) + l
        PROVE  c[j][2] < c[k][2]
    <3>1. c[k][2] = u + l
      BY <1>2, <2>2
    <3>2. CASE j \in DOMAIN a /\ c[j] = a[j]
      <4>1. a[j][2] <= u /\ a[j][2] \in Nat
        BY <3>2 DEF Joins
      <4> QED
        BY <1>1, <3>1, <3>2, <4>1
    <3>3. ASSUME NEW h \in 1 .. Len(b), j = Len(a) + h
          PROVE  c[j][2] < c[k][2]
      <4> c[Len(a) + h] = <<g, u + h>>
        BY <1>2, <3>3
      <4>1. c[j][2] = u + h
        BY <3>3
      <4>2. h < l /\ h \in Nat /\ l \in Nat
        BY <1>1, <2>2, <3>3
      <4> QED
        BY <3>1, <4>1, <4>2
    <3> QED
      BY <1>3, <3>2, <3>3
  <2> QED
    BY <1>3, <2>1, <2>2
<1>6. c # <<>> /\ c[Len(c)] = <<g, m>>
  <2>1. Len(b) \in 1 .. Len(b) /\ u + Len(b) = m /\ Len(c) > 0
    BY <1>1 DEF Joins
  <2> QED
    BY <1>1, <1>2, <2>1
<1>7. \A l \in DOMAIN a : \E k \in DOMAIN c : c[k] = a[l]
  BY <1>1
<1>8. ASSUME NEW i \in u + 1 .. m PROVE \E k \in DOMAIN c : c[k] = <<g, i>>
  <2>1. i - u \in 1 .. Len(b) /\ u + (i - u) = i
    BY DEF Joins
  <2> QED
    BY <1>2, <2>1
<1> QED
  BY <1>1, <1>4, <1>5, <1>6, <1>7, <1>8 DEF Joint

\* The line up to the next piece, and the message up to it.
LineTo(g, n) == Append(tf.partial, <<g, n + 1>>)
MessageTo(g, n, s) == tf.cpart[s] \o LineTo(g, n)

LEMMA LineToNext ==
  ASSUME IInv, NEW g \in DOMAIN log, NEW n \in Nat, Ahead(g, n)
  PROVE  /\ LineTo(g, n) \in Seq(Places) /\ Len(LineTo(g, n)) = n + 1 - Cut
         /\ \A k \in 1 .. n + 1 - Cut : LineTo(g, n)[k] = <<g, Cut + k>>
<1> DEFINE c == Cut
<1>1. /\ tf.partial \in Seq(Places) /\ <<g, n + 1>> \in Places
  BY Types, TextAhead DEF IInv, Places
<1>2. /\ c \in Nat /\ c <= n /\ Len(tf.partial) = n - c
      /\ \A i \in c + 1 .. n : tf.partial[i - c] = <<g, i>>
  <2>1. /\ Base(g) \in Nat /\ Cut \in Base(g) .. n /\ Len(tf.partial) = n - Cut
        /\ \A i \in Cut + 1 .. n : tf.partial[i - Cut] = <<g, i>>
    BY LineAhead
  <2>2. Cut \in Nat /\ Cut <= n
    BY <2>1
  <2> QED
    BY <2>1, <2>2
<1> HIDE DEF c
<1>3. /\ LineTo(g, n) \in Seq(Places) /\ Len(LineTo(g, n)) = Len(tf.partial) + 1
      /\ LineTo(g, n)[Len(tf.partial) + 1] = <<g, n + 1>>
      /\ \A k \in 1 .. Len(tf.partial) : LineTo(g, n)[k] = tf.partial[k]
  BY <1>1 DEF LineTo
<1>4. ASSUME NEW k \in 1 .. n + 1 - c PROVE LineTo(g, n)[k] = <<g, c + k>>
  <2>1. CASE k = n + 1 - c
    <3>1. c + k = n + 1 /\ k = Len(tf.partial) + 1
      BY <1>2, <2>1
    <3> QED
      BY <1>3, <3>1
  <2>2. CASE k # n + 1 - c
    <3>1. /\ k \in 1 .. n - c /\ c + k \in c + 1 .. n /\ (c + k) - c = k
          /\ n - c = Len(tf.partial)
      BY <1>2, <2>2
    <3>2. tf.partial[k] = <<g, c + k>>
      BY <1>2, <3>1
    <3> QED
      BY <1>3, <3>1, <3>2
  <2> QED
    BY <2>1, <2>2
<1>5. Len(LineTo(g, n)) = n + 1 - c
  BY <1>2, <1>3
<1> QED
  BY <1>3, <1>4, <1>5 DEF c

\* Nothing of it was counted.
LEMMA NothingTaken ==
  ASSUME IInv, NEW g \in DOMAIN log, NEW n \in Nat, Ahead(g, n)
  PROVE  /\ \A k \in DOMAIN LineTo(g, n) : ~Taken(LineTo(g, n)[k])
         /\ \A s \in Streams : ChunksOf(s, g)
<1>1. /\ TypeOK /\ Behind /\ Buffers /\ tf.live /\ Reading(g) /\ n = tf.off /\ n < Size(g)
      /\ Size(g) \in Nat
  BY LogTypes DEF IInv, Ahead
<1>2. /\ \A k \in DOMAIN tf.partial : ~Taken(tf.partial[k])
      /\ \A s \in Streams : ChunksOf(s, g)
  BY <1>1 DEF Buffers
<1>3. <<g, n + 1>> \in Places /\ tf.partial \in Seq(Places)
  BY <1>1, Types, TextAhead DEF Places
<1>4. ~Taken(<<g, n + 1>>)
  <2> DEFINE q == <<g, n + 1>>
  <2>1. q \in Places /\ q[1] = g /\ q[2] = n + 1
    BY <1>3
  <2> HIDE DEF q
  <2>2. ~Taken(q)
    BY <1>1, <2>1 DEF Behind
  <2> QED
    BY <2>2 DEF q
<1>5. \A k \in DOMAIN LineTo(g, n) :
        LineTo(g, n)[k] = <<g, n + 1>> \/ (k \in DOMAIN tf.partial /\ LineTo(g, n)[k] = tf.partial[k])
  BY <1>3 DEF LineTo
<1> QED
  BY <1>2, <1>4, <1>5

\* c consists of uncounted pieces of generation g up to n + 1, in order.
Uncounted(c, g, n) ==
  /\ c # <<>> /\ InOrder(c)
  /\ \A k \in DOMAIN c : ~Taken(c[k]) /\ c[k][1] = g /\ c[k][2] \in 1 .. n + 1

\* c consists of uncounted pieces of the message of s that piece n + 1 goes on or
\* begins, in order, and of all of them if it began in this file after start-up.
UpTo(c, g, n, s) ==
  /\ c \in Seq(Places) /\ c # <<>> /\ c[Len(c)] = <<g, n + 1>> /\ InOrder(c)
  /\ \A k \in DOMAIN c : /\ ~Taken(c[k]) /\ c[k][1] = g
                         /\ c[k][2] \in Begun(g, s, n) \cup {n + 1}
                         /\ c[k] = <<g, c[k][2]>>
  /\ (\E i \in Begun(g, s, n) \cup {n + 1} : At(<<g, i>>).first) =>
       \A i \in Begun(g, s, n) \cup {n + 1} : \E k \in DOMAIN c : c[k] = <<g, i>>

LEMMA MessageToNext ==
  ASSUME IInv, NEW g \in DOMAIN log, NEW n \in Nat, Ahead(g, n),
         NEW s \in Streams, s = At(<<g, n + 1>>).stream,
         NEW c, c = MessageTo(g, n, s)
  PROVE  UpTo(c, g, n, s)
<1>1. PICK a, b, u, m, B : /\ a = tf.cpart[s] /\ b = LineTo(g, n) /\ u = Cut
                           /\ m = n + 1 /\ B = Begun(g, s, n) \cup {n + 1}
  OBVIOUS
<1>2. /\ b \in Seq(Places) /\ u \in Nat /\ u < m /\ m \in Nat
      /\ Len(b) = m - u /\ \A k \in 1 .. m - u : b[k] = <<g, u + k>>
  <2>1. Base(g) \in Nat /\ Cut \in Base(g) .. n
    BY LineAhead
  <2>2. /\ LineTo(g, n) \in Seq(Places) /\ Len(LineTo(g, n)) = n + 1 - Cut
        /\ \A k \in 1 .. n + 1 - Cut : LineTo(g, n)[k] = <<g, Cut + k>>
    BY LineToNext
  <2>3. u \in Nat /\ u <= n
    BY <1>1, <2>1
  <2>4. u < m /\ m \in Nat /\ n + 1 - Cut = m - u
    BY <1>1, <2>3
  <2> QED
    BY <1>1, <2>2, <2>3, <2>4
<1>3. a \in Seq(Places)
  BY <1>1, Types DEF IInv
<1>4. /\ \A k \in DOMAIN b : ~Taken(b[k])
      /\ ChunksOf(s, g) /\ tf.off = n
  BY <1>1, NothingTaken DEF Ahead
<1>5. /\ InOrder(a)
      /\ \A k \in DOMAIN a : /\ a[k][1] = g /\ a[k][2] <= u
                             /\ a[k][2] \in Begun(g, s, n) /\ ~Taken(a[k])
      /\ (\E i \in Begun(g, s, n) : At(<<g, i>>).first) =>
           \A i \in Begun(g, s, n) : i <= u => \E k \in DOMAIN a : a[k] = <<g, i>>
  BY <1>1, <1>4 DEF ChunksOf
<1>6. /\ \A i \in u + 1 .. n : i \in Begun(g, s, n)
      /\ \A i \in Begun(g, s, n) : i \in 1 .. n
      /\ At(<<g, n + 1>>).first => Begun(g, s, n) = {}
  <2>1. \A i \in Begun(g, s, n) : i \in 1 .. n
    BY DEF Begun
  <2>2. \A i \in Cut + 1 .. n : i \in Begun(g, s, n)
    BY BegunAhead
  <2>3. At(<<g, n + 1>>).first => Begun(g, s, n) = {}
    BY TextAhead
  <2> QED
    BY <1>1, <2>1, <2>2, <2>3
<1>7. B \in SUBSET Nat /\ \A i \in u + 1 .. m : i \in B
  <2>1. ASSUME NEW i \in u + 1 .. m PROVE i \in B
    <3>1. i \in u + 1 .. n \/ i = n + 1
      BY <1>1, <1>2, <2>1
    <3> QED
      BY <1>1, <1>6, <3>1
  <2>2. \A i \in B : i \in 1 .. n \/ i = n + 1
    BY <1>1, <1>6
  <2>3. \A i \in B : i \in Nat
    BY <2>2
  <2> QED
    BY <2>1, <2>3
<1>8. c = a \o b
  BY <1>1 DEF MessageTo
<1>9. \A k \in DOMAIN a : a[k][1] = g /\ a[k][2] <= u /\ a[k][2] \in B
  BY <1>1, <1>5
<1>10. /\ c \in Seq(Places) /\ c # <<>> /\ c[Len(c)] = <<g, m>> /\ InOrder(c)
       /\ \A k \in DOMAIN c :
            /\ c[k][1] = g /\ c[k][2] \in B /\ c[k] = <<g, c[k][2]>>
            /\ \/ \E l \in DOMAIN a : c[k] = a[l]
               \/ \E l \in DOMAIN b : c[k] = b[l]
       /\ \A l \in DOMAIN a : \E k \in DOMAIN c : c[k] = a[l]
       /\ \A i \in u + 1 .. m : \E k \in DOMAIN c : c[k] = <<g, i>>
  <2>1. Joins(a, b, c, g, u, m, B)
    BY <1>2, <1>5, <1>7, <1>8, <1>9 DEF Joins
  <2>2. Joint(a, b, c, g, u, m, B)
    BY <1>2, <1>3, <2>1, Joined
  <2> QED
    BY <2>2 DEF Joint
<1>11. ASSUME NEW k \in DOMAIN c PROVE ~Taken(c[k])
  <2>1. \A l \in DOMAIN a : ~Taken(a[l])
    BY <1>5
  <2>2. (\E l \in DOMAIN a : c[k] = a[l]) \/ \E l \in DOMAIN b : c[k] = b[l]
    BY <1>10
  <2> QED
    BY <1>4, <2>1, <2>2
<1>12. ASSUME \E i \in B : At(<<g, i>>).first, NEW i \in B
       PROVE  \E k \in DOMAIN c : c[k] = <<g, i>>
  <2>1. CASE i \in u + 1 .. m
    BY <1>10, <2>1
  <2>2. CASE i \notin u + 1 .. m
    <3>1. i \in Begun(g, s, n) /\ i <= u
      <4>1. i \in Begun(g, s, n) \/ i = n + 1
        BY <1>1, <1>12
      <4>2. i # n + 1
        BY <1>1, <1>2, <2>2
      <4>3. i \in Begun(g, s, n) /\ i \in 1 .. n
        BY <1>6, <4>1, <4>2
      <4> QED
        BY <1>1, <1>2, <2>2, <4>3
    <3>2. \E h \in Begun(g, s, n) : At(<<g, h>>).first
      BY <1>1, <1>6, <1>12, <3>1
    <3>3. PICK k \in DOMAIN a : a[k] = <<g, i>>
      BY <1>5, <3>1, <3>2
    <3>4. PICK l \in DOMAIN c : c[l] = a[k]
      BY <1>10, <3>3
    <3> QED
      BY <3>3, <3>4
  <2> QED
    BY <2>1, <2>2
<1> QED
  BY <1>1, <1>10, <1>11, <1>12 DEF UpTo
LEMMA UpToBounds ==
  ASSUME NEW c, NEW g, NEW s, NEW n \in Nat, UpTo(c, g, n, s)
  PROVE  c \in Seq(Places) /\ Uncounted(c, g, n) /\ c[Len(c)] = <<g, n + 1>>
<1>1. ASSUME NEW k \in DOMAIN c
      PROVE  ~Taken(c[k]) /\ c[k][1] = g /\ c[k][2] \in 1 .. n + 1
  <2>1. PICK i : i = c[k][2]
    OBVIOUS
  <2>2. i \in Begun(g, s, n) \/ i = n + 1
    BY <1>1, <2>1 DEF UpTo
  <2>3. i \in 1 .. n + 1
    BY <2>2 DEF Begun
  <2> QED
    BY <1>1, <2>1, <2>3 DEF UpTo
<1> QED
  BY <1>1 DEF UpTo, Uncounted

\* What is left of a line whose start was not read: nothing is buffered but it.
LEMMA RestAhead ==
  ASSUME IInv, NEW g \in DOMAIN log, NEW n \in Nat, Ahead(g, n), At(<<g, Cut + 1>>).cont
  PROVE  /\ \A z \in Streams : tf.cpart[z] = <<>>
         /\ \A z : \A i \in Begun(g, z, n) : ~At(<<g, i>>).first
         /\ ~At(<<g, n + 1>>).first
<1>1. /\ Base(g) \in Nat /\ Cut \in Nat /\ Cut <= n /\ Cut = Base(g)
      /\ \A i \in Cut + 1 .. n : At(<<g, i + 1>>).cont
  <2>1. /\ Base(g) \in Nat /\ Cut \in Base(g) .. n
        /\ \A i \in Cut + 1 .. n : At(<<g, i + 1>>).cont
        /\ Cut > Base(g) => ~At(<<g, Cut + 1>>).cont
    BY LineAhead
  <2> QED
    BY <2>1
<1>2. ASSUME NEW i \in Cut + 1 .. n + 1 PROVE ~At(<<g, i>>).first
  <2>1. i \in 1 .. n + 1 /\ (i = Cut + 1 \/ (i - 1 \in Cut + 1 .. n /\ (i - 1) + 1 = i))
    BY <1>1, <1>2
  <2>2. At(<<g, i>>).cont
    BY <1>1, <2>1
  <2> QED
    BY <2>1, <2>2, TextAhead
<1>3. ASSUME NEW z, NEW i \in Begun(g, z, n)
      PROVE  i \in Cut + 1 .. n + 1 /\ i > Cut
  <2>1. i \in Base(g) + 1 .. n
    BY <1>3, BegunAhead
  <2> QED
    BY <1>1, <2>1
<1>4. ASSUME NEW z \in Streams PROVE tf.cpart[z] = <<>>
  <2>1. ChunksOf(z, g) /\ tf.off = n /\ tf.cpart[z] \in Seq(Places)
    BY NothingTaken, Types DEF Ahead, IInv
  <2>2. \A k \in DOMAIN tf.cpart[z] :
          tf.cpart[z][k][2] <= Cut /\ tf.cpart[z][k][2] \in Begun(g, z, n)
    BY <2>1 DEF ChunksOf
  <2>3. \A k \in DOMAIN tf.cpart[z] : FALSE
    <3> SUFFICES ASSUME NEW k \in DOMAIN tf.cpart[z] PROVE FALSE
      OBVIOUS
    <3> DEFINE i == tf.cpart[z][k][2]
    <3>1. i <= Cut /\ i \in Begun(g, z, n)
      BY <2>2
    <3> HIDE DEF i
    <3>2. i \in Cut + 1 .. n + 1 /\ i > Cut
      BY <1>3, <3>1
    <3> QED
      BY <1>1, <3>1, <3>2
  <2> QED
    BY <2>1, <2>3, EmptyDomain
<1>5. n + 1 \in Cut + 1 .. n + 1
  BY <1>1
<1> QED
  BY <1>2, <1>3, <1>4, <1>5
-------------------------------------------------------------------------------
(* What that does.                                                         *)

\* The next piece of generation g is behind the agent.
Consumes(g, n) ==
  /\ UNCHANGED <<files, poll, skip>>
  /\ tf'.file = tf.file /\ tf'.live = tf.live /\ tf'.gone = tf.gone
  /\ tf'.off = n + 1

LEMMA ConsumesHandle ==
  ASSUME IInv, NEW g \in DOMAIN log, NEW n \in Nat, Ahead(g, n), Consumes(g, n)
  PROVE  /\ Handle' /\ Numbered' /\ Texts'
         /\ \A h : Reading(h)' <=> Reading(h)
         /\ \A h \in DOMAIN log : Reading(h) => h = g
         /\ n + 1 <= Size(g) /\ tf.file # None
<1>1. TypeOK /\ Handle
  BY DEF IInv
<1>2. /\ tf.live /\ Reading(g) /\ n = tf.off /\ n < Size(g) /\ Size(g) \in Nat /\ g \in Nat
  BY <1>1, LogTypes DEF Ahead
<1>3. /\ UNCHANGED <<files, poll, skip>> /\ path' = path /\ writer' = writer /\ log' = log
      /\ tf'.file = tf.file /\ tf'.live = tf.live /\ tf'.gone = tf.gone /\ tf'.off = n + 1
  BY DEF Consumes, files
<1>4. \A h : Reading(h)' <=> Reading(h)
  BY <1>3 DEF Reading
<1>5. /\ Numbered' /\ Texts' /\ \A h : Size(h)' = Size(h)
  BY <1>3, FilesStay
<1>6. \A h \in DOMAIN log : Reading(h) => h = g
  BY <1>1, <1>2, OnlyGeneration
<1>7. tf.file # None
  BY <1>1, <1>2 DEF Handle, NoTail
<1>8. tf'.live /\ Reading(1)' => tf'.off <= Size(1)'
  <2>1. Reading(1) => 1 = g
    BY <1>6 DEF Reading
  <2> QED
    BY <1>2, <1>3, <1>4, <1>5, <2>1
<1>9. Handle'
  BY <1>1, <1>2, <1>3, <1>4, <1>5, <1>7, <1>8 DEF Handle
<1> QED
  BY <1>2, <1>4, <1>5, <1>6, <1>7, <1>9

\* Nothing is counted.
LEMMA CountsNothing ==
  ASSUME IInv, NEW g \in DOMAIN log, NEW n \in Nat, Ahead(g, n), Consumes(g, n),
         counted' = counted
  PROVE  /\ Behind' /\ CountedOnce' /\ WholeMessages' /\ \A q : Taken(q)' <=> Taken(q)
<1>1. TypeOK /\ Behind
  BY DEF IInv
<1>2. UNCHANGED <<files, skip, counted>> /\ log' = log /\ path' = path
      /\ tf'.file = tf.file /\ tf'.live = tf.live /\ tf'.off = n + 1 /\ n = tf.off
  BY DEF Consumes, files, Ahead
<1>3. CountedOnce' /\ WholeMessages' /\ \A q : Taken(q)' <=> Taken(q)
  BY <1>2, CountsStay
<1>4. /\ \A h : Size(h)' = Size(h)
      /\ \A h : Reading(h)' <=> Reading(h)
      /\ \A h \in DOMAIN log : Reading(h) => h = g
      /\ n + 1 <= Size(g)
  BY <1>2, FilesStay, ConsumesHandle
<1>5. ASSUME NEW q \in Places, Taken(q)
      PROVE  /\ q[1] \in DOMAIN log /\ q[2] \in 1 .. Size(q[1])
             /\ tf.file = None => log[q[1]].file # path
             /\ tf.file # None => log[q[1]].file <= tf.file
             /\ tf.live /\ Reading(q[1]) => q[2] <= n + 1 /\ n + 1 <= Size(q[1])
  <2>1. /\ q[1] \in DOMAIN log /\ q[2] \in 1 .. Size(q[1])
        /\ tf.file = None => log[q[1]].file # path
        /\ tf.file # None => log[q[1]].file <= tf.file
        /\ tf.live /\ Reading(q[1]) => q[2] <= tf.off
    BY <1>1, <1>5 DEF Behind
  <2> QED
    BY <1>2, <1>4, <2>1
<1>6. Behind'
  BY <1>1, <1>2, <1>3, <1>4, <1>5 DEF Behind
<1> QED
  BY <1>3, <1>6

\* A message is counted.
Counts(c) == counted' = Append(counted, c)

LEMMA CountsMessage ==
  ASSUME IInv, NEW g \in DOMAIN log, NEW n \in Nat, Ahead(g, n), Consumes(g, n),
         NEW c \in Seq(Places), Counts(c), Uncounted(c, g, n)
  PROVE  /\ Behind' /\ CountedOnce'
         /\ \A q : Taken(q)' <=> Taken(q) \/ \E k \in DOMAIN c : c[k] = q
<1>1. TypeOK /\ Behind /\ CountedOnce
  BY DEF IInv
<1>2. UNCHANGED <<files, skip>> /\ log' = log /\ path' = path
      /\ tf'.file = tf.file /\ tf'.live = tf.live /\ tf'.off = n + 1 /\ n = tf.off
      /\ tf.live /\ Reading(g)
  BY DEF Consumes, files, Ahead
<1>3. /\ \A h : Size(h)' = Size(h)
      /\ \A h : Reading(h)' <=> Reading(h)
      /\ \A h \in DOMAIN log : Reading(h) => h = g
      /\ n + 1 <= Size(g) /\ tf.file # None /\ Size(g) \in Nat /\ log[g].file \in Nat
  BY <1>1, <1>2, FilesStay, ConsumesHandle, LogTypes
<1>4. /\ counted \in Seq(Seq(Places)) /\ Len(counted) \in Nat
      /\ DOMAIN counted = 1 .. Len(counted) /\ DOMAIN counted' = 1 .. Len(counted) + 1
      /\ \A i \in DOMAIN counted : counted'[i] = counted[i]
      /\ counted'[Len(counted) + 1] = c
  <2> DEFINE S == Seq(Places)
  <2>1. counted \in Seq(S) /\ c \in S /\ counted' = Append(counted, c)
    BY <1>1 DEF TypeOK, Counts
  <2> HIDE DEF S
  <2>2. /\ Len(counted) \in Nat
        /\ DOMAIN counted = 1 .. Len(counted) /\ DOMAIN counted' = 1 .. Len(counted) + 1
        /\ \A i \in DOMAIN counted : counted'[i] = counted[i]
        /\ counted'[Len(counted) + 1] = c
    BY <2>1
  <2> QED
    BY <2>1, <2>2 DEF S
<1>5. /\ \A i \in DOMAIN counted' : i \in DOMAIN counted \/ i = Len(counted) + 1
      /\ Len(counted) + 1 \in DOMAIN counted'
      /\ \A i \in DOMAIN counted : i \in DOMAIN counted'
  <2>1. /\ Len(counted) \in Nat /\ DOMAIN counted = 1 .. Len(counted)
        /\ DOMAIN counted' = 1 .. Len(counted) + 1
    BY <1>4
  <2>2. PICK m : m = Len(counted)
    OBVIOUS
  <2> QED
    BY <2>1, <2>2
<1>6. ASSUME NEW q PROVE Taken(q)' <=> Taken(q) \/ \E k \in DOMAIN c : c[k] = q
  <2>1. ASSUME Taken(q) PROVE Taken(q)'
    <3>1. PICK i \in DOMAIN counted : \E k \in DOMAIN counted[i] : counted[i][k] = q
      BY <2>1 DEF Taken
    <3>2. i \in DOMAIN counted' /\ counted'[i] = counted[i]
      BY <1>4, <1>5, <3>1
    <3> QED
      BY <3>1, <3>2 DEF Taken
  <2>2. ASSUME NEW k \in DOMAIN c, c[k] = q PROVE Taken(q)'
    BY <1>4, <1>5, <2>2 DEF Taken
  <2>3. ASSUME Taken(q)' PROVE Taken(q) \/ \E k \in DOMAIN c : c[k] = q
    <3>1. PICK i \in DOMAIN counted' : \E k \in DOMAIN counted'[i] : counted'[i][k] = q
      BY <2>3 DEF Taken
    <3>2. CASE i \in DOMAIN counted
      BY <1>4, <3>1, <3>2 DEF Taken
    <3>3. CASE i = Len(counted) + 1
      BY <1>4, <3>1, <3>3
    <3> QED
      BY <1>5, <3>2, <3>3
  <2> QED
    BY <2>1, <2>2, <2>3
<1>7. \A j, k \in DOMAIN c : c[j] = c[k] => j = k
  <2> SUFFICES ASSUME NEW j \in DOMAIN c, NEW k \in DOMAIN c, c[j] = c[k], j # k
               PROVE  FALSE
    OBVIOUS
  <2>1. j < k \/ k < j
    OBVIOUS
  <2>2. c[j][2] < c[k][2] \/ c[k][2] < c[j][2]
    BY <2>1 DEF InOrder, Uncounted
  <2>3. c[j][2] = c[k][2] /\ c[j][2] \in 1 .. n + 1
    BY DEF Uncounted
  <2> QED
    BY <2>2, <2>3
<1>8. CountedOnce'
  <2> SUFFICES ASSUME NEW i \in DOMAIN counted', NEW j \in DOMAIN counted',
                      NEW k \in DOMAIN counted'[i], NEW l \in DOMAIN counted'[j],
                      counted'[i][k] = counted'[j][l]
               PROVE  i = j /\ k = l
    BY DEF CountedOnce
  <2>1. CASE i \in DOMAIN counted /\ j \in DOMAIN counted
    BY <1>1, <1>4, <2>1 DEF CountedOnce
  <2>2. CASE i \in DOMAIN counted /\ j = Len(counted) + 1
    <3>1. Taken(counted[i][k]) /\ counted[i][k] = c[l] /\ l \in DOMAIN c
      BY <1>4, <2>2 DEF Taken
    <3> QED
      BY <3>1 DEF Uncounted
  <2>3. CASE j \in DOMAIN counted /\ i = Len(counted) + 1
    <3>1. Taken(counted[j][l]) /\ counted[j][l] = c[k] /\ k \in DOMAIN c
      BY <1>4, <2>3 DEF Taken
    <3> QED
      BY <3>1 DEF Uncounted
  <2>4. CASE i = Len(counted) + 1 /\ j = Len(counted) + 1
    BY <1>4, <1>7, <2>4
  <2> QED
    BY <1>5, <2>1, <2>2, <2>3, <2>4
<1>9. ASSUME NEW q \in Places, Taken(q)'
       PROVE  /\ q[1] \in DOMAIN log /\ q[2] \in 1 .. Size(q[1])
              /\ log[q[1]].file <= tf.file
              /\ Reading(q[1]) => q[2] <= n + 1 /\ n + 1 <= Size(q[1])
  <2>1. CASE Taken(q)
    <3>1. /\ q[1] \in DOMAIN log /\ q[2] \in 1 .. Size(q[1])
          /\ log[q[1]].file <= tf.file
          /\ Reading(q[1]) => q[2] <= tf.off
      BY <1>1, <1>2, <1>3, <2>1 DEF Behind
    <3> QED
      BY <1>2, <1>3, <3>1
  <2>2. ASSUME NEW k \in DOMAIN c, c[k] = q
        PROVE  /\ q[1] \in DOMAIN log /\ q[2] \in 1 .. Size(q[1])
               /\ log[q[1]].file <= tf.file
               /\ Reading(q[1]) => q[2] <= n + 1 /\ n + 1 <= Size(q[1])
    <3>1. q[1] = g /\ q[2] \in 1 .. n + 1 /\ log[g].file = tf.file
      BY <1>2, <2>2 DEF Reading, Uncounted
    <3> QED
      BY <1>3, <3>1
  <2> QED
    BY <1>6, <1>9, <2>1, <2>2
<1>10. Behind'
  <2>1. \A i \in DOMAIN counted' : counted'[i] # <<>>
    BY <1>1, <1>4, <1>5 DEF Behind, Uncounted
  <2> QED
    BY <1>2, <1>3, <1>9, <2>1 DEF Behind
<1> QED
  BY <1>6, <1>8, <1>10
LEMMA CountsWhole ==
  ASSUME IInv, NEW g \in DOMAIN log, NEW n \in Nat, Ahead(g, n), Consumes(g, n),
         NEW c \in Seq(Places), Counts(c), c[Len(c)] = <<g, n + 1>>,
         Uncut(<<g, n + 1>>) => /\ At(<<g, n + 1>>).end = "full" /\ InOrder(c)
                                /\ Range(c) = Message(<<g, n + 1>>)
  PROVE  WholeMessages'
<1>1. /\ \A q : At(q)' = At(q)
      /\ \A h, s, m : Begun(h, s, m)' = Begun(h, s, m)
  BY FilesStay DEF Consumes
<1>2. ASSUME NEW p PROVE Message(p)' = Message(p) /\ (Uncut(p)' <=> Uncut(p))
  <2>1. Message(p)' = Message(p)
    BY <1>1 DEF Message
  <2> QED
    BY <1>1, <2>1 DEF Uncut
<1>3. \A d \in Range(counted)' : d \in Range(counted) \/ d = c
  <2> DEFINE S == Seq(Places)
  <2>1. counted \in Seq(S) /\ c \in S /\ counted' = Append(counted, c)
    BY DEF IInv, TypeOK, Counts
  <2> HIDE DEF S
  <2>2. \A i \in DOMAIN counted' : \/ i \in DOMAIN counted /\ counted'[i] = counted[i]
                                   \/ counted'[i] = c
    BY <2>1
  <2> QED
    BY <2>2 DEF Range
<1>4. ASSUME NEW d \in Range(counted)', NEW end, end = d[Len(d)], Uncut(end)'
      PROVE  At(end)'.end = "full" /\ InOrder(d) /\ Range(d) = Message(end)'
  <2>1. At(end).end = "full" /\ InOrder(d) /\ Range(d) = Message(end)
    <3>1. Uncut(end)
      BY <1>2, <1>4
    <3>2. CASE d \in Range(counted)
      BY <1>4, <3>1, <3>2 DEF WholeMessages, IInv
    <3>3. CASE d = c
      BY <1>4, <3>1, <3>3
    <3> QED
      BY <1>3, <1>4, <3>2, <3>3
  <2> QED
    BY <1>1, <1>2, <2>1
<1> QED
  BY <1>4 DEF WholeMessages

LEMMA BufferedNext ==
  ASSUME IInv, NEW g \in DOMAIN log, NEW n \in Nat, Ahead(g, n), Consumes(g, n),
         LineUnderWay(g)', \A k \in DOMAIN tf'.partial : (~Taken(tf.partial[k]))',
         \A z \in Streams : ChunksOf(z, g)'
  PROVE  Buffers'
<1>1. \A h \in DOMAIN log' : Reading(h)' => h = g
  <2>1. log' = log
    BY DEF Consumes, files
  <2> QED
    BY <2>1, ConsumesHandle
<1> QED
  BY <1>1 DEF Buffers

\* No line is under way after the end of one.
LEMMA LineEnds ==
  ASSUME IInv, NEW g \in DOMAIN log, NEW n \in Nat, Ahead(g, n), Consumes(g, n),
         tf'.partial = <<>>, At(<<g, n + 1>>).end # "torn"
  PROVE  LineUnderWay(g)' /\ Cut' = n + 1
<1>1. tf'.off = n + 1 /\ Cut' = n + 1
  BY DEF Consumes, Cut
<1>2. Base(g)' = Base(g) /\ \A q : At(q)' = At(q)
  BY FilesStay DEF Consumes
<1>3. Base(g) \in Nat /\ Base(g) <= n + 1
  <2>1. Base(g) \in Nat /\ Cut \in Base(g) .. n
    BY LineAhead
  <2> QED
    BY <2>1
<1>4. At(<<g, Cut>>)'.end # "torn"
  BY <1>1, <1>2
<1> QED
  BY <1>1, <1>2, <1>3, <1>4 DEF LineUnderWay

\* The chunks of a message that does not end with this piece.
LEMMA ChunksKept ==
  ASSUME IInv, NEW g \in DOMAIN log, NEW n \in Nat, Ahead(g, n), Consumes(g, n),
         NEW s, s = At(<<g, n + 1>>).stream,
         NEW z \in Streams, tf'.cpart[z] = tf.cpart[z], Cut' \in {Cut, n + 1},
         z = s => Cut' = Cut /\ At(<<g, n + 1>>).end # "full",
         \A q : Taken(q)' => Taken(q) \/ At(q).stream # z
  PROVE  ChunksOf(z, g)'
<1>1. /\ ChunksOf(z, g) /\ tf.off = n /\ tf'.off = n + 1
  BY NothingTaken DEF Ahead, Consumes
<1>2. /\ \A q : At(q)' = At(q)
      /\ \A h, x, m : Begun(h, x, m)' = Begun(h, x, m)
  BY FilesStay DEF Consumes
<1>3. Begun(g, z, tf.off)' = Begun(g, z, n + 1)
  BY <1>1, <1>2
<1>4. /\ Cut \in Nat /\ Cut <= n
      /\ \A i \in Begun(g, z, n) : i \in 1 .. n /\ At(<<g, i>>).stream = z
      /\ z # s => \A i \in Begun(g, z, n) : i <= Cut
      /\ z # s => Begun(g, z, n + 1) = Begun(g, z, n)
      /\ z = s => Begun(g, z, n + 1) = Begun(g, z, n) \cup {n + 1}
      /\ z = s /\ At(<<g, n + 1>>).first => Begun(g, z, n) = {}
  <2>1. Base(g) \in Nat /\ Cut \in Base(g) .. n
    BY LineAhead
  <2>2. \A i \in Begun(g, z, n) : i \in 1 .. n /\ At(<<g, i>>).stream = z
    BY DEF Begun
  <2>3. /\ z # s => \A i \in Begun(g, z, n) : i <= Cut
        /\ z # s => Begun(g, z, n + 1) = Begun(g, z, n)
        /\ z = s => Begun(g, z, n + 1) = Begun(g, z, n) \cup {n + 1}
    BY BegunAhead
  <2>4. z = s /\ At(<<g, n + 1>>).first => Begun(g, z, n) = {}
    BY TextAhead
  <2> QED
    BY <2>1, <2>2, <2>3, <2>4
<1>5. ASSUME NEW k \in DOMAIN tf.cpart[z], NEW q, q = tf.cpart[z][k]
      PROVE  q[1] = g /\ q[2] <= Cut' /\ q[2] \in Begun(g, z, n + 1) /\ ~Taken(q)'
  <2>1. q[1] = g /\ q[2] <= Cut /\ q[2] \in Begun(g, z, n) /\ ~Taken(q)
    BY <1>1, <1>5 DEF ChunksOf
  <2>2. q[2] \in Begun(g, z, n + 1) /\ q[2] \in Nat
    <3>1. q[2] \in 1 .. n
      BY <1>4, <2>1
    <3>2. CASE z = s
      BY <1>4, <2>1, <3>1, <3>2
    <3>3. CASE z # s
      BY <1>4, <2>1, <3>1, <3>3
    <3> QED
      BY <3>2, <3>3
  <2>3. At(q) = At(<<g, q[2]>>)
    BY <2>1 DEF At
  <2>4. At(q).stream = z
    BY <1>4, <2>1, <2>3
  <2> QED
    BY <1>4, <2>1, <2>2, <2>4
<1>6. ASSUME NEW h \in Begun(g, z, n + 1), At(<<g, h>>).first,
             NEW i \in Begun(g, z, n + 1), i <= Cut'
      PROVE  \E k \in DOMAIN tf.cpart[z] : tf.cpart[z][k] = <<g, i>>
  <2>1. i \in Begun(g, z, n) /\ i <= Cut
    BY <1>4, <1>6
  <2>2. h \in Begun(g, z, n)
    BY <1>4, <1>6, <2>1
  <2> QED
    BY <1>1, <1>6, <2>1, <2>2 DEF ChunksOf
<1>7. InOrder(tf.cpart[z])'
  BY <1>1 DEF ChunksOf, InOrder
<1>8. \A k \in DOMAIN tf'.cpart[z] :
        /\ tf'.cpart[z][k][1] = g /\ tf'.cpart[z][k][2] <= Cut'
        /\ tf'.cpart[z][k][2] \in Begun(g, z, tf.off)' /\ (~Taken(tf.cpart[z][k]))'
  BY <1>3, <1>5
<1>9. (\E h \in Begun(g, z, tf.off)' : At(<<g, h>>)'.first) =>
         \A i \in Begun(g, z, tf.off)' :
           i <= Cut' => \E k \in DOMAIN tf'.cpart[z] : tf'.cpart[z][k] = <<g, i>>
  BY <1>2, <1>3, <1>6
<1> QED
  BY <1>7, <1>8, <1>9 DEF ChunksOf

\* No chunk waits after the end of a message.
LEMMA ChunksEnd ==
  ASSUME IInv, NEW g \in DOMAIN log, NEW n \in Nat, Ahead(g, n), Consumes(g, n),
         NEW z \in Streams, tf'.cpart[z] = <<>>,
         \A i \in Begun(g, z, n + 1) : ~At(<<g, i>>).first
  PROVE  ChunksOf(z, g)'
<1>1. tf'.off = n + 1
  BY DEF Consumes
<1>2. /\ \A q : At(q)' = At(q)
      /\ \A h, x, m : Begun(h, x, m)' = Begun(h, x, m)
  BY FilesStay DEF Consumes
<1>3. Begun(g, z, tf.off)' = Begun(g, z, n + 1)
  BY <1>1, <1>2
<1>4. DOMAIN tf'.cpart[z] = {} /\ InOrder(tf.cpart[z])'
  BY DEF InOrder
<1>5. \A i \in Begun(g, z, n + 1) : ~At(<<g, i>>)'.first
  BY <1>2
<1> QED
  BY <1>3, <1>4, <1>5 DEF ChunksOf
-------------------------------------------------------------------------------
(* One lemma per outcome of a read.                                        *)

\* The invariant, but for the types.
Kept == /\ Numbered /\ Texts /\ Handle /\ Behind /\ Buffers /\ CountedOnce
        /\ WholeMessages

LEMMA TornKept ==
  ASSUME IInv, NEW g \in DOMAIN log, NEW n \in Nat, Ahead(g, n), Consumes(g, n),
         At(<<g, n + 1>>).end = "torn", tf'.partial = LineTo(g, n),
         tf'.cpart = tf.cpart, counted' = counted
  PROVE  Kept'
<1>1. /\ Behind' /\ CountedOnce' /\ WholeMessages' /\ \A q : Taken(q)' <=> Taken(q)
      /\ Handle' /\ Numbered' /\ Texts'
  BY CountsNothing, ConsumesHandle
<1>2. /\ Len(LineTo(g, n)) = n + 1 - Cut /\ DOMAIN LineTo(g, n) = 1 .. n + 1 - Cut
      /\ \A k \in DOMAIN LineTo(g, n) : LineTo(g, n)[k] = <<g, Cut + k>>
  BY LineToNext
<1>3. /\ Base(g) \in Nat /\ Cut \in Nat /\ Base(g) <= Cut /\ Cut <= n
      /\ Cut > Base(g) => At(<<g, Cut>>).end # "torn"
  <2>1. /\ Base(g) \in Nat /\ Cut \in Base(g) .. n
        /\ Cut > Base(g) => At(<<g, Cut>>).end # "torn"
    BY LineAhead
  <2> QED
    BY <2>1
<1>4. tf'.off = n + 1 /\ Cut' = Cut
  BY <1>2, <1>3 DEF Consumes, Cut
<1>5. Base(g)' = Base(g) /\ \A q : At(q)' = At(q)
  BY FilesStay DEF Consumes
<1>6. ASSUME NEW k \in DOMAIN LineTo(g, n)
      PROVE  /\ At(<<g, Cut + k>>).end = "torn"
             /\ At(<<g, Cut + k>>).stream = At(<<g, n + 1>>).stream
  <2>1. Cut + k \in Cut + 1 .. n \/ Cut + k = n + 1
    BY <1>2, <1>3, <1>6
  <2> QED
    BY <2>1, LineAhead
<1>7. /\ \A k \in DOMAIN tf'.partial :
           /\ tf'.partial[k] = <<g, Cut' + k>>
           /\ At(<<g, Cut + k>>)'.end = "torn"
           /\ At(<<g, Cut + k>>)'.stream = At(<<g, tf.off>>)'.stream
      /\ Cut' > Base(g)' => At(<<g, Cut>>)'.end # "torn"
  BY <1>2, <1>3, <1>4, <1>5, <1>6
<1>8. LineUnderWay(g)'
  BY <1>3, <1>4, <1>5, <1>7 DEF LineUnderWay
<1>9. \A k \in DOMAIN tf'.partial : (~Taken(tf.partial[k]))'
  BY <1>1, NothingTaken
<1>10. \A z \in Streams : ChunksOf(z, g)'
  BY <1>1, <1>4, ChunksKept
<1>11. Buffers'
  BY <1>8, <1>9, <1>10, BufferedNext
<1> QED
  BY <1>1, <1>11 DEF Kept

LEMMA RestKept ==
  ASSUME IInv, NEW g \in DOMAIN log, NEW n \in Nat, Ahead(g, n), Consumes(g, n),
         At(<<g, n + 1>>).end # "torn", At(<<g, Cut + 1>>).cont, tf'.partial = <<>>,
         tf'.cpart = tf.cpart, Counts(LineTo(g, n))
  PROVE  Kept'
<1> DEFINE c == LineTo(g, n)
           s == At(<<g, n + 1>>).stream
<1>1. s \in Streams /\ c \in Seq(Places) /\ tf.cpart[s] = <<>>
  BY TextAhead, RestAhead, LineToNext DEF Pieces
<1>2. c = MessageTo(g, n, s)
  BY <1>1 DEF MessageTo
<1>3. UpTo(c, g, n, s)
  <2> HIDE DEF c, s
  <2> QED
    BY <1>1, <1>2, MessageToNext DEF s
<1>4. c[Len(c)] = <<g, n + 1>> /\ Uncounted(c, g, n)
  <2> HIDE DEF c, s
  <2> QED
    BY <1>3, UpToBounds
<1>5. /\ Behind' /\ CountedOnce' /\ Handle' /\ Numbered' /\ Texts'
  BY <1>1, <1>4, CountsMessage, ConsumesHandle
<1>6. ~Uncut(<<g, n + 1>>)
  <2>1. /\ \A i \in Begun(g, s, n) : ~At(<<g, i>>).first
        /\ ~At(<<g, n + 1>>).first
    BY RestAhead
  <2> QED
    BY <2>1 DEF Uncut, Message
<1>7. WholeMessages'
  BY <1>1, <1>4, <1>6, CountsWhole
<1>8. LineUnderWay(g)' /\ Cut' = n + 1
  BY LineEnds
<1>9. ASSUME NEW z \in Streams PROVE ChunksOf(z, g)'
  <2>1. \A i \in Begun(g, z, n + 1) : ~At(<<g, i>>).first
    <3>1. /\ \A i \in Begun(g, z, n) : ~At(<<g, i>>).first
          /\ ~At(<<g, n + 1>>).first
      BY RestAhead
    <3>2. Begun(g, z, n + 1) \subseteq Begun(g, z, n) \cup {n + 1}
      <4>1. PICK x : x = At(<<g, n + 1>>).stream
        OBVIOUS
      <4>2. CASE z = x
        <5>1. \/ Begun(g, x, n + 1) = {}
              \/ Begun(g, x, n + 1) = Begun(g, x, n) \cup {n + 1}
          BY <4>1, BegunAhead
        <5> QED
          BY <4>2, <5>1
      <4>3. CASE z # x
        <5>1. Begun(g, z, n + 1) = Begun(g, z, n)
          BY <4>1, <4>3, BegunAhead
        <5> QED
          BY <5>1
      <4> QED
        BY <4>2, <4>3
    <3> QED
      BY <3>1, <3>2
  <2>2. tf'.cpart[z] = <<>>
    BY RestAhead
  <2> QED
    BY <2>1, <2>2, ChunksEnd
<1>10. Buffers'
  BY <1>8, <1>9, BufferedNext
<1> QED
  BY <1>5, <1>7, <1>10 DEF Kept

LEMMA ChunkKept ==
  ASSUME IInv, NEW g \in DOMAIN log, NEW n \in Nat, Ahead(g, n), Consumes(g, n),
         NEW s \in Streams, s = At(<<g, n + 1>>).stream,
         At(<<g, n + 1>>).end = "chunk", tf'.partial = <<>>,
         tf'.cpart = [tf.cpart EXCEPT ![s] = MessageTo(g, n, s)], counted' = counted
  PROVE  Kept'
<1>1. /\ Behind' /\ CountedOnce' /\ WholeMessages' /\ \A q : Taken(q)' <=> Taken(q)
      /\ Handle' /\ Numbered' /\ Texts'
  BY CountsNothing, ConsumesHandle
<1>2. LineUnderWay(g)' /\ Cut' = n + 1 /\ tf'.off = n + 1
  BY LineEnds DEF Consumes
<1>3. /\ tf'.cpart[s] = MessageTo(g, n, s)
      /\ \A z \in Streams : z # s => tf'.cpart[z] = tf.cpart[z]
  BY Types DEF IInv
<1>4. \A z \in Streams : z # s => ChunksOf(z, g)'
  BY <1>1, <1>2, <1>3, ChunksKept
<1>5. ChunksOf(s, g)'
  <2>1. PICK c : c = MessageTo(g, n, s)
    OBVIOUS
  <2>2. UpTo(c, g, n, s)
    BY <2>1, MessageToNext
  <2>3. /\ \A q : At(q)' = At(q)
        /\ \A h, x, m : Begun(h, x, m)' = Begun(h, x, m)
    BY FilesStay DEF Consumes
  <2>4. Begun(g, s, tf.off)' = Begun(g, s, n + 1)
    BY <1>2, <2>3
  <2>5. Begun(g, s, n + 1) = Begun(g, s, n) \cup {n + 1}
    BY BegunAhead
  <2>6. \A i \in Begun(g, s, n) \cup {n + 1} : i <= n + 1
    BY DEF Begun
  <2>7. InOrder(tf.cpart[s])'
    BY <1>3, <2>1, <2>2 DEF InOrder, UpTo
  <2>8. \A k \in DOMAIN tf'.cpart[s] :
          /\ tf'.cpart[s][k][1] = g /\ tf'.cpart[s][k][2] <= Cut'
          /\ tf'.cpart[s][k][2] \in Begun(g, s, tf.off)' /\ (~Taken(tf.cpart[s][k]))'
    <3>1. ASSUME NEW k \in DOMAIN c
          PROVE  /\ c[k][1] = g /\ c[k][2] <= Cut'
                 /\ c[k][2] \in Begun(g, s, tf.off)' /\ ~Taken(c[k])
      <4>1. /\ ~Taken(c[k]) /\ c[k][1] = g
            /\ c[k][2] \in Begun(g, s, n) \cup {n + 1}
        BY <2>2 DEF UpTo
      <4> QED
        BY <1>2, <2>4, <2>5, <2>6, <4>1
    <3>2. tf'.cpart[s] = c /\ \A q : Taken(q)' <=> Taken(q)
      BY <1>1, <1>3, <2>1
    <3> QED
      BY <3>1, <3>2
  <2>9. (\E h \in Begun(g, s, tf.off)' : At(<<g, h>>)'.first) =>
           \A i \in Begun(g, s, tf.off)' :
             i <= Cut' => \E k \in DOMAIN tf'.cpart[s] : tf'.cpart[s][k] = <<g, i>>
    <3>1. (\E h \in Begun(g, s, n + 1) : At(<<g, h>>).first) =>
             \A i \in Begun(g, s, n + 1) : \E k \in DOMAIN c : c[k] = <<g, i>>
      BY <2>2, <2>5 DEF UpTo
    <3>2. tf'.cpart[s] = c
      BY <1>3, <2>1
    <3> QED
      BY <2>3, <2>4, <3>1, <3>2
  <2> QED
    BY <2>7, <2>8, <2>9 DEF ChunksOf
<1>6. Buffers'
  BY <1>2, <1>4, <1>5, BufferedNext
<1> QED
  BY <1>1, <1>6 DEF Kept

LEMMA FullKept ==
  ASSUME IInv, NEW g \in DOMAIN log, NEW n \in Nat, Ahead(g, n), Consumes(g, n),
         NEW s \in Streams, s = At(<<g, n + 1>>).stream,
         At(<<g, n + 1>>).end = "full", tf'.partial = <<>>,
         tf'.cpart = [tf.cpart EXCEPT ![s] = <<>>],
         Counts(MessageTo(g, n, s))
  PROVE  Kept'
<1>1. PICK c : c = MessageTo(g, n, s)
  OBVIOUS
<1>2. UpTo(c, g, n, s)
  BY <1>1, MessageToNext
<1>3. c \in Seq(Places) /\ c[Len(c)] = <<g, n + 1>> /\ Uncounted(c, g, n)
  BY <1>2, UpToBounds
<1>4. Counts(c) /\ IInv /\ Ahead(g, n) /\ Consumes(g, n)
  BY <1>1
<1>5. /\ Behind' /\ CountedOnce' /\ Handle' /\ Numbered' /\ Texts'
      /\ \A q : Taken(q)' <=> Taken(q) \/ \E k \in DOMAIN c : c[k] = q
  <2>1. Handle' /\ Numbered' /\ Texts'
    BY ConsumesHandle
  <2>2. /\ Behind' /\ CountedOnce'
        /\ \A q : Taken(q)' <=> Taken(q) \/ \E k \in DOMAIN c : c[k] = q
    BY ONLY <1>3, <1>4, CountsMessage, g \in DOMAIN log, n \in Nat
  <2> QED
    BY <2>1, <2>2
<1>6. Message(<<g, n + 1>>) = {<<g, i>> : i \in Begun(g, s, n) \cup {n + 1}}
  <2>1. (n + 1) - 1 = n
    OBVIOUS
  <2> QED
    BY <2>1 DEF Message
<1>7. ASSUME Uncut(<<g, n + 1>>) PROVE Range(c) = Message(<<g, n + 1>>)
  <2>1. \E i \in Begun(g, s, n) \cup {n + 1} : At(<<g, i>>).first
    BY <1>6, <1>7 DEF Uncut
  <2>2. \A i \in Begun(g, s, n) \cup {n + 1} : \E k \in DOMAIN c : c[k] = <<g, i>>
    BY <1>2, <2>1 DEF UpTo
  <2>3. \A k \in DOMAIN c : c[k] = <<g, c[k][2]>> /\ c[k][2] \in Begun(g, s, n) \cup {n + 1}
    BY <1>2 DEF UpTo
  <2>4. ASSUME NEW p \in Message(<<g, n + 1>>) PROVE \E k \in DOMAIN c : c[k] = p
    <3>1. PICK i \in Begun(g, s, n) \cup {n + 1} : p = <<g, i>>
      BY <1>6, Zenon
    <3> QED
      BY <2>2, <3>1
  <2>5. \A k \in DOMAIN c : c[k] \in Message(<<g, n + 1>>)
    BY <1>6, <2>3
  <2> QED
    BY <2>4, <2>5 DEF Range
<1>8. WholeMessages'
  BY <1>3, <1>4, <1>7, CountsWhole DEF Uncounted
<1>9. LineUnderWay(g)' /\ Cut' = n + 1
  BY LineEnds
<1>10. /\ tf'.cpart[s] = <<>>
       /\ \A z \in Streams : z # s => tf'.cpart[z] = tf.cpart[z]
  BY Types DEF IInv
<1>11. ChunksOf(s, g)'
  <2>1. Begun(g, s, n + 1) = {}
    BY BegunAhead
  <2> QED
    BY <1>10, <2>1, ChunksEnd
<1>12. ASSUME NEW z \in Streams, z # s PROVE ChunksOf(z, g)'
  <2>1. ASSUME NEW k \in DOMAIN c PROVE At(c[k]).stream = s
    <3>1. \A i \in Begun(g, s, n) \cup {n + 1} : At(<<g, i>>).stream = s
      BY DEF Begun
    <3>2. c[k] = <<g, c[k][2]>> /\ c[k][2] \in Begun(g, s, n) \cup {n + 1}
      BY <1>2, <2>1 DEF UpTo
    <3> QED
      BY <3>1, <3>2
  <2>2. \A q : Taken(q)' => Taken(q) \/ At(q).stream # z
    BY <1>5, <1>12, <2>1
  <2> QED
    BY <1>9, <1>10, <1>12, <2>2, ChunksKept
<1>13. Buffers'
  <2>1. \A z \in Streams : ChunksOf(z, g)'
    BY <1>11, <1>12
  <2> QED
    BY <1>9, <2>1, BufferedNext
<1> QED
  BY <1>5, <1>8, <1>13 DEF Kept
-------------------------------------------------------------------------------
(* The invariant.                                                          *)

LEMMA PieceTypes ==
  ASSUME IInv, NEW g \in DOMAIN log, NEW n \in Nat, Ahead(g, n), Consumes(g, n),
         tf'.partial \in Seq(Places), tf'.cpart \in [Streams -> Seq(Places)],
         tf' = [file |-> tf'.file, live |-> tf'.live, off |-> tf'.off,
                partial |-> tf'.partial, cpart |-> tf'.cpart, gone |-> tf'.gone],
         counted' \in Seq(Seq(Places)), total < Limit, total' = total + 1
  PROVE  TypeOK'
<1>1. /\ tf'.file \in 0 .. MaxGens /\ tf'.live \in BOOLEAN /\ tf'.off \in 0 .. MaxPieces
      /\ tf'.gone \in {"no", "yes", "over"}
  <2>1. n + 1 \in 1 .. MaxPieces
    BY TextAhead
  <2>2. n + 1 \in 0 .. MaxPieces
    BY <2>1
  <2>3. tf \in TailRecord
    BY TailTypes DEF IInv
  <2>4. tf.file \in 0 .. MaxGens /\ tf.live \in BOOLEAN /\ tf.gone \in {"no", "yes", "over"}
    BY <2>3 DEF TailRecord
  <2> QED
    BY <2>2, <2>4 DEF Consumes
<1>2. total' \in 0 .. Limit
  <2>1. Limit \in Nat /\ total \in 0 .. Limit
    BY TailAssumption DEF IInv, TypeOK
  <2> QED
    BY <2>1
<1>3. UNCHANGED <<log, path, writer, pen, poll, skip>>
  BY DEF Consumes, files
<1> QED
  BY <1>1, <1>2, <1>3 DEF IInv, TypeOK

LEMMA ReadPieceInv ==
  ASSUME IInv, ReadPiece
  PROVE  IInv'
<1>1. CanRead /\ total < Limit /\ total' = total + 1 /\ UNCHANGED <<files, poll, skip>>
  BY DEF ReadPiece, CanRead
<1>2. PICK g \in DOMAIN log : \E n \in Nat : Ahead(g, n) /\ NextPlace = <<g, n + 1>>
  BY <1>1, Reaches
<1>3. PICK n \in Nat : Ahead(g, n) /\ NextPlace = <<g, n + 1>>
  BY <1>2
<1>4. PICK s \in Streams : s = At(<<g, n + 1>>).stream
  BY <1>3, TextAhead DEF Pieces
<1>5. /\ LineTo(g, n) \in Seq(Places) /\ LineTo(g, n)[1] = <<g, Cut + 1>>
      /\ LineTo(g, n) = Append(tf.partial, NextPlace)
  <2>1. /\ LineTo(g, n) \in Seq(Places) /\ 1 \in 1 .. n + 1 - Cut
        /\ \A k \in 1 .. n + 1 - Cut : LineTo(g, n)[k] = <<g, Cut + k>>
    <3>1. Base(g) \in Nat /\ Cut \in Base(g) .. n
      BY <1>3, LineAhead
    <3>2. 1 \in 1 .. n + 1 - Cut
      BY <3>1
    <3> QED
      BY <1>3, <3>2, LineToNext
  <2> QED
    BY <1>3, <2>1 DEF LineTo
<1>6. /\ tf \in TailRecord /\ tf.off = n /\ counted \in Seq(Seq(Places))
      /\ tf.cpart \in [Streams -> Seq(Places)]
  BY <1>3, TailTypes DEF IInv, TypeOK, Ahead
<1>7. /\ At(<<g, n + 1>>).end \in Ends
      /\ MessageTo(g, n, s) \in Seq(Places)
  <2>1. PICK c : c = MessageTo(g, n, s)
    OBVIOUS
  <2>2. UpTo(c, g, n, s)
    BY <1>3, <1>4, <2>1, MessageToNext
  <2> QED
    BY <1>3, <2>1, <2>2, TextAhead DEF UpTo, Pieces
<1> DEFINE p == At(<<g, n + 1>>)
<1>8. CASE p.end = "torn" /\ Torn(LineTo(g, n))
  <2>1. tf' = [tf EXCEPT !.off = @ + 1, !.partial = LineTo(g, n)] /\ counted' = counted
    BY <1>8 DEF Torn, MovesBy
  <2>2. /\ tf'.partial = LineTo(g, n) /\ tf'.cpart = tf.cpart /\ Consumes(g, n)
        /\ tf' = [file |-> tf'.file, live |-> tf'.live, off |-> tf'.off,
                  partial |-> tf'.partial, cpart |-> tf'.cpart, gone |-> tf'.gone]
    BY <1>1, <1>6, <2>1 DEF TailRecord, Consumes
  <2>3. TypeOK'
    BY <1>1, <1>3, <1>5, <1>6, <2>1, <2>2, PieceTypes
  <2>4. Kept'
    BY <1>3, <1>8, <2>1, <2>2, TornKept
  <2> QED
    BY <2>3, <2>4 DEF IInv, Kept
<1>9. CASE p.end # "torn" /\ At(<<g, Cut + 1>>).cont /\ Rest(LineTo(g, n))
  <2>1. /\ tf' = [tf EXCEPT !.off = @ + 1, !.partial = <<>>]
        /\ counted' = Append(counted, LineTo(g, n))
    BY <1>9 DEF Rest, MovesBy
  <2>2. /\ tf'.partial = <<>> /\ tf'.cpart = tf.cpart /\ Consumes(g, n)
        /\ tf' = [file |-> tf'.file, live |-> tf'.live, off |-> tf'.off,
                  partial |-> tf'.partial, cpart |-> tf'.cpart, gone |-> tf'.gone]
    BY <1>1, <1>6, <2>1 DEF TailRecord, Consumes
  <2>3. counted' \in Seq(Seq(Places)) /\ tf'.partial \in Seq(Places)
    BY <1>5, <1>6, <2>1, <2>2
  <2>4. TypeOK'
    BY <1>1, <1>3, <1>6, <2>2, <2>3, PieceTypes
  <2>5. Kept'
    <3>1. Counts(LineTo(g, n)) /\ At(<<g, n + 1>>).end # "torn" /\ At(<<g, Cut + 1>>).cont
      BY <1>9, <2>1 DEF Counts
    <3> QED
      BY <1>3, <2>2, <3>1, RestKept
  <2> QED
    BY <2>4, <2>5 DEF IInv, Kept
<1>10. CASE p.end = "chunk" /\ Chunk(LineTo(g, n), s)
  <2>1. /\ tf' = [tf EXCEPT !.off = @ + 1, !.partial = <<>>, !.cpart[s] = @ \o LineTo(g, n)]
        /\ counted' = counted
    BY <1>10 DEF Chunk, MovesBy
  <2>2. /\ tf'.partial = <<>> /\ tf'.cpart = [tf.cpart EXCEPT ![s] = MessageTo(g, n, s)]
        /\ Consumes(g, n)
        /\ tf' = [file |-> tf'.file, live |-> tf'.live, off |-> tf'.off,
                  partial |-> tf'.partial, cpart |-> tf'.cpart, gone |-> tf'.gone]
    BY <1>1, <1>6, <2>1 DEF TailRecord, Consumes, MessageTo
  <2>3. tf'.cpart \in [Streams -> Seq(Places)] /\ tf'.partial \in Seq(Places)
    BY <1>6, <1>7, <2>2
  <2>4. TypeOK'
    BY <1>1, <1>3, <1>6, <2>1, <2>2, <2>3, PieceTypes
  <2>5. Kept'
    <3>1. counted' = counted /\ At(<<g, n + 1>>).end = "chunk"
      BY <1>10, <2>1
    <3>2. s = At(<<g, n + 1>>).stream
      BY <1>4
    <3> QED
      BY <1>3, <2>2, <3>1, <3>2, ChunkKept
  <2> QED
    BY <2>4, <2>5 DEF IInv, Kept
<1>11. CASE p.end = "full" /\ Full(LineTo(g, n), s)
  <2>1. /\ tf' = [tf EXCEPT !.off = @ + 1, !.partial = <<>>, !.cpart[s] = <<>>]
        /\ counted' = Append(counted, MessageTo(g, n, s))
    BY <1>11 DEF Full, MovesBy, MessageTo
  <2>2. /\ tf'.partial = <<>> /\ tf'.cpart = [tf.cpart EXCEPT ![s] = <<>>]
        /\ Consumes(g, n)
        /\ tf' = [file |-> tf'.file, live |-> tf'.live, off |-> tf'.off,
                  partial |-> tf'.partial, cpart |-> tf'.cpart, gone |-> tf'.gone]
    BY <1>1, <1>6, <2>1 DEF TailRecord, Consumes
  <2>3. /\ tf'.cpart \in [Streams -> Seq(Places)] /\ tf'.partial \in Seq(Places)
        /\ counted' \in Seq(Seq(Places))
    BY <1>6, <1>7, <2>1, <2>2
  <2>4. TypeOK'
    BY <1>1, <1>3, <2>2, <2>3, PieceTypes
  <2>5. Kept'
    <3>1. Counts(MessageTo(g, n, s)) /\ At(<<g, n + 1>>).end = "full"
      BY <1>11, <2>1 DEF Counts
    <3>2. s = At(<<g, n + 1>>).stream
      BY <1>4
    <3> QED
      BY <1>3, <2>2, <3>1, <3>2, FullKept
  <2> QED
    BY <2>4, <2>5 DEF IInv, Kept
<1> QED
  BY <1>3, <1>4, <1>5, <1>8, <1>9, <1>10, <1>11 DEF ReadPiece

LEMMA InitInv == Init => IInv
<1> SUFFICES ASSUME Init PROVE IInv
  OBVIOUS
<1>1. PICK s \in Streams, end \in Ends, n \in {0, 1}, fromStart \in BOOLEAN :
        /\ log = <<[file |-> 1,
                    text |-> IF n = 0 THEN <<>> ELSE <<Piece(s, end, FALSE, TRUE)>>]>>
        /\ pen = [pieces |-> n,
                  line |-> IF n = 1 /\ end = "torn" THEN {s} ELSE {},
                  messages |-> IF n = 1 /\ end # "full" THEN {s} ELSE {}]
        /\ path = 1 /\ writer = 1
        /\ skip = IF fromStart THEN 0 ELSE n
        /\ tf = Opened(1, skip)
        /\ poll = "idle" /\ total = 0
        /\ counted = <<>>
  BY DEF Init
<1> DEFINE p == Piece(s, end, FALSE, TRUE)
           t == IF n = 0 THEN <<>> ELSE <<p>>
<1>2. /\ p \in Pieces /\ p.stream = s /\ p.end = end /\ p.cont = FALSE
      /\ MaxPieces \in Nat \ {0} /\ MaxGens \in Nat \ {0} /\ Limit \in Nat \ {0}
  BY TailAssumption DEF Piece, Pieces
<1> HIDE DEF p
<1>3. /\ t \in Seq(Pieces) /\ Len(t) = n /\ \A i \in 1 .. Len(t) : i = 1 /\ t[i] = p
  BY <1>2
<1> DEFINE e == [file |-> 1, text |-> t]
<1>4. log = <<e>> /\ e \in FileRecord /\ e.file = 1 /\ e.text = t
  <2>1. log = <<e>>
    BY <1>1 DEF p
  <2> HIDE DEF t
  <2>2. 1 \in 1 .. MaxGens
    BY <1>2
  <2> QED
    BY <1>3, <2>1, <2>2 DEF FileRecord
<1> HIDE DEF e
<1>5. /\ log \in Seq(FileRecord) /\ Latest = 1 /\ DOMAIN log = {1}
      /\ log[1].file = 1 /\ log[1].text = t
  BY <1>4 DEF Latest
<1> HIDE DEF t
<1>6. Size(1) = n
  BY <1>3, <1>5 DEF Size
<1>7. skip \in 0 .. n
  BY <1>1
<1>8. /\ tf \in TailRecord /\ tf.file = 1 /\ tf.live /\ tf.off = skip /\ tf.partial = <<>>
      /\ \A z \in Streams : tf.cpart[z] = <<>>
      /\ tf.gone = "no"
  <2>1. skip \in 0 .. MaxPieces /\ 0 \in 0 .. MaxGens /\ 1 \in 0 .. MaxGens
    BY <1>2, <1>7
  <2>2. NoTail \in TailRecord
    <3>1. <<>> \in Seq(Places)
      OBVIOUS
    <3>2. [z \in Streams |-> <<>>] \in [Streams -> Seq(Places)]
      BY <3>1
    <3>3. 0 \in 0 .. MaxPieces
      BY <1>2
    <3> QED
      BY <2>1, <3>1, <3>2, <3>3 DEF NoTail, TailRecord, None
  <2>3. tf = [NoTail EXCEPT !.file = 1, !.live = TRUE, !.off = skip]
    BY <1>1 DEF Opened
  <2>4. tf \in TailRecord
    BY <2>1, <2>2, <2>3 DEF TailRecord
  <2> QED
    BY <2>3, <2>4 DEF NoTail
<1>9. TypeOK
  <2>1. pen \in [pieces : 0 .. MaxPieces, line : SUBSET Streams, messages : SUBSET Streams]
    BY <1>1, <1>2
  <2>2. total \in 0 .. Limit /\ path \in 0 .. MaxGens /\ skip \in 0 .. 1
    BY <1>1, <1>2, <1>7
  <2> QED
    <3>1. counted \in Seq(Seq(Places))
      <4> DEFINE S == Seq(Places)
      <4> HIDE DEF S
      <4>1. counted \in Seq(S)
        BY <1>1
      <4> QED
        BY <4>1 DEF S
    <3>2. writer \in 0 .. MaxGens /\ poll \in {"idle", "read", "stat", "finish"}
      BY <1>1, <2>2
    <3> QED
      BY <1>5, <1>8, <2>1, <2>2, <3>1, <3>2 DEF TypeOK, FileRecord, TailRecord
<1>10. Numbered
  BY <1>1, <1>2, <1>5 DEF Numbered
<1>11. Texts
  <2>1. Wellformed(t)
    <3> SUFFICES ASSUME NEW i \in 1 .. Len(t)
                 PROVE  /\ i = 1 /\ ~t[i].cont /\ 1 .. i - 1 = {}
      BY DEF Wellformed
    <3>1. i = 1 /\ t[i] = p
      BY <1>3
    <3> QED
      BY <1>2, <3>1
  <2>2. Unfinished(t, pen.line, pen.messages)
    <3>1. /\ pen.line = IF n = 1 /\ end = "torn" THEN {s} ELSE {}
          /\ pen.messages = IF n = 1 /\ end # "full" THEN {s} ELSE {}
      BY <1>1
    <3>2. pen.line \subseteq pen.messages
      BY <3>1
    <3>3. CASE n = 0
      BY <1>3, <3>1, <3>2, <3>3 DEF Unfinished
    <3>4. CASE n = 1
      <4>1. Len(t) = 1 /\ t[1].end = end /\ t[1].stream = s
        BY <1>2, <1>3, <3>4
      <4>2. s \in pen.messages \/ Ended(t, s, 1, 1)
        BY <3>1, <3>4, <4>1 DEF Ended
      <4>3. pen.line = IF t[Len(t)].end = "torn" THEN {t[Len(t)].stream} ELSE {}
        BY <3>1, <3>4, <4>1
      <4>4. ASSUME NEW i \in 1 .. Len(t)
            PROVE  t[i].stream \in pen.messages \/ Ended(t, t[i].stream, i, Len(t))
        <5>1. i = 1
          BY <4>1
        <5> QED
          BY <4>1, <4>2, <5>1
      <4> QED
        BY <3>2, <4>3, <4>4 DEF Unfinished
    <3> QED
      BY <3>3, <3>4
  <2>3. pen.pieces = n /\ n <= n
    BY <1>1
  <2> QED
    BY <1>5, <1>6, <2>1, <2>2, <2>3 DEF Texts
<1>12. Reading(1)
  BY <1>5, <1>8 DEF Reading
<1>13. Handle
  BY <1>1, <1>5, <1>6, <1>7, <1>8, <1>12 DEF Handle, None
<1>14. counted = <<>> /\ DOMAIN counted = {} /\ \A q : ~Taken(q)
  BY <1>1 DEF Taken
<1>15. Behind
  BY <1>14 DEF Behind
<1>16. Buffers
  <2> SUFFICES LineUnderWay(1) /\ \A z \in Streams : ChunksOf(z, 1)
    BY <1>5, <1>8 DEF Buffers
  <2>1. Cut = skip /\ Base(1) = skip
    BY <1>7, <1>8 DEF Cut, Base
  <2>2. LineUnderWay(1)
    BY <1>7, <1>8, <2>1 DEF LineUnderWay
  <2>3. ASSUME NEW z \in Streams PROVE ChunksOf(z, 1)
    <3>1. Begun(1, z, tf.off) = {}
      BY <1>7, <1>8 DEF Begun, Skipped
    <3>2. DOMAIN tf.cpart[z] = {} /\ InOrder(tf.cpart[z])
      BY <1>8 DEF InOrder
    <3> QED
      BY <3>1, <3>2 DEF ChunksOf
  <2> QED
    BY <2>2, <2>3
<1>17. CountedOnce /\ WholeMessages
  BY <1>14 DEF CountedOnce, WholeMessages, Range
<1> QED
  BY <1>9, <1>10, <1>11, <1>13, <1>15, <1>16, <1>17 DEF IInv

LEMMA NextInv == IInv /\ [Next]_vars => IInv'
<1> SUFFICES ASSUME IInv, [Next]_vars PROVE IInv'
  OBVIOUS
<1>1. CASE PollBegin \/ ReadEnds \/ Rotated \/ Follow(FALSE) \/ GracePasses
  BY <1>1, WaitingInv
<1>2. CASE ReadPiece
  BY <1>2, ReadPieceInv
<1>3. CASE Gone
  BY <1>3, GoneInv
<1>4. CASE Present
  BY <1>4, PresentInv
<1>5. CASE Follow(TRUE)
  BY <1>5, FollowInv
<1>6. CASE Rescan
  BY <1>6, RescanInv
<1>7. ASSUME NEW s \in Streams, NEW end \in Ends, Write(s, end) PROVE IInv'
  BY <1>7, WriteInv
<1>8. CASE Rename \/ Delete
  BY <1>8, UnlinkInv
<1>9. CASE Reopen \/ Truncate \/ Create
  BY <1>9, GenerateInv
<1>10. CASE UNCHANGED vars
  <2>1. /\ UNCHANGED <<files, skip, counted>> /\ tf' = tf /\ poll' = poll /\ total' = total
        /\ TypeOK /\ Handle
    BY <1>10 DEF vars, IInv
  <2>2. poll \in {"idle", "read", "stat", "finish"}
    BY <2>1 DEF TypeOK
  <2>3. TypeOK'
    BY <2>1, <2>2, TailTypes, TypeStays
  <2>4. Quiet
    BY <2>1 DEF Quiet, Handle
  <2> QED
    BY <2>3, <2>4, QuietInv
<1> QED
  BY <1>1, <1>2, <1>3, <1>4, <1>5, <1>6, <1>7, <1>8, <1>9, <1>10
     DEF Next, Poll, Stat, Runtime

LEMMA Invariant == Spec => []IInv
<1>1. Init => IInv
  BY InitInv
<1>2. IInv /\ [Next]_vars => IInv'
  BY NextInv
<1> QED
  BY <1>1, <1>2, PTL DEF Spec
-------------------------------------------------------------------------------
(* The theorems.                                                           *)

\* Every variable keeps its type: the offset and the buffers stay within what the
\* runtime wrote, and a read within its limit (agent.go:247-291).
THEOREM TypeCorrect == Spec => []TypeOK
<1>1. IInv => TypeOK
  BY DEF IInv
<1> QED
  BY <1>1, Invariant, PTL

\* However the runtime writes, rotates, truncates and removes the file between
\* two steps of the agent, every line counted is one whole message, unless it
\* begins before start-up or in another file (agent.go:195-244, 268-324).
THEOREM MessagesWhole == Spec => []WholeMessages
<1>1. IInv => WholeMessages
  BY DEF IInv
<1> QED
  BY <1>1, Invariant, PTL

\* No piece is counted in two lines, or twice in one: what was counted lies before
\* the offset, or in a file or generation the agent has left (agent.go:217-243).
THEOREM PiecesOnce == Spec => []CountedOnce
<1>1. IInv => CountedOnce
  BY DEF IInv
<1> QED
  BY <1>1, Invariant, PTL

===============================================================================
