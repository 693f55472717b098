--------------------------- MODULE OpenCodeProofs -----------------------------
(***************************************************************************)
(* Proofs about module OpenCode, for any rows, any number of readers and    *)
(* any bounds: the watermark of an OpenCode database never passes an event   *)
(* that is not stored.                                                      *)
(*                                                                         *)
(* The watermark is read before the queries whose results it stands for, so *)
(* the invariant says, of every parser on its way, what it still owes: what *)
(* is due by the watermark it has read is stored, or in its hands, or will  *)
(* be found by a query that is still ahead (ParserOK).  A mirror shows a    *)
(* prefix of the writes, and what it lacks is younger than it (MirrorTimes).*)
(* The query for an event goes by the time of some write of the event's row *)
(* (Anchored), and finds the row by its last write, which is no older.      *)
(***************************************************************************)
EXTENDS OpenCode, TLAPS

Writes == [row : OpenCodeRows, finished : BOOLEAN, time : Nat, by : Nat]

Places == {"idle", "load", "compare", "stage", "copyDb", "copyWal", "latest", "part",
           "prompt", "answer", "upsert", "save"}

Locals == [pc : Places, parses : Nat, force : BOOLEAN, from : Nat, latest : Nat,
           events : SUBSET Writes]

OpenCodeTypeOK ==
  /\ writes \in Seq(Writes)
  /\ clock \in Nat
  /\ source \in [db : Nat, base : Nat, dbTime : Nat, walTime : Nat]
  /\ foreign \in BOOLEAN
  /\ mirror \in [db : Nat, base : Nat, upto : Nat, dbTime : Nat, walTime : Nat]
  /\ captured \in SUBSET Writes
  /\ watermark \in Nat
  /\ parser \in [Readers -> Locals]

\* OpenCode stamps its rows in the order of its writes, and leaves a finished
\* row alone.
Stamped ==
  /\ \A i \in DOMAIN writes : writes[i].time <= clock
  /\ \A i, j \in DOMAIN writes : i <= j => writes[i].time <= writes[j].time
  /\ \A i, j \in DOMAIN writes :
        i < j /\ writes[i].row = writes[j].row => ~writes[i].finished

LastWrite(row, n) ==
  \E j \in 1 .. n : /\ writes[j].row = row
                    /\ \A k \in 1 .. n : writes[k].row = row => k <= j

\* The first n writes of a row have a last one.
Lasts ==
  \A n \in 0 .. Len(writes) : \A i \in 1 .. n : LastWrite(writes[i].row, n)

\* The time that the query for an event goes by is that of a write of its row.
Anchored ==
  \A i \in DOMAIN writes : \E a \in 1 .. i :
     writes[a].row = EventOf(writes[i].row) /\ writes[a].time = writes[i].by

\* The files hold writes that have happened.
Happened ==
  source.db <= Len(writes) /\ mirror.db <= Len(writes) /\ mirror.upto <= Len(writes)

\* What the mirror lacks is younger than the mirror.
MirrorTimes ==
  foreign =>
    /\ \A i \in 1 .. mirror.upto : writes[i].time <= mirror.walTime
    /\ \A i \in DOMAIN writes \ late :
          i > mirror.upto => writes[i].by > mirror.walTime

HasRow(events, i) == \E e \in events : e.row = EventOf(writes[i].row)

\* The writes up to a time that must not be lost.
DueBy(time) == {i \in DOMAIN writes \ late : Completes(i) /\ writes[i].by <= time}

StoredBy(time) == \A i \in DueBy(time) : HasRow(captured, i)

\* The queries that a parser has before it, and what they will find.
Ahead(pc) == CASE pc = "part"   -> {"part", "prompt", "answer"}
               [] pc = "prompt" -> {"prompt", "answer"}
               [] pc = "answer" -> {"answer"}
               [] OTHER         -> {}
ToBeFound(r, i) == /\ EventOf(writes[i].row)[1] \in Ahead(parser[r].pc)
                   /\ foreign => i <= mirror.upto

ParserOK(r) ==
  /\ parser[r].pc \notin {"idle", "load"} => StoredBy(parser[r].from)
  /\ parser[r].pc \in {"part", "prompt", "answer", "upsert"} =>
        \A i \in DueBy(parser[r].latest) :
           HasRow(captured, i) \/ HasRow(parser[r].events, i) \/ ToBeFound(r, i)
  /\ parser[r].pc = "save" => StoredBy(parser[r].latest)

Kept == StoredBy(watermark) /\ \A r \in Readers : ParserOK(r)

OpenCodeIInv == OpenCodeTypeOK /\ Stamped /\ Lasts /\ Anchored /\ Happened /\ MirrorTimes
                /\ (~torn => Kept)

-------------------------------------------------------------------------------
(* Types.                                                                    *)

LEMMA OpenCodeInitOK == OpenCodeInit => OpenCodeIInv
<1> SUFFICES ASSUME OpenCodeInit PROVE OpenCodeIInv
  OBVIOUS
<1>1. OpenCodeTypeOK
  BY TimesAssumption DEF OpenCodeInit, OpenCodeTypeOK, Resting, Locals, Places
<1>2. writes = <<>> /\ DOMAIN writes = {} /\ Len(writes) = 0
  BY DEF OpenCodeInit
<1>3. Stamped
  BY <1>2 DEF Stamped
<1>4. Lasts /\ Anchored /\ Happened /\ MirrorTimes
  BY <1>2 DEF OpenCodeInit, Lasts, Anchored, Happened, MirrorTimes
<1>5. Kept
  BY <1>2 DEF OpenCodeInit, Kept, ParserOK, StoredBy, DueBy, Resting
<1> QED
  BY <1>1, <1>3, <1>4, <1>5 DEF OpenCodeIInv

LEMMA WriteTypes ==
  ASSUME OpenCodeTypeOK
  PROVE  /\ DOMAIN writes = 1 .. Len(writes) /\ Len(writes) \in Nat
         /\ \A i \in 1 .. Len(writes) :
               /\ i \in Nat /\ writes[i] \in Writes
               /\ writes[i].row \in OpenCodeRows /\ writes[i].time \in Nat
               /\ writes[i].by \in Nat
               /\ writes[i].finished \in BOOLEAN
<1>1. DOMAIN writes = 1 .. Len(writes) /\ Len(writes) \in Nat
  BY DEF OpenCodeTypeOK
<1>2. \A i \in 1 .. Len(writes) : i \in Nat /\ writes[i] \in Writes
  BY DEF OpenCodeTypeOK
<1> QED
  BY <1>1, <1>2 DEF Writes

\* The latest write of a view is its last one.
LEMMA LatestIsLast ==
  ASSUME OpenCodeTypeOK, Stamped, NEW view \in SUBSET (1 .. Len(writes)),
         NEW n \in view, \A i \in view : i <= n
  PROVE  LatestIn(view) = writes[n].time
<1>1. \A i \in view : writes[i].time \in Nat /\ writes[i].time <= writes[n].time
  BY WriteTypes DEF Stamped
<1> DEFINE Latest(i) == \A j \in view : writes[j].time <= writes[i].time
           latest == CHOOSE i \in view : Latest(i)
<1>2. Latest(n)
  BY <1>1
<1>3. latest \in view /\ Latest(latest)
  <2> HIDE DEF Latest
  <2> QED
    BY <1>2
<1>4. writes[latest].time = writes[n].time
  <2>1. writes[n].time <= writes[latest].time
    BY <1>3
  <2> HIDE DEF latest
  <2> QED
    BY <1>1, <1>3, <2>1
<1>5. LatestIn(view) = writes[latest].time
  BY DEF LatestIn
<1> QED
  BY <1>4, <1>5

LEMMA LatestTypes ==
  ASSUME OpenCodeTypeOK, Stamped, Happened
  PROVE  LatestIn(Visible) \in Nat
<1>1. CASE Visible = {}
  BY <1>1 DEF LatestIn
<1>2. CASE Visible # {}
  <2>1. \E n \in Visible : \A i \in Visible : i <= n
    <3>1. CASE foreign
      <4>1. /\ Visible = (1 .. mirror.db) \cup (mirror.base + 1 .. mirror.upto)
            /\ mirror.db \in Nat /\ mirror.base \in Nat /\ mirror.upto \in Nat
        BY <3>1 DEF Visible, OpenCodeTypeOK
      <4>2. CASE mirror.base + 1 .. mirror.upto = {} \/ mirror.upto <= mirror.db
        <5>1. mirror.db \in Visible
          BY <1>2, <4>1, <4>2
        <5>2. \A i \in Visible : i <= mirror.db
          BY <4>1, <4>2
        <5> QED
          BY <5>1, <5>2
      <4>3. CASE mirror.base + 1 .. mirror.upto # {} /\ mirror.upto > mirror.db
        <5>1. mirror.upto \in Visible /\ \A i \in Visible : i <= mirror.upto
          BY <4>1, <4>3
        <5> QED
          BY <5>1
      <4> QED
        BY <4>1, <4>2, <4>3
    <3>2. CASE ~foreign
      <4>1. Visible = 1 .. Len(writes) /\ Len(writes) \in Nat
        BY <3>2, WriteTypes DEF Visible
      <4> QED
        BY <1>2, <4>1
    <3> QED
      BY <3>1, <3>2
  <2>2. Visible \subseteq 1 .. Len(writes)
    <3>1. CASE foreign
      BY <3>1, WriteTypes DEF Visible, OpenCodeTypeOK, Happened
    <3>2. CASE ~foreign
      BY <3>2, WriteTypes DEF Visible
    <3> QED
      BY <3>1, <3>2
  <2> HIDE DEF Visible
  <2> QED
    BY <2>1, <2>2, LatestIsLast, WriteTypes
<1> QED
  BY <1>1, <1>2

\* A parse that does not read a mixed mirror sees the first n writes: all of
\* them, or those that the mirror reaches.
LEMMA VisibleWrites ==
  ASSUME OpenCodeTypeOK, Happened, ~(foreign /\ Mixed)
  PROVE  \E n \in 0 .. Len(writes) :
            /\ Visible = 1 .. n
            /\ foreign => n = mirror.upto
            /\ ~foreign => n = Len(writes)
<1>1. CASE foreign
  <2>1. /\ mirror.base \in Nat /\ mirror.db \in Nat /\ mirror.upto \in Nat
        /\ mirror.base <= mirror.db /\ mirror.db <= mirror.upto
        /\ mirror.upto <= Len(writes)
    BY <1>1 DEF OpenCodeTypeOK, Happened, Mixed
  <2>2. (1 .. mirror.db) \cup (mirror.base + 1 .. mirror.upto) = 1 .. mirror.upto
    BY <2>1
  <2>3. Visible = 1 .. mirror.upto
    BY <1>1, <2>2 DEF Visible
  <2> QED
    BY <1>1, <2>1, <2>3, WriteTypes
<1>2. CASE ~foreign
  <2>1. Visible = 1 .. Len(writes)
    BY <1>2, WriteTypes DEF Visible
  <2>2. Len(writes) \in 0 .. Len(writes)
    BY WriteTypes
  <2> QED
    BY <1>2, <2>1, <2>2
<1> QED
  BY <1>1, <1>2

LEMMA LaterStill ==
  ASSUME NEW from \in Nat, NEW t \in Nat, t > from, NEW u \in Nat, t <= u
  PROVE  u > from
OBVIOUS

\* What an event's last write says of the event.
LEMMA CompletesIs ==
  ASSUME OpenCodeTypeOK, NEW i \in 1 .. Len(writes), Completes(i)
  PROVE  /\ EventOf(writes[i].row)[1] \in {"part", "prompt", "answer"}
         /\ EventOf(writes[i].row)[1] = "answer" => /\ writes[i].finished
                                                   /\ writes[i].row = EventOf(writes[i].row)
         /\ EventOf(writes[i].row)[1] = "prompt" =>
               \E k \in 1 .. i : /\ writes[k].row[1] = "text" /\ writes[k].finished
                                 /\ EventOf(writes[k].row) = EventOf(writes[i].row)
<1>1. i \in 1 .. i
  BY WriteTypes
<1>2. CASE writes[i].row[1] = "text" /\ writes[i].finished
  BY <1>1, <1>2 DEF EventOf
<1>3. CASE writes[i].row[1] # "text" /\ Yields(writes[i], 1 .. i)
  BY <1>3 DEF Yields, HasText, EventOf
<1> QED
  BY <1>2, <1>3 DEF Completes, Yields

\* A query finds an event whose row has been written since the last watermark.
LEMMA QueryFinds ==
  ASSUME OpenCodeTypeOK, Stamped, Lasts, Anchored, NEW from \in Nat,
         NEW n \in 0 .. Len(writes), NEW i \in 1 .. n, Completes(i), writes[i].by > from
  PROVE  \E w \in Selected(EventOf(writes[i].row)[1], from, 1 .. n) : w.row = EventOf(writes[i].row)
<1> DEFINE row == EventOf(writes[i].row)
<1>1. \A k \in 1 .. n : /\ k \in DOMAIN writes /\ k \in Nat /\ writes[k].time \in Nat
                        /\ writes[k].row \in OpenCodeRows /\ writes[k].by \in Nat
                        /\ k \in 1 .. Len(writes)
  BY WriteTypes
<1>2. PICK a \in 1 .. i : writes[a].row = row /\ writes[a].time = writes[i].by
  BY <1>1 DEF Anchored
<1>3. a \in 1 .. n /\ row \in OpenCodeRows /\ i \in Nat /\ a \in Nat /\ a <= i
  BY <1>1, <1>2
<1>4. PICK j \in 1 .. n : /\ writes[j].row = row
                          /\ \A k \in 1 .. n : writes[k].row = row => k <= j
  BY <1>2, <1>3 DEF Lasts, LastWrite
<1>5. a <= j
  BY <1>2, <1>3, <1>4
<1>6. writes[j].time > from
  <2>1. writes[a].time <= writes[j].time
    BY <1>1, <1>3, <1>4, <1>5 DEF Stamped
  <2>2. writes[a].time \in Nat /\ writes[j].time \in Nat
    BY <1>1, <1>3
  <2> QED
    BY <1>2, <2>1, <2>2, LaterStill
<1>7. Yields(writes[j], 1 .. n)
  <2>1. /\ row[1] \in {"part", "prompt", "answer"}
        /\ row[1] = "answer" => writes[i].finished /\ writes[i].row = row
        /\ row[1] = "prompt" =>
               \E k \in 1 .. i : /\ writes[k].row[1] = "text" /\ writes[k].finished
                                 /\ EventOf(writes[k].row) = row
    BY <1>1, CompletesIs
  <2> HIDE DEF row
  <2>2. CASE row[1] = "part"
    BY <1>4, <2>2 DEF Yields
  <2>3. CASE row[1] = "prompt"
    <3>1. PICK k \in 1 .. i : /\ writes[k].row[1] = "text" /\ writes[k].finished
                              /\ EventOf(writes[k].row) = row
      BY <2>1, <2>3
    <3>2. k \in 1 .. n
      BY <1>1, <3>1
    <3> QED
      BY <1>4, <2>3, <3>1, <3>2 DEF Yields, HasText
  <2>4. CASE row[1] = "answer"
    <3>1. i <= j
      BY <1>4, <2>1, <2>4
    <3>2. i = j
      <4> SUFFICES ASSUME i # j PROVE FALSE
        OBVIOUS
      <4>1. i < j /\ writes[i].row = writes[j].row
        BY <1>1, <1>4, <2>1, <2>4, <3>1
      <4> QED
        BY <1>1, <2>1, <2>4, <4>1 DEF Stamped
    <3> QED
      BY <1>4, <2>1, <2>4, <3>2 DEF Yields
  <2> QED
    BY <2>1, <2>2, <2>3, <2>4
<1> HIDE DEF row
<1>8. j \in LastOfRow(row, 1 .. n)
  BY <1>4 DEF LastOfRow
<1>9. j \in {k \in UNION {LastOfRow(q, 1 .. n) : q \in OpenCodeRows} :
               /\ writes[k].row[1] = row[1] /\ writes[k].time > from
               /\ Yields(writes[k], 1 .. n)}
  BY <1>3, <1>4, <1>6, <1>7, <1>8
<1>10. writes[j] \in Selected(row[1], from, 1 .. n)
  BY <1>9 DEF Selected
<1> QED
  BY <1>4, <1>10 DEF row

-------------------------------------------------------------------------------
(* OpenCode writes.                                                          *)

\* The time that a write's event goes by is that of a write of the event's row.
LEMMA GoesByOf ==
  ASSUME OpenCodeTypeOK, Stamped, Lasts, NEW row \in OpenCodeRows,
         NEW finished \in BOOLEAN, Write(row, finished)
  PROVE  /\ GoesBy(row) \in Nat /\ GoesBy(row) <= clock
         /\ row[1] # "text" => GoesBy(row) = clock /\ EventOf(row) = row
         /\ row[1] = "text" => \E a \in 1 .. Len(writes) :
               writes[a].row = EventOf(row) /\ writes[a].time = GoesBy(row)
<1>1. clock \in Nat /\ DOMAIN writes = 1 .. Len(writes) /\ Len(writes) \in Nat
  BY WriteTypes DEF OpenCodeTypeOK
<1>2. CASE row[1] # "text"
  BY <1>1, <1>2 DEF GoesBy, EventOf
<1>3. CASE row[1] = "text"
  <2> DEFINE view == Of(EventOf(row))
  <2>1. view \in SUBSET (1 .. Len(writes)) /\ view # {}
    BY <1>1, <1>3 DEF Of, Write
  <2>2. PICK i \in 1 .. Len(writes) : writes[i].row = EventOf(row)
    BY <1>1, <2>1 DEF Of
  <2>3. Len(writes) \in 0 .. Len(writes)
    BY <1>1
  <2>4. PICK a \in 1 .. Len(writes) :
           /\ writes[a].row = EventOf(row)
           /\ \A k \in 1 .. Len(writes) : writes[k].row = EventOf(row) => k <= a
    BY <2>2, <2>3 DEF Lasts, LastWrite
  <2>5. a \in view /\ \A k \in view : k <= a
    BY <1>1, <2>4 DEF Of
  <2>6. LatestIn(view) = writes[a].time
    <3> HIDE DEF view
    <3> QED
      BY <2>1, <2>5, LatestIsLast
  <2>7. GoesBy(row) = writes[a].time
    BY <1>3, <2>6 DEF GoesBy
  <2>8. writes[a].time \in Nat /\ writes[a].time <= clock
    BY <1>1, <2>4, WriteTypes DEF Stamped
  <2> QED
    BY <1>3, <2>4, <2>7, <2>8
<1> QED
  BY <1>2, <1>3

LEMMA WriteShape ==
  ASSUME OpenCodeTypeOK, Stamped, Lasts, NEW row \in OpenCodeRows,
         NEW finished \in BOOLEAN, Write(row, finished)
  PROVE  /\ Len(writes') = Len(writes) + 1 /\ DOMAIN writes' = 1 .. Len(writes) + 1
         /\ \A i \in 1 .. Len(writes) : writes'[i] = writes[i]
         /\ writes'[Len(writes) + 1].row = row
         /\ writes'[Len(writes) + 1].time = clock
         /\ writes'[Len(writes) + 1].by = GoesBy(row)
         /\ writes' \in Seq(Writes)
<1> DEFINE w == [row |-> row, finished |-> finished, time |-> clock, by |-> GoesBy(row)]
<1>1. w \in Writes
  BY GoesByOf DEF OpenCodeTypeOK, Writes
<1>2. writes \in Seq(Writes)
  BY DEF OpenCodeTypeOK
<1>3. writes' = Append(writes, w)
  BY DEF Write
<1>4. w.row = row /\ w.time = clock /\ w.by = GoesBy(row)
  OBVIOUS
<1> HIDE DEF w
<1> QED
  BY <1>1, <1>2, <1>3, <1>4

\* A write changes nothing of what earlier ones completed.
LEMMA CompletesKept ==
  ASSUME OpenCodeTypeOK, Stamped, Lasts, NEW row \in OpenCodeRows,
         NEW finished \in BOOLEAN, Write(row, finished), NEW i \in 1 .. Len(writes)
  PROVE  Completes(i)' = Completes(i)
<1>1. \A k \in 1 .. i : writes'[k] = writes[k]
  BY WriteShape, WriteTypes
<1>2. i \in 1 .. i
  BY WriteTypes
<1> QED
  BY <1>1, <1>2 DEF Completes, Yields, HasText

LEMMA CompletesStill ==
  ASSUME writes' = writes, NEW i
  PROVE  Completes(i)' = Completes(i)
BY DEF Completes, Yields, HasText

LEMMA WriteKeepsStamped ==
  ASSUME OpenCodeTypeOK, Stamped, Lasts, Anchored, NEW row \in OpenCodeRows,
         NEW finished \in BOOLEAN, Write(row, finished)
  PROVE  Stamped' /\ Lasts' /\ Anchored'
<1> DEFINE new == Len(writes) + 1
<1>1. /\ Len(writes) \in Nat /\ clock \in Nat /\ clock' = clock
      /\ DOMAIN writes = 1 .. Len(writes)
      /\ \A i \in 1 .. Len(writes) : writes[i].time \in Nat
  BY WriteTypes DEF Write, OpenCodeTypeOK
<1>2. /\ Len(writes') = new /\ DOMAIN writes' = 1 .. new
      /\ \A i \in 1 .. Len(writes) : writes'[i] = writes[i]
      /\ writes'[new].row = row /\ writes'[new].time = clock
  BY WriteShape
<1>3. \A i \in DOMAIN writes' : i # new => i \in 1 .. Len(writes)
  BY <1>1, <1>2
<1>4. \A i \in 1 .. Len(writes) : /\ writes[i].time <= clock
                                  /\ writes[i].row = row => ~writes[i].finished
  BY <1>1 DEF Stamped, Write, Of
<1>5. \A i \in DOMAIN writes' : writes'[i].time <= clock'
  BY <1>1, <1>2, <1>3, <1>4
<1>6. ASSUME NEW i \in DOMAIN writes', NEW j \in DOMAIN writes', i <= j
      PROVE  writes'[i].time <= writes'[j].time
  <2>1. CASE j = new
    BY <1>1, <1>2, <1>5, <2>1
  <2>2. CASE j # new
    <3>1. i \in 1 .. Len(writes) /\ j \in 1 .. Len(writes)
      BY <1>1, <1>2, <1>6, <2>2
    <3> QED
      BY <1>1, <1>2, <1>6, <3>1 DEF Stamped
  <2> QED
    BY <2>1, <2>2
<1>7. ASSUME NEW i \in DOMAIN writes', NEW j \in DOMAIN writes', i < j,
             writes'[i].row = writes'[j].row
      PROVE  ~writes'[i].finished
  <2>1. i \in 1 .. Len(writes)
    BY <1>1, <1>2, <1>7
  <2>2. CASE j = new
    BY <1>2, <1>4, <1>7, <2>1, <2>2
  <2>3. CASE j # new
    <3>1. j \in 1 .. Len(writes)
      BY <1>3, <2>3
    <3> QED
      BY <1>1, <1>2, <1>7, <2>1, <3>1 DEF Stamped
  <2> QED
    BY <2>2, <2>3
<1>8. ASSUME NEW n \in 0 .. new, NEW i \in 1 .. n
      PROVE  LastWrite(writes[i].row, n)'
  <2>1. CASE n = new
    <3>1. CASE writes'[i].row = row
      <4>1. new \in 1 .. n /\ \A k \in 1 .. n : k <= new
        BY <1>1, <2>1
      <4> QED
        BY <1>2, <3>1, <4>1 DEF LastWrite
    <3>2. CASE writes'[i].row # row
      <4>1. i \in 1 .. Len(writes) /\ writes'[i] = writes[i] /\ Len(writes) \in 0 .. Len(writes)
        BY <1>1, <1>2, <2>1, <3>2
      <4>2. PICK j \in 1 .. Len(writes) :
               /\ writes[j].row = writes[i].row
               /\ \A k \in 1 .. Len(writes) : writes[k].row = writes[i].row => k <= j
        BY <4>1 DEF Lasts, LastWrite
      <4>3. j \in 1 .. n /\ writes'[j].row = writes'[i].row
        BY <1>1, <1>2, <2>1, <4>1, <4>2
      <4>4. ASSUME NEW k \in 1 .. n, writes'[k].row = writes'[i].row PROVE k <= j
        <5>1. k # new
          BY <1>2, <3>2, <4>4
        <5>2. k \in 1 .. Len(writes)
          BY <1>1, <2>1, <5>1
        <5> QED
          BY <1>2, <4>1, <4>2, <4>4, <5>2
      <4> QED
        BY <4>3, <4>4 DEF LastWrite
    <3> QED
      BY <3>1, <3>2
  <2>2. CASE n # new
    <3>1. n \in 0 .. Len(writes) /\ \A k \in 1 .. n : k \in 1 .. Len(writes)
      BY <1>1, <2>2
    <3>2. \A k \in 1 .. n : writes'[k] = writes[k]
      BY <1>2, <3>1
    <3>3. LastWrite(writes[i].row, n)
      BY <3>1 DEF Lasts
    <3> QED
      BY <3>2, <3>3 DEF LastWrite
  <2> QED
    BY <2>1, <2>2
<1>9. ASSUME NEW i \in DOMAIN writes'
      PROVE  \E a \in 1 .. i : /\ writes'[a].row = EventOf(writes'[i].row)
                               /\ writes'[a].time = writes'[i].by
  <2>1. CASE i = new /\ row[1] # "text"
    <3>1. i \in 1 .. i
      BY <1>1, <2>1
    <3> QED
      BY <1>2, <2>1, <3>1, GoesByOf, WriteShape
  <2>2. CASE i = new /\ row[1] = "text"
    <3>1. PICK a \in 1 .. Len(writes) : /\ writes[a].row = EventOf(row)
                                        /\ writes[a].time = GoesBy(row)
      BY <2>2, GoesByOf
    <3>2. a \in 1 .. i
      BY <1>1, <2>2
    <3> QED
      BY <1>2, <2>2, <3>1, <3>2, WriteShape
  <2>3. CASE i # new
    <3>1. i \in 1 .. Len(writes) /\ i \in DOMAIN writes /\ writes'[i] = writes[i]
      BY <1>1, <1>2, <1>3, <2>3
    <3>2. PICK a \in 1 .. i : /\ writes[a].row = EventOf(writes[i].row)
                              /\ writes[a].time = writes[i].by
      BY <3>1 DEF Anchored
    <3>3. writes'[a] = writes[a]
      BY <1>1, <1>2, <3>1
    <3> QED
      BY <3>1, <3>2, <3>3
  <2> QED
    BY <2>1, <2>2, <2>3
<1> QED
  BY <1>2, <1>5, <1>6, <1>7, <1>8, <1>9 DEF Stamped, Lasts, Anchored

\* A write is due only by times that nobody has read yet.
LEMMA WriteIsNew ==
  ASSUME OpenCodeTypeOK, Stamped, Lasts, NEW row \in OpenCodeRows, NEW finished \in BOOLEAN,
         Write(row, finished), NEW time \in Nat, time >= GoesBy(row) => Read(GoesBy(row))
  PROVE  /\ DueBy(time)' \subseteq DueBy(time)
         /\ \A i \in DueBy(time)' : writes'[i] = writes[i]
<1> SUFFICES ASSUME NEW i \in DueBy(time)' PROVE i \in DueBy(time) /\ writes'[i] = writes[i]
  OBVIOUS
<1>1. /\ i \in 1 .. Len(writes) + 1 /\ i \notin late' /\ late \subseteq late'
      /\ Completes(i)' /\ writes'[i].by <= time
  BY WriteShape DEF DueBy, Write
<1>2. i # Len(writes) + 1
  <2> SUFFICES ASSUME i = Len(writes) + 1 PROVE FALSE
    OBVIOUS
  <2>1. writes'[i].by = GoesBy(row) /\ GoesBy(row) \in Nat
    BY WriteShape, GoesByOf
  <2>2. Read(GoesBy(row))
    BY <1>1, <2>1
  <2> QED
    BY <1>1, <2>2 DEF Write
<1>3. i \in 1 .. Len(writes) /\ i \in DOMAIN writes
  BY <1>1, <1>2, WriteTypes
<1>4. writes'[i] = writes[i] /\ Completes(i)
  BY <1>1, <1>3, WriteShape, CompletesKept
<1> QED
  BY <1>1, <1>3, <1>4 DEF DueBy

LEMMA WriteKeepsMirror ==
  ASSUME OpenCodeTypeOK, Stamped, Lasts, Happened, MirrorTimes, NEW row \in OpenCodeRows,
         NEW finished \in BOOLEAN, Write(row, finished)
  PROVE  Happened' /\ MirrorTimes'
<1>1. /\ Len(writes) \in Nat /\ clock \in Nat /\ source'.db = source.db
      /\ mirror' = mirror /\ foreign' = foreign
      /\ mirror.upto \in Nat /\ mirror.db \in Nat /\ source.db \in Nat /\ mirror.walTime \in Nat
  BY WriteTypes DEF Write, OpenCodeTypeOK
<1>0. /\ Len(writes') = Len(writes) + 1
      /\ \A i \in 1 .. Len(writes) : writes'[i] = writes[i]
  BY WriteShape
<1>2. Happened'
  BY <1>0, <1>1 DEF Happened
<1>3. ASSUME foreign, NEW i \in 1 .. mirror.upto PROVE writes'[i].time <= mirror.walTime
  <2>1. i \in 1 .. Len(writes)
    BY <1>1 DEF Happened
  <2> QED
    BY <1>0, <1>3, <2>1 DEF MirrorTimes
<1>4. ASSUME foreign, NEW i \in DOMAIN writes' \ late', i > mirror.upto
      PROVE  writes'[i].by > mirror.walTime
  <2>1. CASE i = Len(writes) + 1
    <3>1. /\ ~Read(GoesBy(row)) /\ writes'[i].by = GoesBy(row) /\ GoesBy(row) \in Nat
      BY <1>4, <2>1, WriteShape, GoesByOf DEF Write
    <3> QED
      BY <1>1, <1>4, <3>1 DEF Read
  <2>2. CASE i # Len(writes) + 1
    <3>1. i \in DOMAIN writes \ late /\ writes'[i] = writes[i]
      BY <1>1, <1>4, <2>2, WriteShape, WriteTypes DEF Write
    <3> QED
      BY <1>4, <3>1 DEF MirrorTimes
  <2> QED
    BY <2>1, <2>2
<1> QED
  BY <1>1, <1>2, <1>3, <1>4 DEF MirrorTimes

LEMMA WriteKeepsKept ==
  ASSUME OpenCodeTypeOK, Stamped, Lasts, Kept, NEW row \in OpenCodeRows,
         NEW finished \in BOOLEAN, Write(row, finished)
  PROVE  Kept'
<1> DEFINE by == GoesBy(row)
<1>1. captured' = captured /\ watermark' = watermark /\ parser' = parser
      /\ mirror' = mirror /\ foreign' = foreign /\ watermark \in Nat /\ by \in Nat
  BY GoesByOf DEF Write, OpenCodeTypeOK
<1> HIDE DEF by
<1>2. ASSUME NEW time \in Nat, time >= by => Read(by), StoredBy(time)
      PROVE  StoredBy(time)'
  BY <1>1, <1>2, WriteIsNew DEF by, StoredBy, HasRow
<1>3. StoredBy(watermark)'
  <2>1. watermark >= by => Read(by)
    BY DEF Read
  <2> QED
    BY <1>1, <1>2, <2>1 DEF Kept, StoredBy
<1>4. ASSUME NEW r \in Readers PROVE ParserOK(r)'
  <2>1. /\ parser[r].from \in Nat /\ parser[r].latest \in Nat
        /\ parser[r].from >= by => Read(by)
        /\ parser[r].latest >= by => Read(by)
    BY DEF OpenCodeTypeOK, Locals, Read
  <2>2. ParserOK(r)
    BY DEF Kept
  <2>3. parser[r].pc \notin {"idle", "load"} => StoredBy(parser[r].from)'
    BY <1>1, <1>2, <2>1, <2>2 DEF ParserOK, StoredBy
  <2>4. parser[r].pc = "save" => StoredBy(parser[r].latest)'
    BY <1>1, <1>2, <2>1, <2>2 DEF ParserOK, StoredBy
  <2>5. ASSUME parser[r].pc \in {"part", "prompt", "answer", "upsert"},
               NEW i \in DueBy(parser[r].latest)'
        PROVE  HasRow(captured, i)' \/ HasRow(parser[r].events, i)' \/ ToBeFound(r, i)'
    <3>1. i \in DueBy(parser[r].latest) /\ writes'[i] = writes[i]
      BY <1>1, <2>1, <2>5, WriteIsNew DEF by, DueBy
    <3>2. HasRow(captured, i) \/ HasRow(parser[r].events, i) \/ ToBeFound(r, i)
      BY <2>2, <2>5, <3>1 DEF ParserOK
    <3> QED
      BY <1>1, <3>1, <3>2 DEF HasRow, ToBeFound
  <2> QED
    BY <1>1, <2>3, <2>4, <2>5 DEF ParserOK
<1> QED
  BY <1>3, <1>4 DEF Kept

-------------------------------------------------------------------------------
(* The parsers.                                                              *)

LEMMA SelectedWrites ==
  ASSUME OpenCodeTypeOK, Happened, NEW kind, NEW from
  PROVE  Selected(kind, from, Visible) \subseteq Writes
<1>1. Visible \subseteq 1 .. Len(writes)
  <2>1. CASE foreign
    BY <2>1, WriteTypes DEF Visible, OpenCodeTypeOK, Happened
  <2>2. CASE ~foreign
    BY <2>2, WriteTypes DEF Visible
  <2> QED
    BY <2>1, <2>2
<1>2. \A row \in OpenCodeRows : LastOfRow(row, Visible) \subseteq Visible
  BY DEF LastOfRow
<1> QED
  BY <1>1, <1>2, WriteTypes DEF Selected

\* A step of a parser moves that parser only.
LEMMA ParserMoves ==
  ASSUME OpenCodeTypeOK, Stamped, Happened, NEW r \in Readers, ParserStep(r)
  PROVE  \E p \in Locals : Move(r, p)
<1>0. parser[r] \in Locals /\ parser[r].from \in Nat /\ parser[r].parses \in Nat /\ watermark \in Nat
  BY DEF OpenCodeTypeOK, Locals
<1>1. CASE Over(r)
  <2> DEFINE p == [Resting EXCEPT !.parses = parser[r].parses]
  <2>1. p \in Locals
    BY <1>0 DEF Locals, Resting, Places
  <2>2. Move(r, p)
    BY <1>1 DEF Over
  <2> QED
    BY <2>1, <2>2
<1>2. CASE Ask(r)
  <2>1. PICK force \in BOOLEAN : Move(r, Asked(r, force))
    BY <1>2 DEF Ask
  <2>2. parser[r].parses + 1 \in Nat
    BY <1>0
  <2>3. Asked(r, force) \in Locals
    BY <2>2 DEF Asked, Resting, Locals, Places
  <2> QED
    BY <2>1, <2>3
<1>3. CASE LoadWatermark(r)
  <2>1. PICK saved \in {watermark, 0} :
           Move(r, [parser[r] EXCEPT !.pc = "compare",
                                     !.from = IF parser[r].force THEN 0 ELSE saved])
    BY <1>3 DEF LoadWatermark
  <2> DEFINE from == IF parser[r].force THEN 0 ELSE saved
             p == [parser[r] EXCEPT !.pc = "compare", !.from = from]
  <2>2. from \in Nat
    BY <1>0
  <2>3. p \in Locals
    <3> HIDE DEF from
    <3> QED
      BY <1>0, <2>2 DEF Locals, Places
  <2> QED
    BY <2>1, <2>3
<1>4. CASE Compare(r) \/ Stage(r) \/ CopyDb(r) \/ CopyWal(r)
  <2>1. Over(r) \/ \E pc \in Places : Move(r, [parser[r] EXCEPT !.pc = pc])
    BY <1>4 DEF Compare, Stage, CopyDb, CopyWal, Places
  <2>2. ASSUME NEW pc \in Places, Move(r, [parser[r] EXCEPT !.pc = pc])
        PROVE  \E p \in Locals : Move(r, p)
    <3>1. [parser[r] EXCEPT !.pc = pc] \in Locals
      BY <1>0 DEF Locals
    <3> QED
      BY <2>2, <3>1
  <2> QED
    BY <1>1, <2>1, <2>2
<1>5. CASE ReadLatest(r)
  <2>1. PICK latest \in {LatestIn(Visible), 0} :
           Move(r, [parser[r] EXCEPT !.latest = latest,
                                     !.pc = IF latest <= parser[r].from THEN "upsert" ELSE "part"])
    BY <1>5 DEF ReadLatest
  <2> DEFINE pc == IF latest <= parser[r].from THEN "upsert" ELSE "part"
             p == [parser[r] EXCEPT !.latest = latest, !.pc = pc]
  <2>2. latest \in Nat
    BY LatestTypes
  <2>3. pc \in Places
    BY DEF Places
  <2>4. p \in Locals
    <3> HIDE DEF pc
    <3> QED
      BY <1>0, <2>2, <2>3 DEF Locals
  <2> QED
    BY <2>1, <2>4
<1>6. ASSUME NEW kind \in {"part", "prompt", "answer"}, Select(r, kind)
      PROVE  \E p \in Locals : Move(r, p)
  <2> DEFINE found == Selected(kind, parser[r].from, Visible)
             p == [parser[r] EXCEPT !.events = @ \cup found, !.pc = AfterKind(kind)]
  <2>1. Move(r, p)
    BY <1>6 DEF Select
  <2>2. found \in SUBSET Writes
    BY SelectedWrites
  <2>3. AfterKind(kind) \in Places
    BY DEF AfterKind, Places
  <2>4. p \in Locals
    <3> HIDE DEF found
    <3> QED
      BY <1>0, <2>2, <2>3 DEF Locals
  <2> QED
    BY <2>1, <2>4
<1>7. CASE UpsertRows(r)
  <2> DEFINE p == [parser[r] EXCEPT !.pc = "save", !.events = {}]
  <2>1. p \in Locals
    BY <1>0 DEF Locals, Places
  <2>2. Move(r, p)
    BY <1>7 DEF UpsertRows
  <2> QED
    BY <2>1, <2>2
<1>8. CASE SaveWatermark(r) \/ ParseFails(r)
  BY <1>1, <1>8 DEF SaveWatermark, ParseFails
<1> QED
  BY <1>2, <1>3, <1>4, <1>5, <1>6, <1>7, <1>8 DEF ParserStep

LEMMA ParserFrame ==
  ASSUME OpenCodeTypeOK, Stamped, Happened, NEW r \in Readers, ParserStep(r)
  PROVE  /\ writes' = writes /\ clock' = clock /\ source' = source /\ foreign' = foreign
         /\ late' = late
         /\ parser' \in [Readers -> Locals]
         /\ \A q \in Readers : q # r => parser'[q] = parser[q]
         /\ torn => torn'
         /\ captured \subseteq captured'
         /\ captured' # captured => UpsertRows(r)
         /\ watermark' # watermark => SaveWatermark(r)
         /\ mirror' # mirror => CopyDb(r) \/ CopyWal(r)
<1>1. PICK p \in Locals : Move(r, p)
  BY ParserMoves
<1>2. /\ parser' \in [Readers -> Locals]
      /\ \A q \in Readers : q # r => parser'[q] = parser[q]
  BY <1>1 DEF Move, OpenCodeTypeOK
<1> DEFINE Framed == /\ writes' = writes /\ clock' = clock /\ source' = source
                     /\ foreign' = foreign /\ late' = late
                     /\ torn => torn'
                     /\ captured \subseteq captured'
                     /\ captured' # captured => UpsertRows(r)
                     /\ watermark' # watermark => SaveWatermark(r)
                     /\ mirror' # mirror => CopyDb(r) \/ CopyWal(r)
<1> SUFFICES Framed
  BY <1>2
<1>3. CASE Ask(r) \/ LoadWatermark(r)
  BY <1>3 DEF Ask, LoadWatermark, sourceVars
<1>4. CASE Compare(r) \/ Stage(r)
  BY <1>4 DEF Compare, Stage, sourceVars
<1>5. CASE CopyDb(r)
  BY <1>5 DEF CopyDb, sourceVars
<1>6. CASE CopyWal(r)
  BY <1>6 DEF CopyWal, sourceVars
<1>7. CASE ReadLatest(r) \/ \E kind \in {"part", "prompt", "answer"} : Select(r, kind)
  BY <1>7 DEF ReadLatest, Select, sourceVars, Torn
<1>8. CASE UpsertRows(r)
  BY <1>8 DEF UpsertRows, sourceVars
<1>9. CASE SaveWatermark(r) \/ ParseFails(r)
  BY <1>9 DEF SaveWatermark, ParseFails, sourceVars
<1> QED
  BY <1>3, <1>4, <1>5, <1>6, <1>7, <1>8, <1>9 DEF ParserStep

LEMMA NextTypes ==
  ASSUME OpenCodeTypeOK, Stamped, Lasts, Happened, [OpenCodeNext]_openCodeVars
  PROVE  OpenCodeTypeOK'
<1>1. CASE Tick
  BY <1>1 DEF Tick, OpenCodeTypeOK
<1>2. CASE Checkpoint
  <2>1. Len(writes) \in Nat /\ clock \in Nat
    BY WriteTypes DEF OpenCodeTypeOK
  <2>2. source' \in [db : Nat, base : Nat, dbTime : Nat, walTime : Nat]
    BY <1>2, <2>1 DEF Checkpoint, OpenCodeTypeOK
  <2> QED
    BY <1>2, <2>2 DEF Checkpoint, OpenCodeTypeOK
<1>3. CASE ServerRestarts
  <2>1. ASSUME NEW r \in Readers PROVE [Resting EXCEPT !.parses = parser[r].parses] \in Locals
    <3>1. parser[r].parses \in Nat
      BY DEF OpenCodeTypeOK, Locals
    <3> QED
      BY <3>1 DEF Locals, Resting, Places
  <2>2. parser' \in [Readers -> Locals]
    BY <1>3, <2>1 DEF ServerRestarts
  <2> QED
    BY <1>3, <2>2 DEF ServerRestarts, sourceVars, OpenCodeTypeOK
<1>4. CASE \E row \in OpenCodeRows, finished \in BOOLEAN : Write(row, finished)
  <2>1. PICK row \in OpenCodeRows, finished \in BOOLEAN : Write(row, finished)
    BY <1>4
  <2>2. writes' \in Seq(Writes)
    BY <2>1, WriteShape
  <2> QED
    BY <2>1, <2>2, WriteTypes DEF Write, OpenCodeTypeOK
<1>5. CASE \E r \in Readers : ParserStep(r)
  <2>1. PICK r \in Readers : ParserStep(r)
    BY <1>5
  <2>2. parser[r] \in Locals /\ Len(writes) \in Nat
    BY WriteTypes DEF OpenCodeTypeOK
  <2>3. mirror' \in [db : Nat, base : Nat, upto : Nat, dbTime : Nat, walTime : Nat]
    <3>1. CASE CopyDb(r)
      BY <2>2, <3>1 DEF CopyDb, OpenCodeTypeOK
    <3>2. CASE CopyWal(r)
      BY <2>2, <3>2 DEF CopyWal, OpenCodeTypeOK
    <3> QED
      BY <2>1, <3>1, <3>2, ParserFrame DEF OpenCodeTypeOK
  <2>4. captured' \subseteq Writes
    <3>1. CASE UpsertRows(r)
      BY <2>2, <3>1 DEF UpsertRows, OpenCodeTypeOK, Locals
    <3> QED
      BY <2>1, <3>1, ParserFrame DEF OpenCodeTypeOK
  <2>5. watermark' \in Nat
    <3>1. CASE SaveWatermark(r)
      BY <2>2, <3>1 DEF SaveWatermark, NewOffset, OpenCodeTypeOK, Locals
    <3> QED
      BY <2>1, <3>1, ParserFrame DEF OpenCodeTypeOK
  <2> QED
    BY <2>1, <2>3, <2>4, <2>5, ParserFrame DEF OpenCodeTypeOK
<1>6. CASE UNCHANGED openCodeVars
  BY <1>6 DEF openCodeVars, OpenCodeTypeOK
<1> QED
  BY <1>1, <1>2, <1>3, <1>4, <1>5, <1>6 DEF OpenCodeNext

-------------------------------------------------------------------------------
(* What a parser owes.                                                       *)

\* The mirror only gets longer.
LEMMA MirrorGrows ==
  ASSUME OpenCodeTypeOK, Stamped, Happened, MirrorTimes, NEW r \in Readers, ParserStep(r)
  PROVE  /\ Happened' /\ MirrorTimes'
         /\ foreign => mirror.upto <= mirror'.upto
<1>0. /\ writes' = writes /\ late' = late /\ foreign' = foreign /\ source' = source
      /\ DOMAIN writes = 1 .. Len(writes) /\ Len(writes) \in Nat
      /\ mirror.upto \in Nat /\ mirror.upto <= Len(writes)
  BY ParserFrame, WriteTypes DEF OpenCodeTypeOK, Happened
<1>1. CASE mirror' = mirror
  BY <1>0, <1>1 DEF Happened, MirrorTimes
<1>2. CASE CopyDb(r)
  <2>1. mirror'.db = source.db /\ mirror'.upto = mirror.upto /\ mirror'.walTime = mirror.walTime
    BY <1>2 DEF CopyDb, OpenCodeTypeOK
  <2> QED
    BY <1>0, <2>1 DEF Happened, MirrorTimes
<1>3. CASE CopyWal(r)
  <2>1. mirror'.upto = Len(writes) /\ mirror'.walTime = clock /\ mirror'.db = mirror.db
    BY <1>3 DEF CopyWal, OpenCodeTypeOK
  <2>2. \A i \in 1 .. mirror'.upto : writes[i].time <= mirror'.walTime
    BY <1>0, <2>1 DEF Stamped
  <2>3. \A i \in DOMAIN writes : ~(i > mirror'.upto)
    BY <1>0, <2>1
  <2> QED
    BY <1>0, <2>1, <2>2, <2>3 DEF Happened, MirrorTimes
<1> QED
  BY <1>1, <1>2, <1>3, ParserFrame

\* A parser that does nothing owes what it owed.
LEMMA IdleParser ==
  ASSUME OpenCodeTypeOK, NEW q \in Readers, ParserOK(q), parser'[q] = parser[q],
         writes' = writes, late' = late, foreign' = foreign, captured \subseteq captured',
         foreign => mirror.upto <= mirror'.upto, mirror'.upto \in Nat
  PROVE  ParserOK(q)'
<1>1. ASSUME NEW time
      PROVE  {i \in DOMAIN writes' \ late' : Completes(i)' /\ writes'[i].by <= time} = DueBy(time)
  BY CompletesStill DEF DueBy
<1>2. \A i : HasRow(captured, i) => HasRow(captured, i)'
  BY DEF HasRow
<1>3. \A i : HasRow(parser[q].events, i) => HasRow(parser[q].events, i)'
  BY DEF HasRow
<1>4. ASSUME NEW i \in DOMAIN writes, ToBeFound(q, i) PROVE ToBeFound(q, i)'
  BY <1>4, WriteTypes DEF ToBeFound, OpenCodeTypeOK
<1> QED
  BY <1>1, <1>2, <1>3, <1>4 DEF ParserOK, StoredBy, DueBy

\* The watermark is read: everything due by it is stored, or ahead.
LEMMA ReadLatestOwes ==
  ASSUME OpenCodeTypeOK, Stamped, Happened, MirrorTimes, ~(foreign /\ Mixed),
         NEW from \in Nat, NEW latest \in {LatestIn(Visible), 0}, latest > from,
         NEW i \in DueBy(latest)
  PROVE  /\ EventOf(writes[i].row)[1] \in {"part", "prompt", "answer"}
         /\ foreign => i <= mirror.upto
<1>1. EventOf(writes[i].row)[1] \in {"part", "prompt", "answer"}
  BY CompletesIs, WriteTypes DEF DueBy
<1>2. ASSUME foreign PROVE i <= mirror.upto
  <2>1. PICK n \in 0 .. Len(writes) : Visible = 1 .. n /\ n = mirror.upto
    BY <1>2, VisibleWrites
  <2>2. latest = LatestIn(Visible) /\ latest # 0
    BY LatestTypes
  <2>3. n # 0
    <3> SUFFICES ASSUME n = 0 PROVE FALSE
      OBVIOUS
    <3>1. Visible = {}
      BY <2>1
    <3> QED
      BY <2>2, <3>1 DEF LatestIn
  <2>4. n \in 1 .. Len(writes) /\ Len(writes) \in Nat
    BY <2>1, <2>3, WriteTypes
  <2>5. \A k \in Visible : k <= n
    BY <2>1, <2>4
  <2>6. latest = writes[n].time
    BY <2>1, <2>2, <2>4, <2>5, LatestIsLast
  <2>7. writes[n].time <= mirror.walTime
    BY <1>2, <2>1, <2>4 DEF MirrorTimes
  <2>8. i \in 1 .. Len(writes) /\ i \in DOMAIN writes \ late /\ writes[i].by <= latest
    BY WriteTypes DEF DueBy
  <2>9. ~(writes[i].by > mirror.walTime)
    <3>1. writes[i].by \in Nat /\ writes[n].time \in Nat /\ mirror.walTime \in Nat
      BY <2>4, <2>8, WriteTypes DEF OpenCodeTypeOK
    <3>2. writes[i].by <= writes[n].time
      BY <2>6, <2>8
    <3> QED
      BY <2>7, <3>1, <3>2
  <2>10. ~(i > mirror.upto)
    BY <1>2, <2>8, <2>9 DEF MirrorTimes
  <2> QED
    BY <2>1, <2>4, <2>8, <2>10
<1> QED
  BY <1>1, <1>2

\* A query finds what was ahead of it, if it is not already stored.
LEMMA SelectOwes ==
  ASSUME OpenCodeTypeOK, Stamped, Lasts, Anchored, Happened, ~(foreign /\ Mixed),
         NEW from \in Nat, StoredBy(from), NEW time \in Nat, NEW i \in DueBy(time),
         foreign => i <= mirror.upto
  PROVE  HasRow(captured, i) \/ HasRow(Selected(EventOf(writes[i].row)[1], from, Visible), i)
<1>1. i \in 1 .. Len(writes) /\ Completes(i) /\ writes[i].by \in Nat
  BY WriteTypes DEF DueBy
<1>2. CASE writes[i].by <= from
  BY <1>2 DEF DueBy, StoredBy
<1>3. CASE writes[i].by > from
  <2>1. PICK n \in 0 .. Len(writes) : /\ Visible = 1 .. n
                                      /\ foreign => n = mirror.upto
                                      /\ ~foreign => n = Len(writes)
    BY VisibleWrites
  <2>2. i \in 1 .. n
    <3>1. CASE foreign
      BY <1>1, <2>1, <3>1, WriteTypes
    <3>2. CASE ~foreign
      BY <1>1, <2>1, <3>2
    <3> QED
      BY <3>1, <3>2
  <2> QED
    BY <1>1, <1>3, <2>1, <2>2, QueryFinds DEF HasRow
<1> QED
  BY <1>1, <1>2, <1>3

LEMMA ParserKeepsOwn ==
  ASSUME OpenCodeIInv, Kept, NEW r \in Readers, ParserStep(r), ~torn'
  PROVE  ParserOK(r)' /\ StoredBy(watermark)'
<1>0. /\ OpenCodeTypeOK /\ Stamped /\ Lasts /\ Anchored /\ Happened /\ MirrorTimes /\ Kept /\ ParserOK(r)
      /\ writes' = writes /\ late' = late /\ foreign' = foreign /\ captured \subseteq captured'
      /\ parser[r] \in Locals /\ parser[r].from \in Nat /\ parser[r].latest \in Nat
      /\ watermark \in Nat /\ parser \in [Readers -> Locals]
  BY ParserFrame DEF OpenCodeIInv, Kept, OpenCodeTypeOK, Locals
<1>1. \A i : HasRow(captured, i) => HasRow(captured, i)'
  BY <1>0 DEF HasRow
<1>2. ASSUME NEW time, StoredBy(time) PROVE StoredBy(time)'
  BY <1>0, <1>1, <1>2, CompletesStill DEF StoredBy, DueBy
<1>3. StoredBy(watermark)'
  <2>1. CASE SaveWatermark(r)
    <3>1. parser[r].pc = "save" /\ watermark' \in {watermark, parser[r].latest}
      BY <2>1 DEF SaveWatermark, NewOffset, Now
    <3>2. StoredBy(watermark) /\ StoredBy(parser[r].latest)
      BY <1>0, <3>1 DEF Kept, ParserOK
    <3> QED
      BY <1>2, <3>1, <3>2, CompletesStill DEF StoredBy, DueBy
  <2>2. CASE watermark' = watermark
    BY <1>0, <1>2, <2>2, CompletesStill DEF Kept, StoredBy, DueBy
  <2> QED
    BY <1>0, <2>1, <2>2, ParserFrame
<1>4. CASE Over(r) \/ Ask(r)
  <2>1. parser'[r].pc \in {"idle", "load"}
    <3>1. \A force : Asked(r, force).pc = "load"
      BY DEF Asked, Resting
    <3>2. CASE Over(r)
      BY <1>0, <3>2 DEF Over, Move, Resting
    <3>3. CASE Ask(r)
      BY <1>0, <3>1, <3>3 DEF Ask, Move
    <3> QED
      BY <1>4, <3>2, <3>3
  <2> QED
    BY <1>3, <2>1 DEF ParserOK
<1>5. CASE LoadWatermark(r)
  <2>1. parser'[r].pc = "compare" /\ parser'[r].from \in {watermark, 0}
    BY <1>0, <1>5 DEF LoadWatermark, Move, Locals
  <2>2. StoredBy(watermark) /\ StoredBy(0)
    BY <1>0, WriteTypes, CompletesStill DEF Kept, StoredBy, DueBy
  <2>3. StoredBy(parser[r].from)'
    BY <1>2, <2>1, <2>2, CompletesStill DEF StoredBy, DueBy
  <2> QED
    BY <1>3, <2>1, <2>3 DEF ParserOK
<1>6. CASE ~Over(r) /\ (Compare(r) \/ Stage(r) \/ CopyDb(r) \/ CopyWal(r))
  <2>1. /\ parser[r].pc \in {"compare", "stage", "copyDb", "copyWal"}
        /\ \E pc \in {"stage", "latest", "copyDb", "copyWal"} :
              Move(r, [parser[r] EXCEPT !.pc = pc])
    BY <1>6 DEF Compare, Stage, CopyDb, CopyWal, Now
  <2>2. /\ parser'[r].pc \in {"stage", "latest", "copyDb", "copyWal"}
        /\ parser'[r].from = parser[r].from
    BY <1>0, <2>1 DEF Move, Locals
  <2>3. StoredBy(parser[r].from)'
    BY <1>0, <1>2, <2>1, <2>2, CompletesStill DEF ParserOK, StoredBy, DueBy
  <2> QED
    BY <1>3, <2>2, <2>3 DEF ParserOK
<1>7. CASE ReadLatest(r)
  <2>1. PICK latest \in {LatestIn(Visible), 0} :
           Move(r, [parser[r] EXCEPT !.latest = latest,
                                     !.pc = IF latest <= parser[r].from THEN "upsert" ELSE "part"])
    BY <1>7 DEF ReadLatest
  <2>2. /\ parser'[r].from = parser[r].from /\ parser'[r].latest = latest /\ latest \in Nat
        /\ parser'[r].pc = IF latest <= parser[r].from THEN "upsert" ELSE "part"
    BY <1>0, <2>1, LatestTypes DEF Move, Locals
  <2>3. ~(foreign /\ Mixed) /\ mirror' = mirror
    BY <1>7 DEF ReadLatest, Torn
  <2>4. StoredBy(parser[r].from)
    BY <1>0, <1>7 DEF ReadLatest, Now, ParserOK
  <2>5. StoredBy(parser[r].from)'
    BY <1>2, <2>2, <2>4, CompletesStill DEF StoredBy, DueBy
  <2>6. ASSUME NEW i \in DueBy(latest)
        PROVE  HasRow(captured, i) \/ (latest > parser[r].from /\ ToBeFound(r, i)')
    <3>1. CASE latest <= parser[r].from
      <4>1. i \in DueBy(parser[r].from)
        BY <1>0, <2>2, <3>1, WriteTypes, CompletesStill DEF DueBy
      <4> QED
        BY <2>4, <4>1 DEF StoredBy
    <3>2. CASE latest > parser[r].from
      <4>1. parser'[r].pc = "part"
        BY <1>0, <2>2, <3>2
      <4>2. /\ EventOf(writes[i].row)[1] \in {"part", "prompt", "answer"}
            /\ foreign => i <= mirror.upto
        BY <1>0, <2>3, <3>2, ReadLatestOwes
      <4> QED
        BY <1>0, <2>3, <3>2, <4>1, <4>2 DEF ToBeFound, Ahead
    <3> QED
      BY <1>0, <2>2, <3>1, <3>2
  <2>7. ASSUME NEW i \in DueBy(parser[r].latest)' PROVE HasRow(captured, i)' \/ ToBeFound(r, i)'
    <3>1. i \in DueBy(latest)
      BY <1>0, <2>2, CompletesStill DEF DueBy
    <3> QED
      BY <1>1, <2>6, <3>1
  <2> QED
    BY <1>3, <2>2, <2>5, <2>7 DEF ParserOK
<1>8. ASSUME NEW kind \in {"part", "prompt", "answer"}, Select(r, kind)
      PROVE  ParserOK(r)'
  <2> DEFINE found == Selected(kind, parser[r].from, Visible)
  <2>1. /\ parser[r].pc = kind
        /\ Move(r, [parser[r] EXCEPT !.events = @ \cup found, !.pc = AfterKind(kind)])
        /\ mirror' = mirror /\ captured' = captured
        /\ ~(foreign /\ Mixed)
    BY <1>8 DEF Select, Now, Torn
  <2>2. /\ parser'[r].from = parser[r].from /\ parser'[r].latest = parser[r].latest
        /\ parser'[r].events = parser[r].events \cup found
        /\ parser'[r].pc = AfterKind(kind)
    <3> HIDE DEF found
    <3> QED
      BY <1>0, <2>1 DEF Move, Locals
  <2>3. StoredBy(parser[r].from)
    BY <1>0, <2>1 DEF ParserOK
  <2>4. StoredBy(parser[r].from)'
    BY <1>2, <2>2, <2>3, CompletesStill DEF StoredBy, DueBy
  <2>5. Ahead(kind) = {kind} \cup Ahead(AfterKind(kind))
    BY DEF Ahead, AfterKind
  <2>6. ASSUME NEW i \in DueBy(parser[r].latest)'
        PROVE  HasRow(captured, i)' \/ HasRow(parser[r].events, i)' \/ ToBeFound(r, i)'
    <3>1. i \in DueBy(parser[r].latest)
      BY <1>0, <2>2, CompletesStill DEF DueBy
    <3>2. HasRow(captured, i) \/ HasRow(parser[r].events, i) \/ ToBeFound(r, i)
      BY <1>0, <2>1, <3>1 DEF ParserOK
    <3>3. CASE HasRow(captured, i)
      BY <1>1, <3>3
    <3>4. CASE HasRow(parser[r].events, i)
      BY <1>0, <2>2, <3>4 DEF HasRow
    <3>5. CASE ToBeFound(r, i) /\ EventOf(writes[i].row)[1] = kind
      <4>1. HasRow(captured, i) \/ HasRow(found, i)
        BY <1>0, <2>1, <2>3, <3>1, <3>5, SelectOwes DEF ToBeFound
      <4> QED
        BY <1>0, <1>1, <2>2, <4>1 DEF HasRow
    <3>6. CASE ToBeFound(r, i) /\ EventOf(writes[i].row)[1] # kind
      BY <1>0, <2>1, <2>2, <2>5, <3>6 DEF ToBeFound
    <3> QED
      BY <3>2, <3>3, <3>4, <3>5, <3>6
  <2>7. parser'[r].pc # "save"
    BY <2>2 DEF AfterKind
  <2> QED
    BY <2>4, <2>6, <2>7 DEF ParserOK
<1>9. CASE UpsertRows(r)
  <2>1. /\ parser[r].pc = "upsert"
        /\ Move(r, [parser[r] EXCEPT !.pc = "save", !.events = {}])
        /\ captured' = captured \cup {w \in parser[r].events : \A e \in captured : e.row # w.row}
    BY <1>9 DEF UpsertRows, Now
  <2>2. /\ parser'[r].from = parser[r].from /\ parser'[r].latest = parser[r].latest
        /\ parser'[r].pc = "save"
    BY <1>0, <2>1 DEF Move, Locals
  <2>3. StoredBy(parser[r].from)'
    BY <1>0, <1>2, <2>1, <2>2, CompletesStill DEF ParserOK, StoredBy, DueBy
  <2>4. ASSUME NEW i \in DueBy(parser[r].latest) PROVE HasRow(captured, i)'
    <3>1. HasRow(captured, i) \/ HasRow(parser[r].events, i)
      BY <1>0, <2>1 DEF ParserOK, ToBeFound, Ahead
    <3>2. CASE HasRow(captured, i)
      BY <1>1, <3>2
    <3>3. CASE ~HasRow(captured, i) /\ HasRow(parser[r].events, i)
      BY <1>0, <2>1, <3>3 DEF HasRow
    <3> QED
      BY <3>1, <3>2, <3>3
  <2>5. StoredBy(parser[r].latest)'
    BY <1>0, <2>2, <2>4, CompletesStill DEF StoredBy, DueBy
  <2> QED
    BY <1>3, <2>2, <2>3, <2>5 DEF ParserOK
<1>10. CASE SaveWatermark(r) \/ ParseFails(r)
  BY <1>4, <1>10 DEF SaveWatermark, ParseFails
<1> QED
  BY <1>3, <1>4, <1>5, <1>6, <1>7, <1>8, <1>9, <1>10 DEF ParserStep

LEMMA OpenCodeNextOK == OpenCodeIInv /\ [OpenCodeNext]_openCodeVars => OpenCodeIInv'
<1> SUFFICES ASSUME OpenCodeIInv, [OpenCodeNext]_openCodeVars PROVE OpenCodeIInv'
  OBVIOUS
<1>0. OpenCodeTypeOK /\ Stamped /\ Lasts /\ Anchored /\ Happened /\ MirrorTimes /\ (~torn => Kept)
  BY DEF OpenCodeIInv
<1>1. OpenCodeTypeOK'
  BY <1>0, NextTypes
<1>2. CASE \E row \in OpenCodeRows, finished \in BOOLEAN : Write(row, finished)
  <2>1. PICK row \in OpenCodeRows, finished \in BOOLEAN : Write(row, finished)
    BY <1>2
  <2>2. torn' = torn
    BY <2>1 DEF Write
  <2>3. ~torn' => Kept'
    BY <1>0, <2>1, <2>2, WriteKeepsKept
  <2> QED
    BY <1>0, <1>1, <2>1, <2>3, WriteKeepsStamped, WriteKeepsMirror DEF OpenCodeIInv
<1>3. CASE \E r \in Readers : ParserStep(r)
  <2>1. PICK r \in Readers : ParserStep(r)
    BY <1>3
  <2>2. writes' = writes /\ clock' = clock
    BY <1>0, <2>1, ParserFrame
  <2>3. Stamped' /\ Lasts' /\ Anchored'
    BY <1>0, <2>2 DEF Stamped, Lasts, LastWrite, Anchored
  <2>4. Happened' /\ MirrorTimes'
    BY <1>0, <2>1, MirrorGrows
  <2>5. ASSUME ~torn' PROVE Kept'
    <3>1. Kept
      BY <1>0, <2>1, <2>5, ParserFrame
    <3>2. ParserOK(r)' /\ StoredBy(watermark)'
      BY <2>1, <2>5, <3>1, ParserKeepsOwn
    <3>3. ASSUME NEW q \in Readers, q # r PROVE ParserOK(q)'
      <4>1. /\ parser'[q] = parser[q] /\ writes' = writes /\ late' = late /\ foreign' = foreign
            /\ captured \subseteq captured'
        BY <1>0, <2>1, <3>3, ParserFrame
      <4>2. (foreign => mirror.upto <= mirror'.upto) /\ mirror'.upto \in Nat
        BY <1>0, <1>1, <2>1, MirrorGrows DEF OpenCodeTypeOK
      <4>3. ParserOK(q)
        BY <3>1 DEF Kept
      <4> QED
        BY <1>0, <4>1, <4>2, <4>3, IdleParser
    <3> QED
      BY <3>2, <3>3 DEF Kept
  <2> QED
    BY <1>1, <2>3, <2>4, <2>5 DEF OpenCodeIInv
<1>4. CASE Tick \/ Checkpoint
  <2>1. /\ UNCHANGED <<writes, foreign, mirror, captured, watermark, parser, late, torn>>
        /\ clock \in Nat /\ clock' \in Nat /\ clock <= clock'
        /\ source'.db <= Len(writes)
    <3>1. CASE Tick
      BY <1>0, <3>1 DEF Tick, OpenCodeTypeOK, Happened
    <3>2. CASE Checkpoint
      <4>1. source'.db = Len(writes) /\ Len(writes) \in Nat
        BY <1>0, <3>2, WriteTypes DEF Checkpoint, OpenCodeTypeOK
      <4> QED
        BY <1>0, <3>2, <4>1 DEF Checkpoint, OpenCodeTypeOK
    <3> QED
      BY <1>4, <3>1, <3>2
  <2>2. Stamped'
    BY <1>0, <2>1, WriteTypes DEF Stamped
  <2>3. Lasts' /\ Anchored' /\ Happened' /\ MirrorTimes'
    BY <1>0, <2>1 DEF Lasts, LastWrite, Anchored, Happened, MirrorTimes
  <2>4. ~torn' => Kept'
    BY <1>0, <2>1, CompletesStill DEF Kept, ParserOK, StoredBy, DueBy, HasRow, ToBeFound
  <2> QED
    BY <1>1, <2>2, <2>3, <2>4 DEF OpenCodeIInv
<1>5. CASE ServerRestarts
  <2>1. UNCHANGED <<writes, clock, source, foreign, mirror, captured, watermark, late, torn>>
    BY <1>5 DEF ServerRestarts, sourceVars
  <2>2. \A r \in Readers : parser'[r].pc = "idle"
    BY <1>5 DEF ServerRestarts, Resting
  <2>3. Stamped' /\ Lasts' /\ Anchored' /\ Happened' /\ MirrorTimes'
    BY <1>0, <2>1 DEF Stamped, Lasts, LastWrite, Anchored, Happened, MirrorTimes
  <2>4. ~torn' => Kept'
    BY <1>0, <2>1, <2>2, CompletesStill DEF Kept, ParserOK, StoredBy, DueBy, HasRow
  <2> QED
    BY <1>1, <2>3, <2>4 DEF OpenCodeIInv
<1>6. CASE UNCHANGED openCodeVars
  <2>1. Stamped' /\ Lasts' /\ Anchored' /\ Happened' /\ MirrorTimes'
    BY <1>0, <1>6 DEF openCodeVars, Stamped, Lasts, LastWrite, Anchored, Happened, MirrorTimes
  <2>2. ~torn' => Kept'
    BY <1>0, <1>6, CompletesStill DEF openCodeVars, Kept, ParserOK, StoredBy, DueBy, HasRow, ToBeFound
  <2> QED
    BY <1>1, <2>1, <2>2 DEF OpenCodeIInv
<1> QED
  BY <1>2, <1>3, <1>4, <1>5, <1>6 DEF OpenCodeNext

\* The watermark of an OpenCode database never passes an event that is not
\* stored, for any rows, any number of scans and watchers, however their queries
\* interleave with OpenCode's writes, with each other and with restarts of the
\* server; but for the two exceptions that the property names.
THEOREM OpenCodeWatermark == OpenCodeSpec => []WatermarkSkipsNothing
<1>1. OpenCodeIInv => WatermarkSkipsNothing
  BY WriteTypes DEF OpenCodeIInv, Kept, StoredBy, DueBy, HasRow, WatermarkSkipsNothing
<1> QED
  BY <1>1, OpenCodeInitOK, OpenCodeNextOK, PTL DEF OpenCodeSpec
===============================================================================
