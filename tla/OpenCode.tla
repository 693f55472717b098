------------------------------- MODULE OpenCode -------------------------------
(***************************************************************************)
(* Capture from OpenCode (aikit-session-capture/src/opencode), whose        *)
(* sessions are rows of a SQLite database that OpenCode goes on writing.    *)
(* The saved offset is a watermark, the latest time_updated in milliseconds *)
(* that the parser saw; the parser's queries are statements of their own.   *)
(* A database on a foreign mount is first copied, file by file, to a        *)
(* mirror that all parses share.  parse_and_store_file of serve/capture.rs  *)
(* calls the parser, for a scan or for the watcher, and stores the events.  *)
(***************************************************************************)
EXTENDS Integers, Sequences, FiniteSets

CONSTANTS OpenCodeRows, \* of the database: pairs of a kind and an id
          Scans,        \* scans of POST /capture/scan
          DbWatcher,    \* the task of spawn_watcher
          FileSize,     \* of opencode.db, in bytes
          FirstMs,      \* the time at the beginning, in milliseconds
          LastMs,       \* bounds: the last time considered,
          MaxWrites,    \* OpenCode's writes
          MaxParses     \* and the parses of each reader

\* Tool parts, messages of the user, the text parts of such a message (with its
\* id), answers, sessions.
Kinds == {"part", "prompt", "text", "answer", "session"}
ASSUME OpenCodeRowsAssumption == \A row \in OpenCodeRows : row[1] \in Kinds
ASSUME TimesAssumption ==
  FileSize \in Nat \ {0} /\ FirstMs \in Nat \ {0} /\ LastMs \in Nat
ASSUME OpenCodeBounds == MaxWrites \in Nat /\ MaxParses \in Nat

Readers == Scans \cup {DbWatcher}

VARIABLES
  writes,    \* what OpenCode wrote, in order: the row, whether it is finished,
             \* its time_updated, and the time_updated that the query for the
             \* event goes by: a text has its message's
  clock,
  source,    \* the source's files: how many writes the last checkpoint put into
             \* opencode.db, the writes before the first in the -wal file, and
             \* when each file was modified
  foreign,   \* the source is on a foreign mount
  mirror,    \* the same of the mirror, and how many writes its -wal file reaches
  captured,  \* rows of capture_tool_events and capture_token_events
  watermark, \* the offset in capture_cursors, or 0
  parser,    \* each reader's place and locals
  late,      \* ghost: writes whose event goes by a time that had been read or
             \* copied
  torn       \* ghost: a mirror was read whose files do not belong together

openCodeVars == <<writes, clock, source, foreign, mirror, captured, watermark, parser,
                  late, torn>>

Resting == [pc |-> "idle", parses |-> 0, force |-> FALSE, from |-> 0, latest |-> 0,
            events |-> {}]

OpenCodeInit ==
  /\ writes = <<>> /\ clock = FirstMs
  /\ source = [db |-> 0, base |-> 0, dbTime |-> FirstMs, walTime |-> FirstMs]
  /\ foreign \in BOOLEAN
  /\ mirror = [db |-> 0, base |-> 0, upto |-> 0, dbTime |-> 0, walTime |-> 0]
  /\ captured = {} /\ watermark = 0
  /\ parser = [r \in Readers |-> Resting]
  /\ late = {} /\ torn = FALSE

-------------------------------------------------------------------------------
(* OpenCode and the time.                                                    *)

Tick ==
  /\ clock < LastMs
  /\ clock' = clock + 1
  /\ UNCHANGED <<writes, source, foreign, mirror, captured, watermark, parser, late,
                 torn>>

\* A time that is saved, or that someone works with, or at which the mirror was made.
Read(t) ==
  \/ watermark >= t
  \/ \E r \in Readers : parser[r].latest >= t \/ parser[r].from >= t
  \/ foreign /\ mirror.walTime >= t

\* latest_watermark: MAX(time_updated); an error of the query counts as 0.
LatestIn(view) ==
  IF view = {} THEN 0
  ELSE writes[CHOOSE i \in view : \A j \in view : writes[j].time <= writes[i].time].time

\* The row whose event a row is part of, and what OpenCode wrote of a row.
EventOf(row) == IF row[1] = "text" THEN <<"prompt", row[2]>> ELSE row
Of(row) == {i \in DOMAIN writes : writes[i].row = row}

\* A tool call runs and completes; an answer gets its token counts when it is
\* complete; the text of a prompt comes in part rows of its own, after the
\* message's row, which may be written again at any time.  Writes go to the -wal
\* file, and the first after a checkpoint starts it anew.
GoesBy(row) == IF row[1] = "text" THEN LatestIn(Of(EventOf(row))) ELSE clock

Write(row, finished) ==
  /\ Len(writes) < MaxWrites
  /\ row[1] = "text" => Of(EventOf(row)) # {}
  /\ finished => row[1] \in {"part", "text", "answer"}
  /\ \A i \in Of(row) : ~writes[i].finished
  /\ writes' = Append(writes, [row |-> row, finished |-> finished, time |-> clock,
                              by |-> GoesBy(row)])
  /\ source' = [source EXCEPT !.base = IF source.db = Len(writes) THEN source.db ELSE @,
                              !.walTime = clock]
  /\ late' = IF Read(GoesBy(row)) THEN late \cup {Len(writes) + 1} ELSE late
  /\ UNCHANGED <<clock, foreign, mirror, captured, watermark, parser, torn>>

Checkpoint ==
  /\ source.db < Len(writes)
  /\ source' = [source EXCEPT !.db = Len(writes), !.dbTime = clock]
  /\ UNCHANGED <<writes, clock, foreign, mirror, captured, watermark, parser, late, torn>>

-------------------------------------------------------------------------------
(* What a statement sees: writes by their position, and rows by their last.  *)

Visible ==
  IF foreign THEN (1 .. mirror.db) \cup (mirror.base + 1 .. mirror.upto)
             ELSE DOMAIN writes

LastOfRow(row, view) ==
  {i \in view : writes[i].row = row /\ \A j \in view : writes[j].row = row => j <= i}

\* collect_message_text, with what its outer query sees: the message has a text.
HasText(row, view) ==
  \E k \in view :
     writes[k].row[1] = "text" /\ EventOf(writes[k].row) = row /\ writes[k].finished

\* A part is an event as soon as it is there, a failure until it completes; a
\* prompt without text and an answer without tokens are passed over.
Yields(w, view) == \/ w.row[1] = "part"
                   \/ w.row[1] = "answer" /\ w.finished
                   \/ w.row[1] = "prompt" /\ HasText(w.row, view)

\* WHERE time_updated > from: a message's own, not that of its text.
Selected(kind, from, view) ==
  {writes[i] : i \in {i \in UNION {LastOfRow(row, view) : row \in OpenCodeRows} :
     writes[i].row[1] = kind /\ writes[i].time > from /\ Yields(writes[i], view)}}

\* The mirror's -wal file begins after writes that its opencode.db lacks, or
\* ends before what its opencode.db has.
Mixed == mirror.base > mirror.db \/ mirror.upto < mirror.db
Torn == torn \/ (foreign /\ Mixed)

-------------------------------------------------------------------------------
(* parse_and_store_file and parse_session_file.                              *)

Now(r, pc) == parser[r].pc = pc
Move(r, p) == parser' = [parser EXCEPT ![r] = p]
Over(r) == Move(r, [Resting EXCEPT !.parses = parser[r].parses])
sourceVars == <<writes, clock, source, foreign>>

\* A scan is asked for, or the watcher was sent the path.
Asked(r, force) ==
  [Resting EXCEPT !.pc = "load", !.parses = parser[r].parses + 1, !.force = force]

Ask(r) ==
  /\ Now(r, "idle")
  /\ parser[r].parses < MaxParses
  /\ \E force \in BOOLEAN :
        /\ r = DbWatcher => ~force
        /\ Move(r, Asked(r, force))
  /\ UNCHANGED <<sourceVars, mirror, captured, watermark, late, torn>>

\* A cursor that cannot be loaded counts as none.
LoadWatermark(r) ==
  /\ Now(r, "load")
  /\ \E saved \in {watermark, 0} :
        Move(r, [parser[r] EXCEPT !.pc = "compare",
                                  !.from = IF parser[r].force THEN 0 ELSE saved])
  /\ UNCHANGED <<sourceVars, mirror, captured, watermark, late, torn>>

\* The fast path compares the offset with the length of the file, whatever the
\* offset is.
Skips(r) == ~parser[r].force /\ parser[r].from > 0 /\ FileSize <= parser[r].from

Compare(r) ==
  /\ Now(r, "compare")
  /\ IF Skips(r) THEN Over(r) ELSE Move(r, [parser[r] EXCEPT !.pc = "stage"])
  /\ UNCHANGED <<sourceVars, mirror, captured, watermark, late, torn>>

\* stage_mirror_if_foreign.  Files of one size are told apart by their times only.
UpToDate == source.dbTime <= mirror.dbTime /\ source.walTime <= mirror.walTime

Stage(r) ==
  /\ Now(r, "stage")
  /\ \/ /\ ~foreign \/ UpToDate
        /\ Move(r, [parser[r] EXCEPT !.pc = "latest"])
     \/ /\ foreign
        /\ Move(r, [parser[r] EXCEPT !.pc = "copyDb"])
  /\ UNCHANGED <<sourceVars, mirror, captured, watermark, late, torn>>

CopyDb(r) ==
  /\ Now(r, "copyDb")
  /\ mirror' = [mirror EXCEPT !.db = source.db, !.dbTime = clock]
  /\ Move(r, [parser[r] EXCEPT !.pc = "copyWal"])
  /\ UNCHANGED <<sourceVars, captured, watermark, late, torn>>

CopyWal(r) ==
  /\ Now(r, "copyWal")
  /\ mirror' = [mirror EXCEPT !.base = source.base, !.upto = Len(writes), !.walTime = clock]
  /\ Move(r, [parser[r] EXCEPT !.pc = "latest"])
  /\ UNCHANGED <<sourceVars, captured, watermark, late, torn>>

\* Without anything later than from, the parser returns at once.
ReadLatest(r) ==
  /\ Now(r, "latest")
  /\ \E latest \in {LatestIn(Visible), 0} :
        Move(r, [parser[r] EXCEPT !.latest = latest,
                                  !.pc = IF latest <= parser[r].from THEN "upsert" ELSE "part"])
  /\ torn' = Torn
  /\ UNCHANGED <<sourceVars, mirror, captured, watermark, late>>

\* load_tool_events, load_user_prompts and load_token_events.
AfterKind(kind) == CASE kind = "part" -> "prompt" [] kind = "prompt" -> "answer"
                     [] kind = "answer" -> "upsert"
Select(r, kind) ==
  /\ Now(r, kind)
  /\ Move(r, [parser[r] EXCEPT !.events = @ \cup Selected(kind, parser[r].from, Visible),
                               !.pc = AfterKind(kind)])
  /\ torn' = Torn
  /\ UNCHANGED <<sourceVars, mirror, captured, watermark, late>>

\* INSERT OR IGNORE by the row's id.
UpsertRows(r) ==
  /\ Now(r, "upsert")
  /\ captured' = captured \cup
       {w \in parser[r].events : \A e \in captured : e.row # w.row}
  /\ Move(r, [parser[r] EXCEPT !.pc = "save", !.events = {}])
  /\ UNCHANGED <<sourceVars, mirror, watermark, late, torn>>

TimeOfDay(r) == clock \* mutated form
NewOffset(r) == parser[r].latest

\* An error in saving it is ignored.
SaveWatermark(r) ==
  /\ Now(r, "save")
  /\ watermark' \in {watermark, NewOffset(r)}
  /\ Over(r)
  /\ UNCHANGED <<sourceVars, mirror, captured, late, torn>>

\* A file cannot be copied, a query or the store fails.
ParseFails(r) ==
  /\ parser[r].pc \in {"stage", "copyDb", "copyWal", "part", "prompt", "answer", "upsert"}
  /\ Over(r)
  /\ UNCHANGED <<sourceVars, mirror, captured, watermark, late, torn>>

\* The server dies and is started again.
ServerRestarts ==
  /\ parser' = [r \in Readers |-> [Resting EXCEPT !.parses = parser[r].parses]]
  /\ parser' # parser
  /\ UNCHANGED <<sourceVars, mirror, captured, watermark, late, torn>>

ParserStep(r) ==
  \/ Ask(r) \/ LoadWatermark(r) \/ Compare(r) \/ Stage(r) \/ CopyDb(r) \/ CopyWal(r)
  \/ ReadLatest(r) \/ (\E kind \in {"part", "prompt", "answer"} : Select(r, kind))
  \/ UpsertRows(r) \/ SaveWatermark(r) \/ ParseFails(r)

OpenCodeNext ==
  \/ Tick \/ Checkpoint \/ ServerRestarts
  \/ \E row \in OpenCodeRows, finished \in BOOLEAN : Write(row, finished)
  \/ \E r \in Readers : ParserStep(r)

OpenCodeSpec == OpenCodeInit /\ [][OpenCodeNext]_openCodeVars

-------------------------------------------------------------------------------
(* Properties.                                                               *)

\* With this write the event is complete.
Completes(i) == \/ Yields(writes[i], 1 .. i)
                \/ writes[i].row[1] = "text" /\ writes[i].finished

\* The watermark never passes an event that is not stored, although it is read
\* before the three queries of the events, over more rows than they are, OpenCode
\* writes between any two, two parses may overlap, the slower of them moves it back,
\* and the server may die between upsert and save (parse_session_file,
\* parse_and_store_file): except for what was completed when the time_updated that
\* its query goes by had been read or copied (a write in that very millisecond, or
\* the text of a prompt whose row had been read), and unless a mirror's files did
\* not belong together.
WatermarkSkipsNothing ==
  ~torn => \A i \in DOMAIN writes \ late :
              Completes(i) /\ writes[i].by <= watermark
                 => \E e \in captured : e.row = EventOf(writes[i].row)

\* capture.rs: "SQLite-watermark adapters (OpenCode) always proceed - their offset
\* isn't a byte position".  A parse that was skipped had nothing new to find.
SkippedHadNothingNew ==
  [][\A r \in Readers :
        Compare(r) /\ Skips(r) => LatestIn(DOMAIN writes) <= parser[r].from]_openCodeVars
===============================================================================
