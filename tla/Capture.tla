------------------------------- MODULE Capture -------------------------------
(***************************************************************************)
(* Passive capture in `aikit serve` (src/cli/serve/capture.rs): the task    *)
(* that drains the watcher and the scan jobs of POST /capture/scan all run  *)
(* parse_and_store_file, which loads a file's cursor, parses what follows   *)
(* it, inserts the events and saves the new cursor, with an await between   *)
(* any two of these.  Rows and cursors are in one SQLite database           *)
(* (serve/storage) and survive the server; jobs and the watcher do not.     *)
(***************************************************************************)
EXTENDS SessionFiles, Transcript

CONSTANTS Jobs,      \* scan jobs
          Watcher,   \* the task of spawn_watcher
          MaxCrashes \* how often the server may die; bounds the runs only

ASSUME JobsAssumption == IsFiniteSet(Jobs) /\ Watcher \notin Jobs
ASSUME MaxCrashesAssumption == MaxCrashes \in Nat
ASSUME LinesAssumption ==
  \A s \in Scripts : \A f \in Files :
     /\ s[f].tool \in {"claude", "codex"}
     /\ \A i \in 1 .. Len(s[f].lines) : s[f].lines[i].kind \in KindsOf(s[f].tool)

Tasks == Jobs \cup {Watcher}

VARIABLES
  rows,    \* capture_tool_events and capture_token_events
  cursor,  \* capture_cursors: the offset after the last line parsed, or 0
  task,    \* each task's place in parse_and_store_file and its locals
  job,     \* ScanJobRegistry, with each job's walk
  serving, \* the server process runs
  crashes

serverVars == <<rows, cursor, task, job, serving, crashes>>
captureVars == <<filesVars, serverVars>>

IdleTask == [pc |-> "idle", file |-> NoFile, force |-> FALSE, from |-> 0, upto |-> 0]
NewJob == [state |-> "none", force |-> FALSE, todo |-> {}, failed |-> {},
           asked |-> [f \in Files |-> 0]]

ServerInit ==
  /\ rows = {}
  /\ cursor = [f \in Files |-> 0]
  /\ task = [t \in Tasks |-> IdleTask]
  /\ job = [j \in Jobs |-> NewJob]
  /\ serving = FALSE
  /\ crashes = 0

CaptureInit == FilesInit /\ ServerInit

-------------------------------------------------------------------------------
(* The server's life.                                                        *)

\* build_capture_state opens the database and spawns the watcher.
Serve ==
  /\ ~serving
  /\ serving' = TRUE
  /\ StartWatching
  /\ UNCHANGED <<script, size, pending, channel, missed, rows, cursor, task, job,
                 crashes>>

Crash ==
  /\ serving
  /\ crashes < MaxCrashes
  /\ crashes' = crashes + 1
  /\ serving' = FALSE
  /\ StopWatching({task[Watcher].file} \ {NoFile})
  /\ task' = [t \in Tasks |-> IdleTask]
  /\ job' = [j \in Jobs |-> NewJob]
  /\ UNCHANGED <<script, size, rows, cursor>>

-------------------------------------------------------------------------------
(* parse_and_store_file, for whichever task is in it.                        *)

Begin(t, f, force) ==
  task' = [task EXCEPT ![t] =
             [pc |-> "load", file |-> f, force |-> force, from |-> 0, upto |-> 0]]

Finish(t) == task' = [task EXCEPT ![t] = IdleTask]

\* A cursor that cannot be loaded counts as none.
LoadCursor(t) ==
  /\ task[t].pc = "load"
  /\ \E stored \in {cursor[task[t].file], 0} :
        task' = [task EXCEPT ![t].pc = "read",
                             ![t].from = IF task[t].force THEN 0 ELSE stored]
  /\ UNCHANGED <<filesVars, rows, cursor, job, serving, crashes>>

\* The file has not grown past its cursor.
SeenBefore(t) == \* mutated form
  /\ ~task[t].force
  /\ task[t].from > 0
  /\ t = Watcher \/ size[task[t].file] <= task[t].from
NotGrown(t) ==
  /\ ~task[t].force
  /\ task[t].from > 0
  /\ size[task[t].file] <= task[t].from

SkipFile(t) ==
  /\ task[t].pc = "read"
  /\ NotGrown(t)
  /\ Finish(t)
  /\ UNCHANGED <<filesVars, rows, cursor, job, serving, crashes>>

\* The adapter reads the whole file and consumes the complete lines after from.
RoundedUp(f) == 2 * CompleteLines(size[f] + 1) \* mutated form
ParsedUpTo(f) == 2 * CompleteLines(size[f])

ParseFile(t) ==
  /\ task[t].pc = "read"
  /\ ~NotGrown(t)
  /\ task' = [task EXCEPT ![t].pc = "upsert", ![t].upto = ParsedUpTo(task[t].file)]
  /\ UNCHANGED <<filesVars, rows, cursor, job, serving, crashes>>

Batch(t) ==
  LET f == task[t].file
  IN  {[file |-> f, key |-> e.key, line |-> e.line, output |-> e.output,
        count |-> e.count] :
         e \in Parse(script[f].tool, script[f].lines,
                     CompleteLines(task[t].from), CompleteLines(task[t].upto))}

\* INSERT OR IGNORE, event by event: a row that is there stays as it is, and of
\* the batch's events with one key the first is inserted.
HasRow(f, key) == \E r \in rows : r.file = f /\ r.key = key
Fresh(batch) ==
  {r \in batch : /\ ~HasRow(r.file, r.key)
                 /\ \A q \in batch : q.key = r.key => r.line <= q.line}

UpsertEvents(t) ==
  /\ task[t].pc = "upsert"
  /\ rows' = rows \cup Fresh(Batch(t))
  /\ task' = [task EXCEPT ![t].pc = "save"]
  /\ UNCHANGED <<filesVars, cursor, job, serving, crashes>>

\* The cursor is overwritten whatever another task saved meanwhile; an error
\* is ignored.
SaveCursor(t) ==
  /\ task[t].pc = "save"
  /\ cursor' \in {cursor, [cursor EXCEPT ![task[t].file] = task[t].upto]}
  /\ Finish(t)
  /\ UNCHANGED <<filesVars, rows, job, serving, crashes>>

\* A scan records a failure as a warning and goes on.
Unreported(t) == job[t].failed \* mutated form
Reported(t) == job[t].failed \cup {task[t].file}

\* The file cannot be read, or the database fails: the watcher only logs it.
FailFile(t) ==
  /\ task[t].pc \in {"read", "upsert"}
  /\ task[t].pc = "read" => ~NotGrown(t)
  /\ Finish(t)
  /\ IF t = Watcher
       THEN missed' = missed \cup {task[t].file} /\ UNCHANGED job
       ELSE /\ job' = [job EXCEPT ![t].failed = Reported(t)]
            /\ UNCHANGED missed
  /\ UNCHANGED <<script, size, watching, pending, channel, rows, cursor, serving,
                 crashes>>

FileStep(t) == LoadCursor(t) \/ SkipFile(t) \/ ParseFile(t) \/ UpsertEvents(t)
                 \/ SaveCursor(t)

-------------------------------------------------------------------------------
(* The two kinds of task.                                                    *)

\* spawn_watcher: the next path of the channel.
ReceivePath ==
  /\ serving
  /\ task[Watcher].pc = "idle"
  /\ channel # <<>>
  /\ channel' = Tail(channel)
  /\ Begin(Watcher, Head(channel), FALSE)
  /\ UNCHANGED <<script, size, watching, pending, missed, rows, cursor, job,
                 serving, crashes>>

\* POST /capture/scan answers with the id of a queued job.
StartScan(j) ==
  /\ serving
  /\ job[j].state = "none"
  /\ \E force \in BOOLEAN :
        job' = [job EXCEPT ![j] = [NewJob EXCEPT !.state = "queued", !.force = force,
                                                 !.asked = size]]
  /\ UNCHANGED <<filesVars, rows, cursor, task, serving, crashes>>

\* run_scan walks the directories; files that appear during the walk are left
\* to the watcher.
RunScan(j) ==
  /\ job[j].state = "queued"
  /\ job' = [job EXCEPT ![j].state = "running",
                        ![j].todo = {f \in Files : size[f] > 0}]
  /\ UNCHANGED <<filesVars, rows, cursor, task, serving, crashes>>

ScanFile(j) ==
  /\ job[j].state = "running"
  /\ task[j].pc = "idle"
  /\ \E f \in job[j].todo :
        /\ job' = [job EXCEPT ![j].todo = @ \ {f}]
        /\ Begin(j, f, job[j].force)
  /\ UNCHANGED <<filesVars, rows, cursor, serving, crashes>>

\* A job always ends Complete; its warnings tell what failed.
ScanEnds(j) ==
  /\ job[j].state = "running"
  /\ task[j].pc = "idle"
  /\ job[j].todo = {}
  /\ job' = [job EXCEPT ![j].state = "complete"]
  /\ UNCHANGED <<filesVars, rows, cursor, task, serving, crashes>>

CaptureNext ==
  \/ AgentsAndTimers /\ UNCHANGED serverVars
  \/ Serve \/ Crash
  \/ ReceivePath
  \/ \E t \in Tasks : FileStep(t) \/ FailFile(t)
  \/ \E j \in Jobs : StartScan(j) \/ RunScan(j) \/ ScanFile(j) \/ ScanEnds(j)

CaptureSpec == CaptureInit /\ [][CaptureNext]_captureVars

\* Spawned tasks and timers run; nobody has to write, fail or die.
CaptureFairness ==
  /\ WF_captureVars(Serve) /\ WF_captureVars(ReceivePath)
  /\ \A t \in Tasks : WF_captureVars(FileStep(t))
  /\ \A j \in Jobs : WF_captureVars(RunScan(j) \/ ScanFile(j) \/ ScanEnds(j))
  /\ \A f \in Files : WF_captureVars(Surface(f) /\ UNCHANGED serverVars)
CaptureFairSpec == CaptureSpec /\ CaptureFairness

-------------------------------------------------------------------------------
\* The values of task[t] and job[j].
TaskState == [pc : {"idle", "load", "read", "upsert", "save"},
              file : Files \cup {NoFile}, force : BOOLEAN, from : Nat, upto : Nat]
JobState == [state : {"none", "queued", "running", "complete"}, force : BOOLEAN,
             todo : SUBSET Files, failed : SUBSET Files, asked : [Files -> Nat]]

CaptureTypeOK ==
  /\ FilesTypeOK
  /\ \A r \in rows : r.file \in Files
  /\ cursor \in [Files -> Nat]
  /\ task \in [Tasks -> TaskState]
  /\ job \in [Jobs -> JobState]
  /\ serving \in BOOLEAN
  /\ crashes \in 0 .. MaxCrashes

\* Line i of f, which names its event, has its row in the database.
Stored(f, i) == \E r \in rows : r.file = f /\ RowKeyOf(script[f].lines[i], r.key)

AllStored(f, n) ==
  \A i \in 1 .. CompleteLines(n) : NamesItsEvent(script[f].lines[i]) => Stored(f, i)

\* A saved cursor never passes the last complete line of its file, nor an event
\* with an id of its own (a call, a text, an api_error, a usage) that is not in
\* the database, although the two are written one after the other, a scan and
\* the watcher may work on one file at once, the slower of them moves the cursor
\* back, and the server may die in between (the order of upsert_events and
\* cursor_store.save in parse_and_store_file).  Events named by a line number
\* have no such luck: see ErrorsStored.
NamedEventsStored ==
  \A f \in Files : cursor[f] <= size[f] /\ AllStored(f, cursor[f])

\* A stored output belongs to the row it is in: wherever the chunks of two
\* concurrent parses begin and end, it is the output of the row's own line or of
\* one with the row's id (the pending maps of the parsers).
OutputsBelong ==
  \A r \in rows : r.output # NoOutput =>
     \E i \in 1 .. CompleteLines(size[r.file]) :
        LET line == script[r.file].lines[i]
        IN  (i = r.line \/ line.id = r.key[2]) /\ line.output = r.output

\* What a finished scan job says is true: every event with an id of its own in a
\* file that was complete when the scan was asked for is stored, unless the
\* job's warnings name the file, even though the scan skips files whose cursor
\* another task moved (run_scan, GET /capture/scan/{job_id}).
ScanReportsTruth ==
  \A j \in Jobs : job[j].state = "complete" =>
     \A f \in Files \ job[j].failed : AllStored(f, job[j].asked[f])

\* Once the agents have written what they write, every change is in the
\* database, or it was one nobody could capture: made while no server watched,
\* dropped by a full channel, or failed (watch.rs and spawn_watcher).
WatcherCatchesUp ==
  \A f \in Files : <>[](f \in missed \/ AllStored(f, size[f]))

-------------------------------------------------------------------------------
(* What a comment of the code says and the code does not keep.               *)

\* Behind the cursor, line i of f.
Passed(f, i) == i \in 1 .. CompleteLines(cursor[f])

\* What INSERT OR IGNORE drops was seen before (storage/mod.rs:11), and the parser
\* covers error envelopes (codex/transcript.rs:13): one that the cursor has passed
\* has a row of its own.
ErrorsStored ==
  \A f \in Files : \A i \in 1 .. Len(script[f].lines) :
     Passed(f, i) /\ script[f].lines[i].kind = "error" =>
        \E r \in rows : r.file = f /\ r.line = i
===============================================================================
