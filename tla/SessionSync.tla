----------------------------- MODULE SessionSync -----------------------------
(***************************************************************************)
(* `aikit session sync` (cli/session.rs, aikit-session-sync): processes     *)
(* that upload transcripts to one bucket and remember in one state.json     *)
(* what they uploaded.  A process makes a pass over all files and, with     *)
(* --watch, then handles the changes of its watcher one at a time, each     *)
(* with a few retries.  Any process may be killed and started again.        *)
(*                                                                          *)
(* A transcript only grows, so its size stands for its content, for the     *)
(* hash of the (scrubbed) content and for its fingerprint of modification   *)
(* time and size.  An object's key holds the hash, so an object is the pair *)
(* of its file and that size.                                               *)
(***************************************************************************)
EXTENDS SessionFiles

CONSTANTS Syncers,     \* processes that may run, one run at a time each
          WatchSyncer, \* the one started with --watch
          NoEntry,     \* no entry for a file
          Attempts,    \* of retry_with_backoff (6 in the code)
          MaxStarts    \* how often each process may be started

ASSUME SyncersAssumption == IsFiniteSet(Syncers) /\ WatchSyncer \in Syncers
ASSUME NoEntryAssumption == NoEntry \notin [hash : Nat, size : Nat]
ASSUME AttemptsAssumption == Attempts \in Nat \ {0}
ASSUME MaxStartsAssumption == MaxStarts \in Nat

Entry == [hash : Nat, size : Nat] \cup {NoEntry}
Empty == [f \in Files |-> NoEntry]

\* What a file holds: a map of entries, or nothing, or a mixture that does not
\* parse; or there is no such file.
Holding(map) == [what |-> "map", map |-> map]
NoMap(what) == [what |-> what, map |-> Empty]

VARIABLES
  contents, \* content objects in the bucket: pairs of a file and a size
  metas,    \* envelope objects in the bucket
  state,    \* state.json
  tmp,      \* state.json.tmp
  sync,     \* each process's place and locals
  starts    \* how often each has been started

uploadVars == <<contents, metas, state, tmp, sync, starts>>
syncVars == <<filesVars, uploadVars>>

\* pc: where the process is in execute_sync, sync_file and save.
\* mode: "pass" (sync_detected), "watch" (watch_sync), or "off".
\* fd: which name the open temporary file has now ("gone" once replaced).
NotRunning == [pc |-> "off", mode |-> "off", todo |-> {}, file |-> NoFile,
               size |-> 0, hash |-> 0, map |-> Empty,
               fd |-> "none", attempt |-> 0, failed |-> {},
               asked |-> [f \in Files |-> 0]]

UploadInit ==
  /\ contents = {}
  /\ metas = {}
  /\ state = NoMap("absent")
  /\ tmp = NoMap("absent")
  /\ sync = [p \in Syncers |-> NotRunning]
  /\ starts = [p \in Syncers |-> 0]

SyncInit == FilesInit /\ UploadInit

\* load_all: what cannot be read or parsed counts as empty.
LoadAll == IF state.what = "map" THEN state.map ELSE Empty

Goto(p, pc) == sync' = [sync EXCEPT ![p].pc = pc]

-------------------------------------------------------------------------------
(* A process's life: execute_sync.                                           *)

\* sync_detected lists the files up front.
Start(p) ==
  /\ sync[p].pc \in {"off", "exit"}
  /\ starts[p] < MaxStarts
  /\ starts' = [starts EXCEPT ![p] = @ + 1]
  /\ sync' = [sync EXCEPT ![p] =
                [NotRunning EXCEPT !.pc = "next", !.mode = "pass",
                                   !.todo = {f \in Files : size[f] > 0},
                                   !.asked = size]]
  /\ UNCHANGED <<filesVars, contents, metas, state, tmp>>

NextFile(p) ==
  /\ sync[p].pc = "next"
  /\ sync[p].mode = "pass"
  /\ \E f \in sync[p].todo :
        sync' = [sync EXCEPT ![p].pc = "stat", ![p].file = f,
                             ![p].todo = @ \ {f}]
  /\ UNCHANGED <<filesVars, contents, metas, state, tmp, starts>>

\* The watcher is registered only after the whole pass.
PassEnds(p) ==
  /\ sync[p].pc = "next"
  /\ sync[p].mode = "pass"
  /\ sync[p].todo = {}
  /\ IF p = WatchSyncer
       THEN /\ sync' = [sync EXCEPT ![p].mode = "watch"]
            /\ StartWatching
            /\ UNCHANGED <<script, size, pending, channel, missed>>
       ELSE /\ sync' = [sync EXCEPT ![p].pc = "exit"]
            /\ UNCHANGED filesVars
  /\ UNCHANGED <<contents, metas, state, tmp, starts>>

ReceiveChange(p) ==
  /\ sync[p].pc = "next"
  /\ sync[p].mode = "watch"
  /\ channel # <<>>
  /\ channel' = Tail(channel)
  /\ sync' = [sync EXCEPT ![p].pc = "stat", ![p].file = Head(channel),
                          ![p].attempt = 1]
  /\ UNCHANGED <<script, size, watching, pending, missed, contents, metas, state,
                 tmp, starts>>

\* The process is killed.  Its temporary file stays as it is.
Kill(p) ==
  /\ sync[p].pc \notin {"off", "exit"}
  /\ sync' = [sync EXCEPT ![p] = NotRunning]
  /\ IF sync[p].mode = "watch"
       THEN StopWatching({sync[p].file} \ {NoFile}) /\ UNCHANGED <<script, size>>
       ELSE UNCHANGED filesVars
  /\ UNCHANGED <<contents, metas, state, tmp, starts>>

-------------------------------------------------------------------------------
(* sync_file.                                                                *)

Done(p) ==
  [sync EXCEPT ![p].pc = "next", ![p].file = NoFile, ![p].size = 0, ![p].hash = 0,
               ![p].map = Empty, ![p].fd = "none", ![p].attempt = 0]

\* An error: a pass counts the file as failed; a watch tries again, or gives up
\* with a warning until the file changes once more.
Dropped(p) == Done(p) \* mutated form
Retry(p) ==
  [Done(p) EXCEPT ![p].pc = "stat", ![p].file = sync[p].file,
                  ![p].attempt = sync[p].attempt + 1]

Fail(p) ==
  IF sync[p].mode = "watch" /\ sync[p].attempt < Attempts
    THEN sync' = Retry(p) /\ UNCHANGED missed
    ELSE /\ sync' = [Done(p) EXCEPT ![p].failed =
                       IF sync[p].mode = "pass" THEN @ \cup {sync[p].file} ELSE @]
         /\ missed' = IF sync[p].mode = "watch" THEN missed \cup {sync[p].file}
                      ELSE missed

\* The fingerprint is taken before the content is read.
Stat(p) ==
  /\ sync[p].pc = "stat"
  /\ sync' = [sync EXCEPT ![p].pc = "compare", ![p].size = size[sync[p].file]]
  /\ UNCHANGED <<filesVars, contents, metas, state, tmp, starts>>

HasEntry(p) == LoadAll[sync[p].file] # NoEntry \* mutated form
SkipsFile(p) ==
  LET entry == LoadAll[sync[p].file]
  IN  entry # NoEntry /\ entry.size = sync[p].size

CompareFingerprint(p) ==
  /\ sync[p].pc = "compare"
  /\ IF SkipsFile(p) THEN sync' = Done(p) ELSE Goto(p, "read")
  /\ UNCHANGED <<filesVars, contents, metas, state, tmp, starts>>

Read(p) ==
  /\ sync[p].pc = "read"
  /\ sync' = [sync EXCEPT ![p].pc = "hash", ![p].hash = size[sync[p].file]]
  /\ UNCHANGED <<filesVars, contents, metas, state, tmp, starts>>

\* The same content under a new fingerprint is not uploaded again.
SameContent(p) ==
  LET entry == LoadAll[sync[p].file]
  IN  entry # NoEntry /\ entry.hash = sync[p].hash

\* S3Sink::put writes the content and then the envelope.
FirstPut == "content"

CompareHash(p) ==
  /\ sync[p].pc = "hash"
  /\ Goto(p, IF SameContent(p) THEN "load" ELSE FirstPut)
  /\ UNCHANGED <<filesVars, contents, metas, state, tmp, starts>>

Object(p) == <<sync[p].file, sync[p].hash>>

PutContent(p) ==
  /\ sync[p].pc = "content"
  /\ contents' = contents \cup {Object(p)}
  /\ Goto(p, "meta")
  /\ UNCHANGED <<filesVars, metas, state, tmp, starts>>

PutMeta(p) ==
  /\ sync[p].pc = "meta"
  /\ metas' = metas \cup {Object(p)}
  /\ Goto(p, "load")
  /\ UNCHANGED <<filesVars, contents, state, tmp, starts>>

\* The file cannot be read, the bucket refuses or its answer is lost, or the
\* temporary file cannot be written.
StepFails(p) ==
  /\ sync[p].pc \in {"stat", "read", "content", "meta", "open", "write"}
  /\ \/ UNCHANGED <<contents, metas>>
     \/ sync[p].pc = "content" /\ contents' = contents \cup {Object(p)} /\ UNCHANGED metas
     \/ sync[p].pc = "meta" /\ metas' = metas \cup {Object(p)} /\ UNCHANGED contents
  /\ Fail(p)
  /\ UNCHANGED <<script, size, watching, pending, channel, state, tmp, starts>>

-------------------------------------------------------------------------------
(* JsonSyncStateStore::save: every process rewrites the whole map through    *)
(* one temporary file.                                                       *)

SizeNow(p) == [hash |-> sync[p].hash, size |-> size[sync[p].file]] \* mutated form
NewEntry(p) == [hash |-> sync[p].hash, size |-> sync[p].size]

SaveLoad(p) ==
  /\ sync[p].pc = "load"
  /\ sync' = [sync EXCEPT ![p].pc = "open",
                          ![p].map = [LoadAll EXCEPT ![sync[p].file] = NewEntry(p)]]
  /\ UNCHANGED <<filesVars, contents, metas, state, tmp, starts>>

\* fs::write creates the file or truncates the one that is there.
OpenTmp(p) ==
  /\ sync[p].pc = "open"
  /\ tmp' = NoMap("empty")
  /\ sync' = [sync EXCEPT ![p].pc = "write", ![p].fd = "tmp"]
  /\ UNCHANGED <<filesVars, contents, metas, state, starts>>

\* What the file holds after the write: over another process's bytes, the
\* longer map may leave a tail that does not parse.
Written(p, before) ==
  {Holding(sync[p].map)} \cup (IF before.what = "empty" THEN {} ELSE {NoMap("torn")})

WriteTmp(p) ==
  /\ sync[p].pc = "write"
  /\ CASE sync[p].fd = "tmp"   -> tmp' \in Written(p, tmp) /\ UNCHANGED state
       [] sync[p].fd = "state" -> state' \in Written(p, state) /\ UNCHANGED tmp
       [] OTHER                -> UNCHANGED <<state, tmp>>
  /\ sync' = [sync EXCEPT ![p].pc = "rename", ![p].fd = "none"]
  /\ UNCHANGED <<filesVars, contents, metas, starts>>

\* Renaming moves whatever file has the name now; the descriptors that other
\* processes hold move along.
Moved(fd) == CASE fd = "tmp" -> "state" [] fd = "state" -> "gone" [] OTHER -> fd

RenameTmp(p) ==
  /\ sync[p].pc = "rename"
  /\ tmp.what # "absent"
  /\ state' = tmp
  /\ tmp' = NoMap("absent")
  /\ sync' = [q \in Syncers |-> [Done(p)[q] EXCEPT !.fd = Moved(@)]]
  /\ UNCHANGED <<filesVars, contents, metas, starts>>

\* Another process has renamed it away.
RenameFails(p) ==
  /\ sync[p].pc = "rename"
  /\ tmp.what = "absent"
  /\ Fail(p)
  /\ UNCHANGED <<script, size, watching, pending, channel, contents, metas, state,
                 tmp, starts>>

SyncStep(p) ==
  \/ NextFile(p) \/ PassEnds(p) \/ ReceiveChange(p)
  \/ Stat(p) \/ CompareFingerprint(p) \/ Read(p) \/ CompareHash(p)
  \/ PutContent(p) \/ PutMeta(p)
  \/ SaveLoad(p) \/ OpenTmp(p) \/ WriteTmp(p) \/ RenameTmp(p) \/ RenameFails(p)

SyncNext ==
  \/ AgentsAndTimers /\ UNCHANGED uploadVars
  \/ \E p \in Syncers : Start(p) \/ SyncStep(p) \/ StepFails(p) \/ Kill(p)

SyncSpec == SyncInit /\ [][SyncNext]_syncVars

\* A process that runs goes on; nobody has to start one.
SyncFairness ==
  /\ \A p \in Syncers : WF_syncVars(SyncStep(p))
  /\ \A f \in Files : WF_syncVars(Surface(f) /\ UNCHANGED uploadVars)
SyncFairSpec == SyncSpec /\ SyncFairness

-------------------------------------------------------------------------------
StateMap == [Files -> Entry]

FileContent == [what : {"map", "empty", "torn", "absent"}, map : StateMap]

\* The values of sync[p].
Process ==
  [pc : {"off", "next", "stat", "compare", "read", "hash", "content", "meta", "load",
         "open", "write", "rename", "exit"},
   mode : {"off", "pass", "watch"}, todo : SUBSET Files, file : Files \cup {NoFile},
   size : Nat, hash : Nat, map : StateMap, fd : {"none", "tmp", "state", "gone"},
   attempt : Nat, failed : SUBSET Files, asked : [Files -> Nat]]

SyncTypeOK ==
  /\ FilesTypeOK
  /\ contents \subseteq Files \X Nat
  /\ metas \subseteq Files \X Nat
  /\ state \in FileContent
  /\ tmp \in FileContent
  /\ sync \in [Syncers -> Process]
  /\ starts \in [Syncers -> 0 .. MaxStarts]

\* The bucket holds f, complete with its envelope, as it was at some size that
\* is at least n.
Uploaded(f, n) == \E o \in contents \cap metas : o[1] = f /\ o[2] >= n

\* Whatever entry a process can read from state.json tells the truth: the
\* object of its hash and its envelope are in the bucket, and that content
\* covers the file as its fingerprint saw it, so that skipping an unchanged
\* file skips nothing; although the fingerprint is older than the content, the
\* state is written after the upload, and several processes that may be killed
\* rewrite one map through one temporary file (sync_file, JsonSyncStateStore).
StateTellsTruth ==
  \A f \in Files : LoadAll[f] # NoEntry =>
     /\ <<f, LoadAll[f].hash>> \in contents \cap metas
     /\ LoadAll[f].size <= LoadAll[f].hash

\* An envelope in the bucket never lacks its content (S3Sink::put).
EnvelopesHaveContent == metas \subseteq contents

\* A pass that reports no failure for a file leaves that file, as it was when
\* the pass began, in the bucket, whether it uploaded or skipped it and
\* whatever another process did to state.json meanwhile (SyncRunSummary and
\* the exit code of execute_sync).
PassReportsTruth ==
  \A p \in Syncers : (sync[p].mode = "watch" \/ sync[p].pc = "exit") =>
     \A f \in Files \ sync[p].failed : sync[p].asked[f] > 0 =>
        Uploaded(f, sync[p].asked[f])

\* Once the agents have written what they write, every change is in the bucket,
\* or it was one the watching process could not see or gave up on (watch_sync
\* and retry_with_backoff).
WatchUploads ==
  \A f \in Files : <>[](f \in missed \/ size[f] = 0 \/ Uploaded(f, size[f]))
===============================================================================
