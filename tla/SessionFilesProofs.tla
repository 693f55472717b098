--------------------------- MODULE SessionFilesProofs ---------------------------
(***************************************************************************)
(* Proofs about the transcripts and those who follow them: modules          *)
(* SessionFiles, SessionSync and Capture.                                   *)
(***************************************************************************)
EXTENDS Capture, SessionSync, SequenceTheorems, WellFoundedInduction, TLAPS

(***************************************************************************)
(* Lemmas about module SessionFiles: every step of the agents, of the       *)
(* watcher's timers and of the process that watches keeps the type of the   *)
(* transcripts, and transcripts only grow.  An agent that writes whole      *)
(* lines leaves a whole number of them, or its last write could run over    *)
(* the end of its script.                                                   *)
(***************************************************************************)

WholeLines == \A f \in Files : script[f].step = 2 => size[f] % 2 = 0

FilesInv == FilesTypeOK /\ WholeLines

Grown == \A f \in Files : size[f] <= size'[f]

LEMMA ScriptFacts ==
  ASSUME script \in Scripts, NEW f \in Files
  PROVE  Len(script[f].lines) \in Nat /\ script[f].step \in {1, 2}
BY ScriptsAssumption

LEMMA FilesInvInit == FilesInit => FilesInv
<1> SUFFICES ASSUME FilesInit PROVE FilesInv
  OBVIOUS
<1>1. \A f \in Files : size[f] = 0
  BY DEF FilesInit
<1>2. \A f \in Files : size[f] <= 2 * Len(script[f].lines)
  BY <1>1, ScriptFacts DEF FilesInit
<1>3. channel \in Seq(Files) /\ Len(channel) <= ChannelCapacity
  <2>1. channel = <<>>
    BY DEF FilesInit
  <2> QED
    BY <2>1, EmptySeq, CapacityAssumption
<1>4. FilesTypeOK
  BY <1>2, <1>3 DEF FilesInit, FilesTypeOK
<1>5. WholeLines
  BY <1>1 DEF WholeLines
<1> QED
  BY <1>4, <1>5 DEF FilesInv

LEMMA FilesUnchanged ==
  FilesInv /\ UNCHANGED filesVars => FilesInv' /\ Grown
BY DEF FilesInv, FilesTypeOK, WholeLines, filesVars, Grown

\* A step that leaves the transcripts alone and changes the watcher's sets.
LEMMA SameTranscripts ==
  ASSUME FilesInv, UNCHANGED <<script, size>>, watching' \in BOOLEAN,
         pending' \subseteq Files, missed' \subseteq Files,
         channel' \in Seq(Files), Len(channel') <= ChannelCapacity
  PROVE  FilesInv' /\ Grown
BY DEF FilesInv, FilesTypeOK, WholeLines, Grown

LEMMA WriteKeeps ==
  ASSUME FilesInv, NEW f \in Files, Write(f)
  PROVE  FilesInv' /\ Grown
<1> DEFINE n == Len(script[f].lines)
           step == script[f].step
<1>1. n \in Nat /\ step \in {1, 2} /\ size[f] \in Nat /\ size[f] < 2 * n
  BY ScriptFacts DEF FilesInv, FilesTypeOK, Write
<1>2. size' = [size EXCEPT ![f] = size[f] + step] /\ script' = script
  BY DEF Write
<1>3. /\ size'[f] = size[f] + step
      /\ \A g \in Files \ {f} : size'[g] = size[g]
  BY <1>2 DEF FilesInv, FilesTypeOK
<1>4. size[f] + step <= 2 * n /\ (step = 2 => (size[f] + step) % 2 = 0)
  <2>1. step = 2 => size[f] % 2 = 0
    BY DEF FilesInv, WholeLines
  <2> HIDE DEF n, step
  <2> QED
    BY <1>1, <2>1
<1>5. size' \in [Files -> Nat]
  <2> HIDE DEF step
  <2> QED
    BY <1>1, <1>2 DEF FilesInv, FilesTypeOK
<1>6. \A g \in Files : size'[g] <= 2 * Len(script'[g].lines)
  BY <1>2, <1>3, <1>4 DEF FilesInv, FilesTypeOK
<1>7. WholeLines'
  BY <1>2, <1>3, <1>4 DEF FilesInv, WholeLines
<1>8. Grown
  <2>1. size[f] <= size'[f]
    BY <1>1, <1>3
  <2>2. \A g \in Files \ {f} : size[g] \in Nat
    BY DEF FilesInv, FilesTypeOK
  <2> QED
    BY <1>3, <2>1, <2>2 DEF Grown
<1>9. pending' \subseteq Files /\ missed' \subseteq Files
  BY DEF FilesInv, FilesTypeOK, Write
<1> QED
  BY <1>2, <1>5, <1>6, <1>7, <1>8, <1>9 DEF FilesInv, FilesTypeOK, Write

LEMMA SurfaceKeeps ==
  ASSUME FilesInv, NEW f \in Files, Surface(f)
  PROVE  FilesInv' /\ Grown
<1>1. /\ channel' \in Seq(Files)
      /\ Len(channel') <= ChannelCapacity
  <2>1. CASE HasRoom
    <3>1. channel' = Append(channel, f)
      BY <2>1 DEF Surface
    <3>2. channel \in Seq(Files)
      BY DEF FilesInv, FilesTypeOK
    <3>3. channel' \in Seq(Files) /\ Len(channel') = Len(channel) + 1
      BY <3>1, <3>2, AppendProperties
    <3> QED
      BY <2>1, <3>2, <3>3, LenProperties, CapacityAssumption DEF HasRoom
  <2>2. CASE ~HasRoom
    BY <2>2 DEF Surface, FilesInv, FilesTypeOK
  <2> QED
    BY <2>1, <2>2
<1>2. pending' \subseteq Files /\ missed' \subseteq Files
  BY DEF Surface, FilesInv, FilesTypeOK
<1>3. watching' \in BOOLEAN /\ UNCHANGED <<script, size>>
  BY DEF Surface, FilesInv, FilesTypeOK
<1> QED
  BY <1>1, <1>2, <1>3, SameTranscripts

LEMMA AgentsKeep ==
  ASSUME FilesInv, AgentsAndTimers
  PROVE  FilesInv' /\ Grown
BY WriteKeeps, SurfaceKeeps DEF AgentsAndTimers

\* Registering a watcher.
LEMMA StartWatchingKeeps ==
  ASSUME FilesInv, StartWatching, UNCHANGED <<script, size, pending, channel, missed>>
  PROVE  FilesInv' /\ Grown
<1>1. /\ watching' \in BOOLEAN
      /\ pending' \subseteq Files /\ missed' \subseteq Files
      /\ channel' \in Seq(Files) /\ Len(channel') <= ChannelCapacity
  BY DEF StartWatching, FilesInv, FilesTypeOK
<1> QED
  BY <1>1, SameTranscripts

LEMMA StopWatchingKeeps ==
  ASSUME FilesInv, NEW handling \in SUBSET Files, StopWatching(handling),
         UNCHANGED <<script, size>>
  PROVE  FilesInv' /\ Grown
<1>1. watching' \in BOOLEAN /\ pending' \subseteq Files /\ missed' \subseteq Files
  BY DEF StopWatching, FilesInv, FilesTypeOK
<1>2. channel' \in Seq(Files) /\ Len(channel') <= ChannelCapacity
  <2>1. channel' = <<>>
    BY DEF StopWatching
  <2> QED
    BY <2>1, EmptySeq, CapacityAssumption
<1> QED
  BY <1>1, <1>2, SameTranscripts

\* Taking the next path off the channel.
LEMMA ReceiveKeeps ==
  ASSUME FilesInv, channel # <<>>, channel' = Tail(channel),
         UNCHANGED <<script, size, watching, pending, missed>>
  PROVE  FilesInv' /\ Grown /\ Head(channel) \in Files
<1>1. channel \in Seq(Files)
  BY DEF FilesInv, FilesTypeOK
<1>2. /\ Head(channel) \in Files
      /\ Tail(channel) \in Seq(Files)
      /\ Len(Tail(channel)) = Len(channel) - 1
  BY <1>1, HeadTailProperties
<1>3. Len(channel') <= ChannelCapacity
  BY <1>1, <1>2, LenProperties, CapacityAssumption DEF FilesInv, FilesTypeOK
<1>4. watching' \in BOOLEAN /\ pending' \subseteq Files /\ missed' \subseteq Files
  BY DEF FilesInv, FilesTypeOK
<1> QED
  BY <1>2, <1>3, <1>4, SameTranscripts

\* A change is given up on.
LEMMA MissKeeps ==
  ASSUME FilesInv, missed' \subseteq Files,
         UNCHANGED <<script, size, watching, pending, channel>>
  PROVE  FilesInv' /\ Grown
<1>1. /\ watching' \in BOOLEAN /\ pending' \subseteq Files
      /\ channel' \in Seq(Files) /\ Len(channel') <= ChannelCapacity
  BY DEF FilesInv, FilesTypeOK
<1> QED
  BY <1>1, SameTranscripts

-------------------------------------------------------------------------------
(***************************************************************************)
(* Proofs about module SessionSync, for any files, scripts, processes and   *)
(* bounds.  The inductive invariant says of every map of entries there is,  *)
(* in state.json, in its temporary file or in a process's memory, that its  *)
(* entries tell the truth, and of every process what the place it has       *)
(* reached in sync_file means: the fingerprint is never ahead of the        *)
(* content, and the objects are in the bucket before the entry is made.     *)
(* Objects are never removed and transcripts only grow, so all of this is   *)
(* stable under the steps of the other processes.                           *)
(***************************************************************************)

Bucket == contents \cap metas

Truthful(map, b) ==
  \A f \in Files : map[f] # NoEntry =>
     <<f, map[f].hash>> \in b /\ map[f].size <= map[f].hash

HasRead == {"hash", "content", "meta", "load", "open", "write", "rename"}
HasPut == {"load", "open", "write", "rename"}
InFile == {"stat", "compare", "read"} \cup HasRead

\* What a process's place means, for transcripts of sizes sz, content objects
\* c and complete objects b.
PlaceOK(r, sz, c, b) ==
  /\ r.pc \in InFile => r.file \in Files /\ r.mode \in {"pass", "watch"}
  /\ r.pc \in {"compare", "read"} => r.size <= sz[r.file]
  /\ r.pc \in HasRead => r.size <= r.hash
  /\ r.pc = "meta" => <<r.file, r.hash>> \in c
  /\ r.pc \in HasPut => <<r.file, r.hash>> \in b
  /\ Truthful(r.map, b)

Covered(f, n, b) == n > 0 => \E o \in b : o[1] = f /\ o[2] >= n

\* How far a process's pass has come.
PassOK(r, sz, b) ==
  /\ \A f \in Files : r.asked[f] <= sz[f]
  /\ r.pc \in {"compare", "read"} \cup HasRead => r.asked[r.file] <= r.size
  /\ r.mode = "watch" \/ r.pc = "exit" =>
       \A f \in Files \ r.failed : Covered(f, r.asked[f], b)
  /\ r.mode = "pass" =>
       \A f \in Files \ r.failed :
          f \in r.todo \/ (r.pc \in InFile /\ f = r.file) \/ Covered(f, r.asked[f], b)

ProcessOK(r, sz, c, b) == PlaceOK(r, sz, c, b) /\ PassOK(r, sz, b)

Truths ==
  /\ EnvelopesHaveContent
  /\ Truthful(state.map, Bucket)
  /\ Truthful(tmp.map, Bucket)
  /\ \A p \in Syncers : ProcessOK(sync[p], size, contents, Bucket)

SyncIInv == SyncTypeOK /\ WholeLines /\ Truths

-------------------------------------------------------------------------------
\* The meaning of a place survives growing transcripts and buckets.
LEMMA TruthfulGrows ==
  ASSUME NEW map, NEW b, NEW bb, b \subseteq bb, Truthful(map, b)
  PROVE  Truthful(map, bb)
BY DEF Truthful

LEMMA CoveredGrows ==
  ASSUME NEW f, NEW n, NEW b, NEW bb, b \subseteq bb, Covered(f, n, b)
  PROVE  Covered(f, n, bb)
BY DEF Covered

LEMMA PlaceGrows ==
  ASSUME NEW r \in Process, NEW sz \in [Files -> Nat], NEW zz \in [Files -> Nat],
         NEW c, NEW cc, NEW b, NEW bb,
         \A f \in Files : sz[f] <= zz[f], c \subseteq cc, b \subseteq bb,
         PlaceOK(r, sz, c, b)
  PROVE  PlaceOK(r, zz, cc, bb)
<1>1. r.size \in Nat
  BY DEF Process
<1>2. r.pc \in {"compare", "read"} => r.size <= zz[r.file]
  BY <1>1 DEF PlaceOK, InFile
<1>3. Truthful(r.map, bb)
  BY TruthfulGrows DEF PlaceOK
<1> QED
  BY <1>2, <1>3 DEF PlaceOK

LEMMA PassGrows ==
  ASSUME NEW r \in Process, NEW sz \in [Files -> Nat], NEW zz \in [Files -> Nat],
         NEW b, NEW bb, \A f \in Files : sz[f] <= zz[f], b \subseteq bb,
         PassOK(r, sz, b)
  PROVE  PassOK(r, zz, bb)
<1>1. r.asked \in [Files -> Nat]
  BY DEF Process
<1>2. \A f \in Files : r.asked[f] <= zz[f]
  BY <1>1 DEF PassOK
<1>3. \A f \in Files : Covered(f, r.asked[f], b) => Covered(f, r.asked[f], bb)
  BY CoveredGrows
<1> QED
  BY <1>2, <1>3 DEF PassOK

LEMMA ProcessGrows ==
  ASSUME NEW r \in Process, NEW sz \in [Files -> Nat], NEW zz \in [Files -> Nat],
         NEW c, NEW cc, NEW b, NEW bb,
         \A f \in Files : sz[f] <= zz[f], c \subseteq cc, b \subseteq bb,
         ProcessOK(r, sz, c, b)
  PROVE  ProcessOK(r, zz, cc, bb)
BY PlaceGrows, PassGrows DEF ProcessOK

LEMMA NoEntryIsNone ==
  ASSUME NEW h \in Nat, NEW n \in Nat
  PROVE  [hash |-> h, size |-> n] # NoEntry /\ [hash |-> h, size |-> n] \in Entry
BY NoEntryAssumption DEF Entry

LEMMA EmptyFacts ==
  ASSUME NEW b
  PROVE  Empty \in StateMap /\ Truthful(Empty, b)
BY DEF Empty, StateMap, Entry, Truthful

LEMMA ContentTypes ==
  /\ \A m \in StateMap : Holding(m) \in FileContent /\ Holding(m).map = m
  /\ \A w \in {"empty", "torn", "absent"} :
        NoMap(w) \in FileContent /\ NoMap(w).map = Empty
BY EmptyFacts DEF Holding, NoMap, FileContent

LEMMA LoadAllFacts ==
  ASSUME SyncIInv
  PROVE  LoadAll \in StateMap /\ Truthful(LoadAll, Bucket)
BY EmptyFacts DEF SyncIInv, SyncTypeOK, Truths, FileContent, LoadAll

-------------------------------------------------------------------------------
\* A step of one process: what has to be shown of it.
LEMMA OneProcess ==
  ASSUME SyncIInv, NEW p \in Syncers, FilesInv', Grown,
         sync' \in [Syncers -> Process],
         \A q \in Syncers \ {p} : sync'[q] = sync[q],
         contents \subseteq contents', metas \subseteq metas',
         contents' \subseteq Files \X Nat, metas' \subseteq contents',
         state' \in FileContent, tmp' \in FileContent,
         starts' \in [Syncers -> 0 .. MaxStarts],
         Truthful(state'.map, Bucket'), Truthful(tmp'.map, Bucket'),
         ProcessOK(sync'[p], size', contents', Bucket')
  PROVE  SyncIInv'
<1>1. size \in [Files -> Nat] /\ size' \in [Files -> Nat]
  BY DEF SyncIInv, SyncTypeOK, FilesTypeOK, FilesInv
<1>2. Bucket \subseteq Bucket'
  BY DEF Bucket
<1>3. \A q \in Syncers \ {p} : ProcessOK(sync'[q], size', contents', Bucket')
  <2> SUFFICES ASSUME NEW q \in Syncers \ {p}
               PROVE  ProcessOK(sync'[q], size', contents', Bucket')
    OBVIOUS
  <2>1. ProcessOK(sync[q], size, contents, Bucket) /\ sync[q] \in Process
    BY DEF SyncIInv, Truths, SyncTypeOK
  <2>2. ProcessOK(sync[q], size', contents', Bucket')
    BY <1>1, <1>2, <2>1, ProcessGrows DEF Grown
  <2> QED
    BY <2>2
<1>4. Truths'
  BY <1>3 DEF Truths, EnvelopesHaveContent
<1>5. SyncTypeOK'
  BY DEF SyncTypeOK, FilesInv
<1> QED
  BY <1>4, <1>5 DEF SyncIInv, FilesInv
\* One that changes nothing but the process's own locals.
LEMMA LocalStep ==
  ASSUME SyncIInv, NEW p \in Syncers, sync' \in [Syncers -> Process],
         \A q \in Syncers \ {p} : sync'[q] = sync[q],
         UNCHANGED <<filesVars, contents, metas, state, tmp, starts>>,
         ProcessOK(sync'[p], size, contents, Bucket)
  PROVE  SyncIInv'
<1>1. FilesInv' /\ Grown
  BY FilesUnchanged DEF SyncIInv, SyncTypeOK, FilesInv
<1>2. /\ contents' = contents /\ metas' = metas /\ Bucket' = Bucket
      /\ state' = state /\ tmp' = tmp /\ starts' = starts
      /\ size' = size
  BY DEF Bucket, filesVars
<1>3. /\ contents \subseteq Files \X Nat /\ metas \subseteq contents
      /\ state \in FileContent /\ tmp \in FileContent
      /\ starts \in [Syncers -> 0 .. MaxStarts]
      /\ Truthful(state.map, Bucket) /\ Truthful(tmp.map, Bucket)
  BY DEF SyncIInv, SyncTypeOK, Truths, EnvelopesHaveContent
<1> QED
  BY <1>1, <1>2, <1>3, OneProcess

\* What is known of a process before its step.
LEMMA SyncKnown ==
  ASSUME SyncIInv, NEW p \in Syncers
  PROVE  /\ sync[p] \in Process
         /\ ProcessOK(sync[p], size, contents, Bucket)
         /\ size \in [Files -> Nat]
         /\ sync \in [Syncers -> Process]
BY DEF SyncIInv, SyncTypeOK, Truths, FilesTypeOK

LEMMA StartKeeps ==
  ASSUME SyncIInv, NEW p \in Syncers, Start(p)
  PROVE  SyncIInv'
<1> DEFINE r == [NotRunning EXCEPT !.pc = "next", !.mode = "pass",
                                   !.todo = {f \in Files : size[f] > 0},
                                   !.asked = size]
<1>1. r \in Process
  BY SyncKnown, EmptyFacts DEF NotRunning, Process
<1>2. sync' = [sync EXCEPT ![p] = r]
  BY DEF Start
<1>3. /\ sync' \in [Syncers -> Process]
      /\ sync'[p] = r
      /\ \A q \in Syncers \ {p} : sync'[q] = sync[q]
  BY <1>1, <1>2, SyncKnown
<1>4. ProcessOK(r, size, contents, Bucket)
  <2>1. /\ r.pc = "next" /\ r.mode = "pass" /\ r.map = Empty /\ r.asked = size
        /\ r.todo = {f \in Files : size[f] > 0}
    BY DEF NotRunning
  <2> HIDE DEF r
  <2>2. PlaceOK(r, size, contents, Bucket)
    BY <2>1, EmptyFacts DEF PlaceOK, InFile, HasRead, HasPut
  <2>3. PassOK(r, size, Bucket)
    BY <2>1, SyncKnown DEF PassOK, InFile, HasRead, Covered
  <2> QED
    BY <2>2, <2>3 DEF ProcessOK
<1>5. starts' \in [Syncers -> 0 .. MaxStarts]
  BY MaxStartsAssumption DEF Start, SyncIInv, SyncTypeOK
<1>6. UNCHANGED <<filesVars, contents, metas, state, tmp>>
  BY DEF Start
<1>7. FilesInv' /\ Grown
  BY <1>6, FilesUnchanged DEF SyncIInv, SyncTypeOK, FilesInv
<1>8. /\ contents' = contents /\ metas' = metas /\ Bucket' = Bucket
      /\ state' = state /\ tmp' = tmp /\ size' = size
  BY <1>6 DEF Bucket, filesVars
<1>9. /\ contents \subseteq Files \X Nat /\ metas \subseteq contents
      /\ state \in FileContent /\ tmp \in FileContent
      /\ Truthful(state.map, Bucket) /\ Truthful(tmp.map, Bucket)
  BY DEF SyncIInv, SyncTypeOK, Truths, EnvelopesHaveContent
<1> HIDE DEF r
<1> QED
  BY <1>3, <1>4, <1>5, <1>7, <1>8, <1>9, OneProcess

LEMMA NextFileKeeps ==
  ASSUME SyncIInv, NEW p \in Syncers, NextFile(p)
  PROVE  SyncIInv'
<1>1. PICK f \in sync[p].todo :
        sync' = [sync EXCEPT ![p].pc = "stat", ![p].file = f, ![p].todo = @ \ {f}]
  BY DEF NextFile
<1> DEFINE r == [sync[p] EXCEPT !.pc = "stat", !.file = f, !.todo = @ \ {f}]
<1>2. sync[p].pc = "next" /\ sync[p].mode = "pass" /\ sync[p].todo \subseteq Files
  BY SyncKnown DEF NextFile, Process
<1>3. r \in Process
  <2>1. f \in Files /\ sync[p].todo \ {f} \in SUBSET Files
    BY <1>2
  <2>2. sync[p] \in Process
    BY SyncKnown
  <2> QED
    BY <2>1, <2>2, ZenonT(60) DEF Process
<1>4. /\ sync' \in [Syncers -> Process]
      /\ sync'[p] = r
      /\ \A q \in Syncers \ {p} : sync'[q] = sync[q]
  BY <1>1, <1>3, SyncKnown
<1>5. ProcessOK(r, size, contents, Bucket)
  <2>1. /\ r.pc = "stat" /\ r.mode = "pass" /\ r.map = sync[p].map
        /\ r.asked = sync[p].asked /\ r.failed = sync[p].failed
        /\ r.file = f /\ f \in Files /\ r.todo = sync[p].todo \ {f}
    BY <1>2, SyncKnown DEF Process
  <2> HIDE DEF r
  <2>2. PlaceOK(r, size, contents, Bucket)
    BY <2>1, SyncKnown DEF PlaceOK, InFile, HasRead, HasPut, ProcessOK
  <2>3. PassOK(r, size, Bucket)
    BY <2>1, <1>2, SyncKnown DEF PassOK, InFile, HasRead, ProcessOK
  <2> QED
    BY <2>2, <2>3 DEF ProcessOK
<1> HIDE DEF r
<1> QED
  BY <1>4, <1>5, LocalStep DEF NextFile

LEMMA PassEndsKeeps ==
  ASSUME SyncIInv, NEW p \in Syncers, PassEnds(p)
  PROVE  SyncIInv'
<1>1. /\ sync[p].pc = "next" /\ sync[p].mode = "pass" /\ sync[p].todo = {}
      /\ \A f \in Files \ sync[p].failed : Covered(f, sync[p].asked[f], Bucket)
  BY SyncKnown DEF PassEnds, ProcessOK, PassOK, InFile, HasRead
<1>2. CASE p = WatchSyncer
  <2> DEFINE r == [sync[p] EXCEPT !.mode = "watch"]
  <2>1. r \in Process
    BY SyncKnown, ZenonT(60) DEF Process
  <2>2. sync' = [sync EXCEPT ![p].mode = "watch"]
    BY <1>2 DEF PassEnds
  <2>3. /\ sync' \in [Syncers -> Process]
        /\ sync'[p] = r
        /\ \A q \in Syncers \ {p} : sync'[q] = sync[q]
    BY <2>1, <2>2, SyncKnown
  <2>4. ProcessOK(r, size, contents, Bucket)
    <3>1. /\ r.pc = "next" /\ r.mode = "watch" /\ r.map = sync[p].map
          /\ r.asked = sync[p].asked /\ r.failed = sync[p].failed
      BY <1>1, SyncKnown DEF Process
    <3> HIDE DEF r
    <3>2. PlaceOK(r, size, contents, Bucket)
      BY <3>1, SyncKnown DEF PlaceOK, InFile, HasRead, HasPut, ProcessOK
    <3>3. PassOK(r, size, Bucket)
      BY <3>1, <1>1, SyncKnown DEF PassOK, HasRead, ProcessOK
    <3> QED
      BY <3>2, <3>3 DEF ProcessOK
  <2>5. FilesInv' /\ Grown
    BY <1>2, StartWatchingKeeps DEF PassEnds, SyncIInv, SyncTypeOK, FilesInv
  <2>6. /\ contents' = contents /\ metas' = metas /\ Bucket' = Bucket
        /\ state' = state /\ tmp' = tmp /\ size' = size /\ starts' = starts
    BY <1>2 DEF PassEnds, Bucket
  <2>7. /\ contents \subseteq Files \X Nat /\ metas \subseteq contents
        /\ state \in FileContent /\ tmp \in FileContent
        /\ starts \in [Syncers -> 0 .. MaxStarts]
        /\ Truthful(state.map, Bucket) /\ Truthful(tmp.map, Bucket)
    BY DEF SyncIInv, SyncTypeOK, Truths, EnvelopesHaveContent
  <2> HIDE DEF r
  <2> QED
    BY <2>3, <2>4, <2>5, <2>6, <2>7, OneProcess
<1>3. CASE p # WatchSyncer
  <2> DEFINE r == [sync[p] EXCEPT !.pc = "exit"]
  <2>1. r \in Process
    BY SyncKnown, ZenonT(60) DEF Process
  <2>2. sync' = [sync EXCEPT ![p].pc = "exit"]
    BY <1>3 DEF PassEnds
  <2>3. /\ sync' \in [Syncers -> Process]
        /\ sync'[p] = r
        /\ \A q \in Syncers \ {p} : sync'[q] = sync[q]
    BY <2>1, <2>2, SyncKnown
  <2>4. ProcessOK(r, size, contents, Bucket)
    <3>1. /\ r.pc = "exit" /\ r.mode = "pass" /\ r.map = sync[p].map
          /\ r.asked = sync[p].asked /\ r.failed = sync[p].failed
      BY <1>1, SyncKnown DEF Process
    <3> HIDE DEF r
    <3>2. PlaceOK(r, size, contents, Bucket)
      BY <3>1, SyncKnown DEF PlaceOK, InFile, HasRead, HasPut, ProcessOK
    <3>3. PassOK(r, size, Bucket)
      BY <3>1, <1>1, SyncKnown DEF PassOK, HasRead, ProcessOK
    <3> QED
      BY <3>2, <3>3 DEF ProcessOK
  <2> HIDE DEF r
  <2> QED
    BY <1>3, <2>3, <2>4, LocalStep DEF PassEnds
<1> QED
  BY <1>2, <1>3

LEMMA ReceiveChangeKeeps ==
  ASSUME SyncIInv, NEW p \in Syncers, ReceiveChange(p)
  PROVE  SyncIInv'
<1> DEFINE r == [sync[p] EXCEPT !.pc = "stat", !.file = Head(channel), !.attempt = 1]
<1>1. FilesInv' /\ Grown /\ Head(channel) \in Files
  BY ReceiveKeeps DEF ReceiveChange, SyncIInv, SyncTypeOK, FilesInv
<1>2. sync[p].pc = "next" /\ sync[p].mode = "watch"
  BY DEF ReceiveChange
<1>3. r \in Process
  BY <1>1, SyncKnown, ZenonT(60) DEF Process
<1>4. /\ sync' \in [Syncers -> Process]
      /\ sync'[p] = r
      /\ \A q \in Syncers \ {p} : sync'[q] = sync[q]
  <2>1. sync' = [sync EXCEPT ![p].pc = "stat", ![p].file = Head(channel),
                             ![p].attempt = 1]
    BY DEF ReceiveChange
  <2> QED
    BY <2>1, <1>3, SyncKnown
<1>5. ProcessOK(r, size, contents, Bucket)
  <2>1. /\ r.pc = "stat" /\ r.mode = "watch" /\ r.map = sync[p].map
        /\ r.asked = sync[p].asked /\ r.failed = sync[p].failed
        /\ r.file \in Files
    BY <1>1, <1>2, SyncKnown DEF Process
  <2> HIDE DEF r
  <2>2. PlaceOK(r, size, contents, Bucket)
    BY <2>1, SyncKnown DEF PlaceOK, InFile, HasRead, HasPut, ProcessOK
  <2>3. PassOK(r, size, Bucket)
    BY <2>1, <1>2, SyncKnown DEF PassOK, HasRead, ProcessOK
  <2> QED
    BY <2>2, <2>3 DEF ProcessOK
<1>6. /\ contents' = contents /\ metas' = metas /\ Bucket' = Bucket
      /\ state' = state /\ tmp' = tmp /\ size' = size /\ starts' = starts
  BY DEF ReceiveChange, Bucket
<1>7. /\ contents \subseteq Files \X Nat /\ metas \subseteq contents
      /\ state \in FileContent /\ tmp \in FileContent
      /\ starts \in [Syncers -> 0 .. MaxStarts]
      /\ Truthful(state.map, Bucket) /\ Truthful(tmp.map, Bucket)
  BY DEF SyncIInv, SyncTypeOK, Truths, EnvelopesHaveContent
<1> HIDE DEF r
<1> QED
  BY <1>1, <1>4, <1>5, <1>6, <1>7, OneProcess

\* A killed process loses its locals, and what it had not handled.
LEMMA KillKeeps ==
  ASSUME SyncIInv, NEW p \in Syncers, Kill(p)
  PROVE  SyncIInv'
<1>1. NotRunning \in Process
  BY EmptyFacts DEF NotRunning, Process
<1>2. /\ sync' \in [Syncers -> Process]
      /\ sync'[p] = NotRunning
      /\ \A q \in Syncers \ {p} : sync'[q] = sync[q]
  BY <1>1, SyncKnown DEF Kill
<1>3. ProcessOK(NotRunning, size, contents, Bucket)
  <2>1. /\ NotRunning.pc = "off" /\ NotRunning.mode = "off"
        /\ NotRunning.map = Empty /\ NotRunning.asked = [f \in Files |-> 0]
    BY DEF NotRunning
  <2>2. PlaceOK(NotRunning, size, contents, Bucket)
    BY <2>1, EmptyFacts DEF PlaceOK, InFile, HasRead, HasPut
  <2>3. PassOK(NotRunning, size, Bucket)
    BY <2>1, SyncKnown DEF PassOK, HasRead
  <2> QED
    BY <2>2, <2>3 DEF ProcessOK
<1>4. FilesInv' /\ Grown
  <2>1. CASE sync[p].mode = "watch"
    <3>1. {sync[p].file} \ {NoFile} \in SUBSET Files
      BY SyncKnown DEF Process
    <3>2. StopWatching({sync[p].file} \ {NoFile}) /\ UNCHANGED <<script, size>>
      BY <2>1 DEF Kill
    <3> QED
      BY <3>1, <3>2, StopWatchingKeeps DEF SyncIInv, SyncTypeOK, FilesInv
  <2>2. CASE sync[p].mode # "watch"
    BY <2>2, FilesUnchanged DEF Kill, SyncIInv, SyncTypeOK, FilesInv
  <2> QED
    BY <2>1, <2>2
<1>5. /\ contents' = contents /\ metas' = metas /\ Bucket' = Bucket
      /\ state' = state /\ tmp' = tmp /\ size' = size /\ starts' = starts
  BY DEF Kill, Bucket, filesVars
<1>6. /\ contents \subseteq Files \X Nat /\ metas \subseteq contents
      /\ state \in FileContent /\ tmp \in FileContent
      /\ starts \in [Syncers -> 0 .. MaxStarts]
      /\ Truthful(state.map, Bucket) /\ Truthful(tmp.map, Bucket)
  BY DEF SyncIInv, SyncTypeOK, Truths, EnvelopesHaveContent
<1> QED
  BY <1>2, <1>3, <1>4, <1>5, <1>6, OneProcess

-------------------------------------------------------------------------------
\* sync_file.
\* A process that goes on with the same file.
LEMMA MovesOn ==
  ASSUME SyncIInv, NEW p \in Syncers, NEW r \in Process,
         sync[p].pc \in InFile, r.pc \in InFile \ {"stat"},
         r.mode = sync[p].mode, r.todo = sync[p].todo, r.failed = sync[p].failed,
         r.asked = sync[p].asked, r.file = sync[p].file,
         r.asked[r.file] <= r.size, NEW c, NEW b, Bucket \subseteq b,
         PlaceOK(r, size, c, b)
  PROVE  ProcessOK(r, size, c, b)
<1>1. PassOK(sync[p], size, Bucket)
  BY SyncKnown DEF ProcessOK
<1>2. \A f \in Files : Covered(f, r.asked[f], Bucket) => Covered(f, r.asked[f], b)
  BY CoveredGrows
<1>3. r.mode \in {"pass", "watch"} /\ r.pc # "exit"
  BY SyncKnown DEF ProcessOK, PlaceOK, InFile, HasRead
<1>4. PassOK(r, size, b)
  BY <1>1, <1>2, <1>3 DEF PassOK, InFile
<1> QED
  BY <1>4 DEF ProcessOK

LEMMA StatKeeps ==
  ASSUME SyncIInv, NEW p \in Syncers, Stat(p)
  PROVE  SyncIInv'
<1> DEFINE r == [sync[p] EXCEPT !.pc = "compare", !.size = size[sync[p].file]]
<1>1. sync[p].pc = "stat" /\ sync[p].file \in Files /\ sync[p].mode \in {"pass", "watch"}
  BY SyncKnown DEF Stat, ProcessOK, PlaceOK, InFile
<1>2. r \in Process
  BY <1>1, SyncKnown, ZenonT(60) DEF Process
<1>3. /\ sync' \in [Syncers -> Process]
      /\ sync'[p] = r
      /\ \A q \in Syncers \ {p} : sync'[q] = sync[q]
  BY <1>2, SyncKnown DEF Stat
<1>4. ProcessOK(r, size, contents, Bucket)
  <2>1. /\ r.pc = "compare" /\ r.mode = sync[p].mode /\ r.map = sync[p].map
        /\ r.asked = sync[p].asked /\ r.failed = sync[p].failed
        /\ r.todo = sync[p].todo /\ r.file = sync[p].file /\ r.size = size[r.file]
    BY SyncKnown DEF Process
  <2> HIDE DEF r
  <2>2. PlaceOK(r, size, contents, Bucket)
    <3>1. Truthful(sync[p].map, Bucket) /\ size \in [Files -> Nat]
      BY SyncKnown DEF ProcessOK, PlaceOK
    <3>2. size[r.file] <= size[r.file]
      BY <2>1, <1>1, <3>1
    <3> QED
      BY <2>1, <1>1, <3>1, <3>2 DEF PlaceOK, InFile, HasRead, HasPut
  <2>3. r.asked[r.file] <= r.size
    <3>1. \A f \in Files : sync[p].asked[f] <= size[f]
      BY SyncKnown DEF PassOK, ProcessOK
    <3> QED
      BY <2>1, <1>1, <3>1
  <2> QED
    BY <2>1, <2>2, <2>3, <1>1, <1>2, MovesOn DEF InFile
<1> HIDE DEF r
<1> QED
  BY <1>3, <1>4, LocalStep DEF Stat

\* The locals of a process that is done with a file.
DoneRec(p) ==
  [sync[p] EXCEPT !.pc = "next", !.file = NoFile, !.size = 0, !.hash = 0,
                  !.map = Empty, !.fd = "none", !.attempt = 0]

LEMMA DoneFacts ==
  ASSUME SyncIInv, NEW p \in Syncers
  PROVE  /\ DoneRec(p) \in Process
         /\ Done(p) = [sync EXCEPT ![p] = DoneRec(p)]
         /\ DoneRec(p).pc = "next" /\ DoneRec(p).map = Empty
         /\ DoneRec(p).mode = sync[p].mode /\ DoneRec(p).todo = sync[p].todo
         /\ DoneRec(p).failed = sync[p].failed /\ DoneRec(p).asked = sync[p].asked
<1>1. DoneRec(p) \in Process
  BY SyncKnown, EmptyFacts, ZenonT(60) DEF DoneRec, Process
<1>2. Done(p) = [sync EXCEPT ![p] = DoneRec(p)]
  BY SyncKnown DEF Done, DoneRec
<1> QED
  BY <1>1, <1>2, SyncKnown DEF DoneRec, Process

\* It may be done with it when the file was covered, or the process watches.
LEMMA DoneIsOK ==
  ASSUME SyncIInv, NEW p \in Syncers, sync[p].pc \in InFile,
         Covered(sync[p].file, sync[p].asked[sync[p].file], Bucket)
  PROVE  ProcessOK(DoneRec(p), size, contents, Bucket)
<1>1. PlaceOK(DoneRec(p), size, contents, Bucket)
  BY DoneFacts, EmptyFacts DEF PlaceOK, InFile, HasRead, HasPut
<1>2. PassOK(sync[p], size, Bucket)
  BY SyncKnown DEF ProcessOK
<1>3. PassOK(DoneRec(p), size, Bucket)
  BY <1>2, DoneFacts DEF PassOK, InFile, HasRead
<1> QED
  BY <1>1, <1>3 DEF ProcessOK

LEMMA CompareFingerprintKeeps ==
  ASSUME SyncIInv, NEW p \in Syncers, CompareFingerprint(p)
  PROVE  SyncIInv'
<1>1. /\ sync[p].pc = "compare" /\ sync[p].file \in Files
      /\ sync[p].mode \in {"pass", "watch"}
      /\ sync[p].asked[sync[p].file] <= sync[p].size
  BY SyncKnown DEF CompareFingerprint, ProcessOK, PlaceOK, PassOK, InFile
<1>2. CASE SkipsFile(p)
  <2> DEFINE f == sync[p].file
             entry == LoadAll[f]
  <2>1. /\ entry # NoEntry /\ entry.size = sync[p].size
        /\ <<f, entry.hash>> \in Bucket /\ entry.size <= entry.hash
    BY <1>1, <1>2, LoadAllFacts DEF SkipsFile, Truthful
  <2>2. entry.size \in Nat /\ entry.hash \in Nat /\ sync[p].asked[f] \in Nat
    <3>1. entry \in Entry
      BY <1>1, LoadAllFacts DEF StateMap
    <3>2. entry \in [hash : Nat, size : Nat]
      BY <2>1, <3>1 DEF Entry
    <3>3. sync[p].asked \in [Files -> Nat]
      BY SyncKnown DEF Process
    <3> HIDE DEF entry
    <3> QED
      BY <1>1, <3>2, <3>3
  <2>3. Covered(f, sync[p].asked[f], Bucket)
    <3> DEFINE o == <<f, entry.hash>>
    <3>1. o \in Bucket /\ o[1] = f /\ o[2] >= sync[p].asked[f]
      BY <1>1, <2>1, <2>2
    <3> QED
      BY <3>1 DEF Covered
  <2>4. ProcessOK(DoneRec(p), size, contents, Bucket)
    BY <1>1, <2>3, DoneIsOK DEF InFile
  <2>5. sync' = [sync EXCEPT ![p] = DoneRec(p)]
    BY <1>2, DoneFacts DEF CompareFingerprint
  <2>6. /\ sync' \in [Syncers -> Process]
        /\ sync'[p] = DoneRec(p)
        /\ \A q \in Syncers \ {p} : sync'[q] = sync[q]
    BY <2>5, DoneFacts, SyncKnown
  <2> QED
    BY <2>4, <2>6, LocalStep DEF CompareFingerprint
<1>3. CASE ~SkipsFile(p)
  <2> DEFINE r == [sync[p] EXCEPT !.pc = "read"]
  <2>1. r \in Process
    BY SyncKnown, ZenonT(60) DEF Process
  <2>2. sync' = [sync EXCEPT ![p].pc = "read"]
    BY <1>3 DEF CompareFingerprint, Goto
  <2>3. /\ sync' \in [Syncers -> Process]
        /\ sync'[p] = r
        /\ \A q \in Syncers \ {p} : sync'[q] = sync[q]
    BY <2>1, <2>2, SyncKnown
  <2>4. ProcessOK(r, size, contents, Bucket)
    <3>1. /\ r.pc = "read" /\ r.mode = sync[p].mode /\ r.map = sync[p].map
          /\ r.asked = sync[p].asked /\ r.failed = sync[p].failed
          /\ r.todo = sync[p].todo /\ r.file = sync[p].file /\ r.size = sync[p].size
      BY SyncKnown DEF Process
    <3> HIDE DEF r
    <3>2. PlaceOK(r, size, contents, Bucket)
      BY <3>1, <1>1, SyncKnown DEF PlaceOK, InFile, HasRead, HasPut, ProcessOK
    <3>3. PassOK(r, size, Bucket)
      BY <3>1, <1>1, SyncKnown DEF PassOK, InFile, HasRead, ProcessOK
    <3> QED
      BY <3>2, <3>3 DEF ProcessOK
  <2> HIDE DEF r
  <2> QED
    BY <2>3, <2>4, LocalStep DEF CompareFingerprint
<1> QED
  BY <1>2, <1>3

LEMMA ReadKeeps ==
  ASSUME SyncIInv, NEW p \in Syncers, Read(p)
  PROVE  SyncIInv'
<1> DEFINE r == [sync[p] EXCEPT !.pc = "hash", !.hash = size[sync[p].file]]
<1>1. /\ sync[p].pc = "read" /\ sync[p].file \in Files
      /\ sync[p].mode \in {"pass", "watch"}
      /\ sync[p].size <= size[sync[p].file]
      /\ sync[p].asked[sync[p].file] <= sync[p].size
  BY SyncKnown DEF Read, ProcessOK, PlaceOK, PassOK, InFile
<1>2. r \in Process
  BY <1>1, SyncKnown, ZenonT(60) DEF Process
<1>3. /\ sync' \in [Syncers -> Process]
      /\ sync'[p] = r
      /\ \A q \in Syncers \ {p} : sync'[q] = sync[q]
  BY <1>2, SyncKnown DEF Read
<1>4. /\ r.pc = "hash" /\ r.mode = sync[p].mode /\ r.map = sync[p].map
      /\ r.asked = sync[p].asked /\ r.failed = sync[p].failed
      /\ r.todo = sync[p].todo /\ r.file = sync[p].file /\ r.size = sync[p].size
      /\ r.hash = size[sync[p].file]
  BY SyncKnown DEF Process
<1> HIDE DEF r
<1>5. PlaceOK(r, size, contents, Bucket)
  BY <1>1, <1>4, SyncKnown DEF PlaceOK, InFile, HasRead, HasPut, ProcessOK
<1>6. ProcessOK(r, size, contents, Bucket)
  BY <1>1, <1>2, <1>4, <1>5, MovesOn DEF InFile, HasRead
<1> QED
  BY <1>3, <1>6, LocalStep DEF Read

\* What is known of a process that has read its file.
LEMMA ReadFacts ==
  ASSUME SyncIInv, NEW p \in Syncers, sync[p].pc \in HasRead
  PROVE  /\ sync[p].file \in Files /\ sync[p].mode \in {"pass", "watch"}
         /\ sync[p].size <= sync[p].hash /\ sync[p].size \in Nat /\ sync[p].hash \in Nat
         /\ sync[p].asked[sync[p].file] <= sync[p].size
         /\ sync[p].asked[sync[p].file] \in Nat
<1>1. PlaceOK(sync[p], size, contents, Bucket) /\ PassOK(sync[p], size, Bucket)
  BY SyncKnown DEF ProcessOK
<1>2. sync[p].asked \in [Files -> Nat] /\ sync[p].size \in Nat /\ sync[p].hash \in Nat
  BY SyncKnown DEF Process
<1> QED
  BY <1>1, <1>2 DEF PlaceOK, PassOK, InFile

\* A step to another place of sync_file or save.
LEMMA GotoFacts ==
  ASSUME SyncIInv, NEW p \in Syncers, NEW pc \in InFile, Goto(p, pc)
  PROVE  /\ sync' \in [Syncers -> Process]
         /\ \A q \in Syncers \ {p} : sync'[q] = sync[q]
         /\ sync'[p].pc = pc /\ sync'[p].mode = sync[p].mode
         /\ sync'[p].map = sync[p].map /\ sync'[p].asked = sync[p].asked
         /\ sync'[p].failed = sync[p].failed /\ sync'[p].todo = sync[p].todo
         /\ sync'[p].file = sync[p].file /\ sync'[p].size = sync[p].size
         /\ sync'[p].hash = sync[p].hash
<1> DEFINE r == [sync[p] EXCEPT !.pc = pc]
<1>1. r \in Process
  BY SyncKnown, ZenonT(60) DEF Process, InFile, HasRead
<1>2. sync' = [sync EXCEPT ![p] = r]
  BY DEF Goto
<1>3. /\ r.pc = pc /\ r.mode = sync[p].mode /\ r.map = sync[p].map
      /\ r.asked = sync[p].asked /\ r.failed = sync[p].failed
      /\ r.todo = sync[p].todo /\ r.file = sync[p].file /\ r.size = sync[p].size
      /\ r.hash = sync[p].hash
  BY SyncKnown DEF Process
<1> HIDE DEF r
<1>4. /\ sync' \in [Syncers -> Process]
      /\ sync'[p] = r
      /\ \A q \in Syncers \ {p} : sync'[q] = sync[q]
  BY <1>1, <1>2, SyncKnown
<1> QED
  BY <1>3, <1>4

LEMMA CompareHashKeeps ==
  ASSUME SyncIInv, NEW p \in Syncers, CompareHash(p)
  PROVE  SyncIInv'
<1> DEFINE pc == IF SameContent(p) THEN "load" ELSE "content"
<1>1. sync[p].pc = "hash" /\ Goto(p, pc) /\ pc \in {"load", "content"}
  BY DEF CompareHash, FirstPut
<1>2. pc \in InFile /\ pc \in HasRead /\ sync[p].pc \in HasRead
  BY <1>1 DEF InFile, HasRead
<1>3. pc = "load" => <<sync[p].file, sync[p].hash>> \in Bucket
  <2> SUFFICES ASSUME SameContent(p) PROVE <<sync[p].file, sync[p].hash>> \in Bucket
    OBVIOUS
  <2>1. sync[p].file \in Files
    BY <1>2, ReadFacts
  <2> QED
    BY <2>1, LoadAllFacts DEF SameContent, Truthful
<1> HIDE DEF pc
<1>4. PlaceOK(sync'[p], size, contents, Bucket)
  <2>1. Truthful(sync[p].map, Bucket)
    BY SyncKnown DEF ProcessOK, PlaceOK
  <2> QED
    BY <1>1, <1>2, <1>3, <2>1, ReadFacts, GotoFacts DEF PlaceOK, HasPut
<1>5. sync'[p] \in Process
  BY <1>1, <1>2, GotoFacts
<1>6. ProcessOK(sync'[p], size, contents, Bucket)
  BY <1>1, <1>2, <1>4, <1>5, GotoFacts, ReadFacts, MovesOn DEF InFile
<1> QED
  BY <1>1, <1>2, <1>6, GotoFacts, LocalStep DEF CompareHash

-------------------------------------------------------------------------------
\* The bucket.
LEMMA PutKeeps ==
  ASSUME SyncIInv, NEW p \in Syncers, sync[p].pc \in HasRead, UNCHANGED filesVars,
         sync' \in [Syncers -> Process],
         \A q \in Syncers \ {p} : sync'[q] = sync[q],
         UNCHANGED <<state, tmp, starts>>,
         contents' \in {contents, contents \cup {Object(p)}},
         metas' \in {metas, metas \cup {Object(p)}},
         metas' \subseteq contents',
         ProcessOK(sync'[p], size, contents', Bucket')
  PROVE  SyncIInv'
<1>1. FilesInv' /\ Grown
  BY FilesUnchanged DEF SyncIInv, SyncTypeOK, FilesInv
<1>2. /\ contents \subseteq contents' /\ metas \subseteq metas'
      /\ Bucket \subseteq Bucket' /\ size' = size
      /\ state' = state /\ tmp' = tmp /\ starts' = starts
  BY DEF Bucket, filesVars
<1>3. contents' \subseteq Files \X Nat
  <2>1. Object(p) \in Files \X Nat
    BY ReadFacts DEF Object
  <2> QED
    BY <2>1 DEF SyncIInv, SyncTypeOK
<1>4. /\ state \in FileContent /\ tmp \in FileContent
      /\ starts \in [Syncers -> 0 .. MaxStarts]
      /\ Truthful(state.map, Bucket') /\ Truthful(tmp.map, Bucket')
  BY <1>2, TruthfulGrows DEF SyncIInv, SyncTypeOK, Truths
<1> QED
  BY <1>1, <1>2, <1>3, <1>4, OneProcess

LEMMA PutContentKeeps ==
  ASSUME SyncIInv, NEW p \in Syncers, PutContent(p)
  PROVE  SyncIInv'
<1>1. /\ sync[p].pc = "content" /\ Goto(p, "meta")
      /\ contents' = contents \cup {Object(p)} /\ metas' = metas
      /\ UNCHANGED filesVars /\ UNCHANGED <<state, tmp, starts>>
  BY DEF PutContent
<1>2. sync[p].pc \in HasRead /\ sync[p].pc \in InFile /\ "meta" \in InFile \ {"stat"}
  BY <1>1 DEF HasRead, InFile
<1>3. Bucket \subseteq Bucket' /\ metas \subseteq contents
  BY <1>1 DEF Bucket, SyncIInv, Truths, EnvelopesHaveContent
<1>4. PlaceOK(sync'[p], size, contents', Bucket')
  <2>1. Truthful(sync[p].map, Bucket')
    BY <1>3, SyncKnown, TruthfulGrows DEF ProcessOK, PlaceOK
  <2> QED
    BY <1>1, <1>2, <2>1, ReadFacts, GotoFacts DEF PlaceOK, HasPut, HasRead, Object
<1>5. sync'[p] \in Process
  BY <1>1, <1>2, GotoFacts
<1>6. ProcessOK(sync'[p], size, contents', Bucket')
  BY <1>1, <1>2, <1>3, <1>4, <1>5, GotoFacts, ReadFacts, MovesOn
<1> QED
  BY <1>1, <1>2, <1>3, <1>6, GotoFacts, PutKeeps

LEMMA PutMetaKeeps ==
  ASSUME SyncIInv, NEW p \in Syncers, PutMeta(p)
  PROVE  SyncIInv'
<1>1. /\ sync[p].pc = "meta" /\ Goto(p, "load")
      /\ metas' = metas \cup {Object(p)} /\ contents' = contents
      /\ UNCHANGED filesVars /\ UNCHANGED <<state, tmp, starts>>
  BY DEF PutMeta
<1>2. sync[p].pc \in HasRead /\ sync[p].pc \in InFile /\ "load" \in InFile \ {"stat"}
  BY <1>1 DEF HasRead, InFile
<1>3. Object(p) \in contents
  BY <1>1, SyncKnown DEF ProcessOK, PlaceOK, Object
<1>4. Bucket \subseteq Bucket' /\ Object(p) \in Bucket' /\ metas' \subseteq contents'
  BY <1>1, <1>3 DEF Bucket, SyncIInv, Truths, EnvelopesHaveContent
<1>5. PlaceOK(sync'[p], size, contents', Bucket')
  <2>1. Truthful(sync[p].map, Bucket')
    BY <1>4, SyncKnown, TruthfulGrows DEF ProcessOK, PlaceOK
  <2> QED
    BY <1>1, <1>2, <1>4, <2>1, ReadFacts, GotoFacts DEF PlaceOK, HasPut, HasRead, Object
<1>6. sync'[p] \in Process
  BY <1>1, <1>2, GotoFacts
<1>7. ProcessOK(sync'[p], size, contents', Bucket')
  BY <1>1, <1>2, <1>4, <1>5, <1>6, GotoFacts, ReadFacts, MovesOn
<1>8. /\ sync' \in [Syncers -> Process]
      /\ \A q \in Syncers \ {p} : sync'[q] = sync[q]
  BY <1>1, <1>2, GotoFacts
<1>9. /\ contents' \in {contents, contents \cup {Object(p)}}
      /\ metas' \in {metas, metas \cup {Object(p)}}
  BY <1>1
<1> QED
  BY <1>1, <1>2, <1>4, <1>7, <1>8, <1>9, PutKeeps

-------------------------------------------------------------------------------
\* Failures.
RetryRec(p) ==
  [DoneRec(p) EXCEPT !.pc = "stat", !.file = sync[p].file,
                     !.attempt = sync[p].attempt + 1]

LEMMA RetryIsOK ==
  ASSUME SyncIInv, NEW p \in Syncers, sync[p].pc \in InFile, sync[p].mode = "watch"
  PROVE  /\ RetryRec(p) \in Process
         /\ Retry(p) = [sync EXCEPT ![p] = RetryRec(p)]
         /\ ProcessOK(RetryRec(p), size, contents, Bucket)
<1>1. sync[p].file \in Files /\ sync[p].attempt + 1 \in Nat
  <2>1. sync[p].file \in Files
    BY SyncKnown DEF ProcessOK, PlaceOK
  <2>2. sync[p].attempt \in Nat
    BY SyncKnown DEF Process
  <2> QED
    BY <2>1, <2>2
<1>2. RetryRec(p) \in Process
  BY <1>1, DoneFacts, ZenonT(60) DEF RetryRec, Process
<1>3. Retry(p) = [sync EXCEPT ![p] = RetryRec(p)]
  BY DoneFacts, SyncKnown DEF Retry, RetryRec
<1>4. /\ RetryRec(p).pc = "stat" /\ RetryRec(p).file = sync[p].file
      /\ RetryRec(p).map = Empty /\ RetryRec(p).mode = "watch"
      /\ RetryRec(p).failed = sync[p].failed /\ RetryRec(p).asked = sync[p].asked
  BY DoneFacts DEF RetryRec, Process
<1>5. PlaceOK(RetryRec(p), size, contents, Bucket)
  BY <1>1, <1>4, EmptyFacts DEF PlaceOK, HasRead, HasPut
<1>6. PassOK(RetryRec(p), size, Bucket)
  BY <1>4, SyncKnown DEF PassOK, HasRead, ProcessOK
<1> QED
  BY <1>2, <1>3, <1>5, <1>6 DEF ProcessOK

GivenUpRec(p) ==
  [DoneRec(p) EXCEPT !.failed =
     IF sync[p].mode = "pass" THEN @ \cup {sync[p].file} ELSE @]

LEMMA GivenUpIsOK ==
  ASSUME SyncIInv, NEW p \in Syncers, sync[p].pc \in InFile
  PROVE  /\ GivenUpRec(p) \in Process
         /\ ProcessOK(GivenUpRec(p), size, contents, Bucket)
<1>1. sync[p].file \in Files /\ sync[p].mode \in {"pass", "watch"} /\ sync[p].failed \in SUBSET Files
  BY SyncKnown DEF ProcessOK, PlaceOK, Process
<1>2. GivenUpRec(p) \in Process
  BY <1>1, DoneFacts DEF GivenUpRec, Process
<1>3. /\ GivenUpRec(p).pc = "next" /\ GivenUpRec(p).todo = sync[p].todo
      /\ GivenUpRec(p).map = Empty /\ GivenUpRec(p).mode = sync[p].mode
      /\ GivenUpRec(p).asked = sync[p].asked
      /\ sync[p].mode = "pass" => GivenUpRec(p).failed = sync[p].failed \cup {sync[p].file}
      /\ sync[p].mode = "watch" => GivenUpRec(p).failed = sync[p].failed
  BY DoneFacts DEF GivenUpRec, Process
<1>4. PlaceOK(GivenUpRec(p), size, contents, Bucket)
  BY <1>3, EmptyFacts DEF PlaceOK, InFile, HasRead, HasPut
<1>5. PassOK(sync[p], size, Bucket)
  BY SyncKnown DEF ProcessOK
<1>6. PassOK(GivenUpRec(p), size, Bucket)
  <2>1. CASE sync[p].mode = "pass"
    BY <1>1, <1>3, <1>5, <2>1 DEF PassOK, HasRead
  <2>2. CASE sync[p].mode = "watch"
    BY <1>1, <1>3, <1>5, <2>2 DEF PassOK, HasRead
  <2> QED
    BY <1>1, <2>1, <2>2
<1> QED
  BY <1>2, <1>4, <1>6 DEF ProcessOK

LEMMA FailFacts ==
  ASSUME SyncIInv, NEW p \in Syncers, sync[p].pc \in InFile, Fail(p)
  PROVE  /\ sync' \in [Syncers -> Process]
         /\ \A q \in Syncers \ {p} : sync'[q] = sync[q]
         /\ ProcessOK(sync'[p], size, contents, Bucket)
         /\ missed' \subseteq Files
<1>1. CASE sync[p].mode = "watch" /\ sync[p].attempt < Attempts
  <2>1. sync' = [sync EXCEPT ![p] = RetryRec(p)] /\ missed' = missed
    BY <1>1, RetryIsOK DEF Fail
  <2> QED
    BY <1>1, <2>1, RetryIsOK, SyncKnown DEF SyncIInv, SyncTypeOK, FilesTypeOK
<1>2. CASE ~(sync[p].mode = "watch" /\ sync[p].attempt < Attempts)
  <2>1. sync' = [sync EXCEPT ![p] = GivenUpRec(p)]
    <3>1. sync' = [Done(p) EXCEPT ![p].failed =
                     IF sync[p].mode = "pass" THEN @ \cup {sync[p].file} ELSE @]
      BY <1>2 DEF Fail
    <3> QED
      BY <3>1, DoneFacts, SyncKnown DEF GivenUpRec
  <2>2. sync[p].file \in Files
    BY SyncKnown DEF ProcessOK, PlaceOK
  <2>3. missed' \subseteq Files
    BY <1>2, <2>2 DEF Fail, SyncIInv, SyncTypeOK, FilesTypeOK
  <2> QED
    BY <2>1, <2>3, GivenUpIsOK, SyncKnown
<1> QED
  BY <1>1, <1>2

LEMMA StepFailsKeeps ==
  ASSUME SyncIInv, NEW p \in Syncers, StepFails(p)
  PROVE  SyncIInv'
<1>1. /\ sync[p].pc \in {"stat", "read", "content", "meta", "open", "write"}
      /\ Fail(p) /\ UNCHANGED <<script, size, watching, pending, channel>>
      /\ state' = state /\ tmp' = tmp /\ starts' = starts
  BY DEF StepFails
<1>2. sync[p].pc \in InFile
  BY <1>1 DEF InFile, HasRead
<1>3. /\ contents \subseteq contents' /\ metas \subseteq metas'
      /\ contents' \subseteq Files \X Nat /\ metas' \subseteq contents'
  <2>1. contents \subseteq Files \X Nat /\ metas \subseteq contents
    BY DEF SyncIInv, SyncTypeOK, Truths, EnvelopesHaveContent
  <2>2. CASE UNCHANGED <<contents, metas>>
    BY <2>1, <2>2
  <2>3. CASE /\ sync[p].pc = "content" /\ UNCHANGED metas
             /\ contents' = contents \cup {Object(p)}
    <3>1. Object(p) \in Files \X Nat
      BY <2>3, ReadFacts DEF Object, HasRead
    <3> QED
      BY <2>1, <2>3, <3>1
  <2>4. CASE /\ sync[p].pc = "meta" /\ UNCHANGED contents
             /\ metas' = metas \cup {Object(p)}
    <3>1. Object(p) \in contents
      BY <2>4, SyncKnown DEF ProcessOK, PlaceOK, Object
    <3> QED
      BY <2>1, <2>4, <3>1
  <2> QED
    BY <2>2, <2>3, <2>4 DEF StepFails
<1>4. Bucket \subseteq Bucket'
  BY <1>3 DEF Bucket
<1>5. /\ sync' \in [Syncers -> Process]
      /\ \A q \in Syncers \ {p} : sync'[q] = sync[q]
      /\ ProcessOK(sync'[p], size, contents, Bucket)
      /\ missed' \subseteq Files
  BY <1>1, <1>2, FailFacts
<1>6. FilesInv' /\ Grown
  BY <1>1, <1>5, MissKeeps DEF SyncIInv, SyncTypeOK, FilesInv
<1>7. ProcessOK(sync'[p], size', contents', Bucket')
  <2>1. size' = size /\ size \in [Files -> Nat]
    BY <1>1, SyncKnown
  <2>2. \A f \in Files : size[f] <= size[f]
    BY <2>1
  <2>3. sync'[p] \in Process
    BY <1>5
  <2> QED
    BY <1>3, <1>4, <1>5, <2>1, <2>2, <2>3, ProcessGrows
<1>8. /\ state \in FileContent /\ tmp \in FileContent
      /\ starts \in [Syncers -> 0 .. MaxStarts]
      /\ Truthful(state.map, Bucket') /\ Truthful(tmp.map, Bucket')
  BY <1>4, TruthfulGrows DEF SyncIInv, SyncTypeOK, Truths
<1> QED
  BY <1>1, <1>3, <1>5, <1>6, <1>7, <1>8, OneProcess

LEMMA RenameFailsKeeps ==
  ASSUME SyncIInv, NEW p \in Syncers, RenameFails(p)
  PROVE  SyncIInv'
<1>1. /\ sync[p].pc = "rename" /\ Fail(p)
      /\ UNCHANGED <<script, size, watching, pending, channel>>
      /\ contents' = contents /\ metas' = metas
      /\ state' = state /\ tmp' = tmp /\ starts' = starts
  BY DEF RenameFails
<1>2. /\ sync' \in [Syncers -> Process]
      /\ \A q \in Syncers \ {p} : sync'[q] = sync[q]
      /\ ProcessOK(sync'[p], size, contents, Bucket)
      /\ missed' \subseteq Files
  BY <1>1, FailFacts DEF InFile, HasRead
<1>3. FilesInv' /\ Grown
  BY <1>1, <1>2, MissKeeps DEF SyncIInv, SyncTypeOK, FilesInv
<1>4. Bucket' = Bucket /\ size' = size
  BY <1>1 DEF Bucket
<1>5. /\ contents \subseteq Files \X Nat /\ metas \subseteq contents
      /\ state \in FileContent /\ tmp \in FileContent
      /\ starts \in [Syncers -> 0 .. MaxStarts]
      /\ Truthful(state.map, Bucket) /\ Truthful(tmp.map, Bucket)
  BY DEF SyncIInv, SyncTypeOK, Truths, EnvelopesHaveContent
<1> QED
  BY <1>1, <1>2, <1>3, <1>4, <1>5, OneProcess

-------------------------------------------------------------------------------
\* JsonSyncStateStore::save.
LEMMA SaveLoadKeeps ==
  ASSUME SyncIInv, NEW p \in Syncers, SaveLoad(p)
  PROVE  SyncIInv'
<1> DEFINE map == [LoadAll EXCEPT ![sync[p].file] = NewEntry(p)]
           r == [sync[p] EXCEPT !.pc = "open", !.map = map]
<1>1. sync[p].pc = "load" /\ sync' = [sync EXCEPT ![p].pc = "open", ![p].map = map]
  BY DEF SaveLoad
<1>2. sync[p].pc \in HasRead /\ sync[p].pc \in InFile /\ "open" \in InFile \ {"stat"}
  BY <1>1 DEF HasRead, InFile
<1>3. <<sync[p].file, sync[p].hash>> \in Bucket
  BY <1>1, SyncKnown DEF ProcessOK, PlaceOK, HasPut
<1>4. map \in StateMap /\ Truthful(map, Bucket)
  <2>1. NewEntry(p) \in Entry /\ NewEntry(p).hash = sync[p].hash
          /\ NewEntry(p).size = sync[p].size
    BY <1>2, ReadFacts, NoEntryIsNone DEF NewEntry
  <2>2. LoadAll \in [Files -> Entry] /\ Truthful(LoadAll, Bucket)
    BY LoadAllFacts DEF StateMap
  <2>3. map \in StateMap
    BY <2>1, <2>2 DEF StateMap
  <2>4. sync[p].file \in Files /\ sync[p].size <= sync[p].hash
    BY <1>2, ReadFacts
  <2>5. map[sync[p].file] = NewEntry(p)
    BY <2>2, <2>4
  <2>6. \A f \in Files \ {sync[p].file} : map[f] = LoadAll[f]
    BY <2>2
  <2> HIDE DEF map
  <2>7. \A f \in Files : map[f] # NoEntry =>
           <<f, map[f].hash>> \in Bucket /\ map[f].size <= map[f].hash
    BY <1>3, <2>1, <2>2, <2>4, <2>5, <2>6 DEF Truthful
  <2> QED
    BY <2>3, <2>7 DEF Truthful
<1> HIDE DEF map
<1>5. r \in Process
  BY <1>4, SyncKnown, ZenonT(60) DEF Process
<1>6. /\ r.pc = "open" /\ r.mode = sync[p].mode /\ r.map = map
      /\ r.asked = sync[p].asked /\ r.failed = sync[p].failed
      /\ r.todo = sync[p].todo /\ r.file = sync[p].file /\ r.size = sync[p].size
      /\ r.hash = sync[p].hash
  BY SyncKnown DEF Process
<1>7. /\ sync' \in [Syncers -> Process]
      /\ sync'[p] = r
      /\ \A q \in Syncers \ {p} : sync'[q] = sync[q]
  BY <1>1, <1>5, SyncKnown
<1> HIDE DEF r
<1>8. PlaceOK(r, size, contents, Bucket)
  BY <1>2, <1>3, <1>4, <1>6, ReadFacts DEF PlaceOK, HasPut, HasRead
<1>9. ProcessOK(r, size, contents, Bucket)
  BY <1>2, <1>5, <1>6, <1>8, ReadFacts, MovesOn
<1> QED
  BY <1>7, <1>9, LocalStep DEF SaveLoad

\* A process goes from one place of save to the next and files change, to
\* what tells the truth.
LEMMA SaveStep ==
  ASSUME SyncIInv, NEW p \in Syncers, sync[p].pc \in HasPut,
         NEW pc \in HasPut, NEW fd \in {"none", "tmp", "state", "gone"},
         sync' = [sync EXCEPT ![p].pc = pc, ![p].fd = fd],
         UNCHANGED <<filesVars, contents, metas, starts>>,
         state' \in FileContent, tmp' \in FileContent,
         Truthful(state'.map, Bucket), Truthful(tmp'.map, Bucket)
  PROVE  SyncIInv'
<1> DEFINE r == [sync[p] EXCEPT !.pc = pc, !.fd = fd]
<1>1. sync[p].pc \in HasRead /\ sync[p].pc \in InFile /\ pc \in InFile \ {"stat"} /\ pc \in HasRead
  BY DEF HasRead, InFile, HasPut
<1>2. r \in Process
  BY SyncKnown, ZenonT(60) DEF Process, HasPut
<1>3. /\ r.pc = pc /\ r.mode = sync[p].mode /\ r.map = sync[p].map
      /\ r.asked = sync[p].asked /\ r.failed = sync[p].failed
      /\ r.todo = sync[p].todo /\ r.file = sync[p].file /\ r.size = sync[p].size
      /\ r.hash = sync[p].hash
  BY SyncKnown DEF Process
<1>4. /\ sync' \in [Syncers -> Process]
      /\ sync'[p] = r
      /\ \A q \in Syncers \ {p} : sync'[q] = sync[q]
  BY <1>2, SyncKnown
<1> HIDE DEF r
<1>5. PlaceOK(r, size, contents, Bucket)
  <2>1. PlaceOK(sync[p], size, contents, Bucket)
    BY SyncKnown DEF ProcessOK
  <2> QED
    BY <2>1, <1>1, <1>3, ReadFacts DEF PlaceOK, HasPut
<1>6. ProcessOK(r, size, contents, Bucket)
  BY <1>1, <1>2, <1>3, <1>5, ReadFacts, MovesOn
<1>7. FilesInv' /\ Grown
  BY FilesUnchanged DEF SyncIInv, SyncTypeOK, FilesInv
<1>8. /\ contents' = contents /\ metas' = metas /\ Bucket' = Bucket
      /\ starts' = starts /\ size' = size
  BY DEF Bucket, filesVars
<1>9. /\ contents \subseteq Files \X Nat /\ metas \subseteq contents
      /\ starts \in [Syncers -> 0 .. MaxStarts]
  BY DEF SyncIInv, SyncTypeOK, Truths, EnvelopesHaveContent
<1> QED
  BY <1>4, <1>6, <1>7, <1>8, <1>9, OneProcess

LEMMA OpenTmpKeeps ==
  ASSUME SyncIInv, NEW p \in Syncers, OpenTmp(p)
  PROVE  SyncIInv'
<1>1. /\ sync' = [sync EXCEPT ![p].pc = "write", ![p].fd = "tmp"]
      /\ sync[p].pc \in HasPut /\ "write" \in HasPut
      /\ UNCHANGED <<filesVars, contents, metas, starts>>
  BY DEF OpenTmp, HasPut
<1>2. /\ state' = state /\ state \in FileContent /\ Truthful(state.map, Bucket)
      /\ tmp' = NoMap("empty")
  BY DEF OpenTmp, SyncIInv, SyncTypeOK, Truths
<1>3. tmp' \in FileContent /\ Truthful(tmp'.map, Bucket)
  BY <1>2, ContentTypes, EmptyFacts
<1> QED
  BY <1>1, <1>2, <1>3, SaveStep

LEMMA WrittenFacts ==
  ASSUME SyncIInv, NEW p \in Syncers, NEW before, NEW after \in Written(p, before)
  PROVE  after \in FileContent /\ Truthful(after.map, Bucket)
<1>1. sync[p].map \in StateMap /\ Truthful(sync[p].map, Bucket)
  BY SyncKnown DEF ProcessOK, PlaceOK, Process
<1>2. after = Holding(sync[p].map) \/ after = NoMap("torn")
  BY DEF Written
<1> QED
  BY <1>1, <1>2, ContentTypes, EmptyFacts

LEMMA WriteTmpKeeps ==
  ASSUME SyncIInv, NEW p \in Syncers, WriteTmp(p)
  PROVE  SyncIInv'
<1>1. /\ sync' = [sync EXCEPT ![p].pc = "rename", ![p].fd = "none"]
      /\ sync[p].pc \in HasPut /\ "rename" \in HasPut
      /\ UNCHANGED <<filesVars, contents, metas, starts>>
  BY DEF WriteTmp, HasPut
<1>2. /\ state \in FileContent /\ Truthful(state.map, Bucket)
      /\ tmp \in FileContent /\ Truthful(tmp.map, Bucket)
  BY DEF SyncIInv, SyncTypeOK, Truths
<1>3. /\ state' \in FileContent /\ Truthful(state'.map, Bucket)
      /\ tmp' \in FileContent /\ Truthful(tmp'.map, Bucket)
  <2>1. CASE sync[p].fd = "tmp"
    <3>1. tmp' \in Written(p, tmp) /\ state' = state
      BY <2>1 DEF WriteTmp
    <3> QED
      BY <3>1, <1>2, WrittenFacts
  <2>2. CASE sync[p].fd = "state"
    <3>1. state' \in Written(p, state) /\ tmp' = tmp
      BY <2>2 DEF WriteTmp
    <3> QED
      BY <3>1, <1>2, WrittenFacts
  <2>3. CASE sync[p].fd \notin {"tmp", "state"}
    BY <2>3, <1>2 DEF WriteTmp
  <2> QED
    BY <2>1, <2>2, <2>3
<1> QED
  BY <1>1, <1>3, SaveStep

\* The rename ends the file's turn, and moves the descriptors of the others.
LEMMA RenameTmpKeeps ==
  ASSUME SyncIInv, NEW p \in Syncers, RenameTmp(p)
  PROVE  SyncIInv'
<1> DEFINE moved(q) == [Done(p)[q] EXCEPT !.fd = Moved(@)]
<1>1. /\ sync[p].pc = "rename" /\ state' = tmp /\ tmp' = NoMap("absent")
      /\ sync' = [q \in Syncers |-> moved(q)]
      /\ UNCHANGED <<filesVars, contents, metas, starts>>
  BY DEF RenameTmp
<1>2. sync[p].pc \in HasRead /\ sync[p].pc \in InFile
  BY <1>1 DEF HasRead, InFile
<1>3. ProcessOK(DoneRec(p), size, contents, Bucket)
  <2> DEFINE o == <<sync[p].file, sync[p].hash>>
  <2>1. o \in Bucket
    BY <1>1, SyncKnown DEF ProcessOK, PlaceOK, HasPut
  <2>2. o[1] = sync[p].file /\ o[2] >= sync[p].asked[sync[p].file]
    BY <1>2, ReadFacts
  <2>3. Covered(sync[p].file, sync[p].asked[sync[p].file], Bucket)
    BY <2>1, <2>2 DEF Covered
  <2> QED
    BY <1>2, <2>3, DoneIsOK
<1>4. \A q \in Syncers : Done(p)[q] \in Process /\ ProcessOK(Done(p)[q], size, contents, Bucket)
  BY <1>3, DoneFacts, SyncKnown
<1>5. \A q \in Syncers : moved(q) \in Process /\ ProcessOK(moved(q), size, contents, Bucket)
  <2> SUFFICES ASSUME NEW q \in Syncers
               PROVE  moved(q) \in Process /\ ProcessOK(moved(q), size, contents, Bucket)
    OBVIOUS
  <2> DEFINE r == Done(p)[q]
  <2>1. r \in Process /\ ProcessOK(r, size, contents, Bucket)
    BY <1>4
  <2> HIDE DEF r
  <2>2. Moved(r.fd) \in {"none", "tmp", "state", "gone"}
    BY <2>1 DEF Moved, Process
  <2> DEFINE m == [r EXCEPT !.fd = Moved(@)]
  <2>3. m \in Process
    BY <2>1, <2>2 DEF Process
  <2>4. /\ m.pc = r.pc /\ m.mode = r.mode /\ m.map = r.map /\ m.asked = r.asked
        /\ m.failed = r.failed /\ m.todo = r.todo /\ m.file = r.file
        /\ m.size = r.size /\ m.hash = r.hash
    BY <2>1 DEF Process
  <2> HIDE DEF m
  <2>5. PlaceOK(m, size, contents, Bucket)
    BY <2>1, <2>4 DEF ProcessOK, PlaceOK
  <2>6. PassOK(m, size, Bucket)
    BY <2>1, <2>4 DEF ProcessOK, PassOK
  <2> QED
    BY <2>3, <2>5, <2>6 DEF ProcessOK, m, r
<1> HIDE DEF moved
<1>6. /\ sync' \in [Syncers -> Process]
      /\ \A q \in Syncers : ProcessOK(sync'[q], size, contents, Bucket)
  BY <1>1, <1>5
<1>7. /\ contents' = contents /\ metas' = metas /\ Bucket' = Bucket
      /\ starts' = starts /\ size' = size
  BY <1>1 DEF Bucket, filesVars
<1>8. FilesInv' /\ Grown
  BY <1>1, FilesUnchanged DEF SyncIInv, SyncTypeOK, FilesInv
<1>9. /\ state' \in FileContent /\ Truthful(state'.map, Bucket)
      /\ tmp' \in FileContent /\ Truthful(tmp'.map, Bucket)
  BY <1>1, ContentTypes, EmptyFacts DEF SyncIInv, SyncTypeOK, Truths
<1>10. Truths'
  BY <1>6, <1>7, <1>9 DEF SyncIInv, Truths, EnvelopesHaveContent
<1>11. SyncTypeOK'
  BY <1>6, <1>7, <1>8, <1>9 DEF SyncIInv, SyncTypeOK, FilesInv
<1> QED
  BY <1>8, <1>10, <1>11 DEF SyncIInv, FilesInv

\* The agents and the watcher's timers.
LEMMA AgentsKeepIInv ==
  ASSUME SyncIInv, AgentsAndTimers, UNCHANGED uploadVars
  PROVE  SyncIInv'
<1>1. FilesInv' /\ Grown
  BY AgentsKeep DEF SyncIInv, SyncTypeOK, FilesInv
<1>2. /\ contents' = contents /\ metas' = metas /\ Bucket' = Bucket
      /\ state' = state /\ tmp' = tmp /\ starts' = starts /\ sync' = sync
  BY DEF uploadVars, Bucket
<1>3. size \in [Files -> Nat] /\ size' \in [Files -> Nat]
  BY <1>1 DEF SyncIInv, SyncTypeOK, FilesTypeOK, FilesInv
<1>4. \A q \in Syncers : ProcessOK(sync[q], size', contents, Bucket)
  <2> SUFFICES ASSUME NEW q \in Syncers
               PROVE  ProcessOK(sync[q], size', contents, Bucket)
    OBVIOUS
  <2>1. sync[q] \in Process /\ ProcessOK(sync[q], size, contents, Bucket)
    BY SyncKnown
  <2> QED
    BY <1>1, <1>3, <2>1, ProcessGrows DEF Grown
<1>5. Truths'
  BY <1>2, <1>4 DEF SyncIInv, Truths, EnvelopesHaveContent
<1>6. SyncTypeOK'
  BY <1>1, <1>2 DEF SyncIInv, SyncTypeOK, FilesInv
<1> QED
  BY <1>1, <1>5, <1>6 DEF SyncIInv, FilesInv

LEMMA SyncInitial == SyncInit => SyncIInv
<1> SUFFICES ASSUME SyncInit PROVE SyncIInv
  OBVIOUS
<1>1. FilesInv /\ size = [f \in Files |-> 0]
  BY FilesInvInit DEF SyncInit, FilesInit
<1>2. /\ contents = {} /\ metas = {} /\ state = NoMap("absent")
      /\ tmp = NoMap("absent") /\ sync = [p \in Syncers |-> NotRunning]
      /\ starts = [p \in Syncers |-> 0]
  BY DEF SyncInit, UploadInit
<1>3. NotRunning \in Process
  BY EmptyFacts DEF NotRunning, Process
<1>4. ProcessOK(NotRunning, size, contents, Bucket)
  <2>1. /\ NotRunning.pc = "off" /\ NotRunning.mode = "off"
        /\ NotRunning.map = Empty /\ NotRunning.asked = [f \in Files |-> 0]
    BY DEF NotRunning
  <2>2. PlaceOK(NotRunning, size, contents, Bucket)
    BY <2>1, EmptyFacts DEF PlaceOK, InFile, HasRead, HasPut
  <2>3. PassOK(NotRunning, size, Bucket)
    BY <2>1, <1>1 DEF PassOK, HasRead
  <2> QED
    BY <2>2, <2>3 DEF ProcessOK
<1>5. /\ state \in FileContent /\ tmp \in FileContent
      /\ Truthful(state.map, Bucket) /\ Truthful(tmp.map, Bucket)
  BY <1>2, ContentTypes, EmptyFacts
<1>6. Truths
  BY <1>2, <1>4, <1>5 DEF Truths, EnvelopesHaveContent
<1>7. SyncTypeOK
  BY <1>1, <1>2, <1>3, <1>5, MaxStartsAssumption DEF SyncTypeOK, FilesInv
<1> QED
  BY <1>1, <1>6, <1>7 DEF SyncIInv, FilesInv

LEMMA SyncInductive == SyncIInv /\ [SyncNext]_syncVars => SyncIInv'
<1> SUFFICES ASSUME SyncIInv, [SyncNext]_syncVars PROVE SyncIInv'
  OBVIOUS
<1>1. CASE AgentsAndTimers /\ UNCHANGED uploadVars
  BY <1>1, AgentsKeepIInv
<1>2. ASSUME NEW p \in Syncers, Start(p) \/ StepFails(p) \/ Kill(p) PROVE SyncIInv'
  BY <1>2, StartKeeps, StepFailsKeeps, KillKeeps
<1>3. ASSUME NEW p \in Syncers, SyncStep(p) PROVE SyncIInv'
  <2>1. CASE NextFile(p) \/ PassEnds(p) \/ ReceiveChange(p)
    BY <2>1, NextFileKeeps, PassEndsKeeps, ReceiveChangeKeeps
  <2>2. CASE Stat(p) \/ CompareFingerprint(p) \/ Read(p) \/ CompareHash(p)
    BY <2>2, StatKeeps, CompareFingerprintKeeps, ReadKeeps, CompareHashKeeps
  <2>3. CASE PutContent(p) \/ PutMeta(p) \/ SaveLoad(p) \/ OpenTmp(p)
    BY <2>3, PutContentKeeps, PutMetaKeeps, SaveLoadKeeps, OpenTmpKeeps
  <2>4. CASE WriteTmp(p) \/ RenameTmp(p) \/ RenameFails(p)
    BY <2>4, WriteTmpKeeps, RenameTmpKeeps, RenameFailsKeeps
  <2> QED
    BY <1>3, <2>1, <2>2, <2>3, <2>4 DEF SyncStep
<1>4. CASE UNCHANGED syncVars
  <2>1. FilesInv' /\ Grown
    BY <1>4, FilesUnchanged DEF syncVars, SyncIInv, SyncTypeOK, FilesInv
  <2>2. /\ contents' = contents /\ metas' = metas /\ Bucket' = Bucket /\ size' = size
        /\ state' = state /\ tmp' = tmp /\ starts' = starts /\ sync' = sync
    BY <1>4 DEF syncVars, uploadVars, filesVars, Bucket
  <2>3. SyncTypeOK'
    BY <2>1, <2>2 DEF SyncIInv, SyncTypeOK, FilesInv
  <2>4. Truths'
    BY <2>2 DEF SyncIInv, Truths, EnvelopesHaveContent
  <2> QED
    BY <2>1, <2>3, <2>4 DEF SyncIInv, FilesInv
<1> QED
  BY <1>1, <1>2, <1>3, <1>4 DEF SyncNext

LEMMA SyncInvariance == SyncSpec => []SyncIInv
<1>1. SyncInit => SyncIInv
  BY SyncInitial
<1>2. SyncIInv /\ [SyncNext]_syncVars => SyncIInv'
  BY SyncInductive
<1> QED
  BY <1>1, <1>2, PTL DEF SyncSpec

-------------------------------------------------------------------------------
\* Every value stays of its type, whatever is killed, restarted or fails.
THEOREM SyncTypeCorrect == SyncSpec => []SyncTypeOK
<1>1. SyncIInv => SyncTypeOK
  BY DEF SyncIInv
<1> QED
  BY <1>1, SyncInvariance, PTL

\* Whatever an entry of state.json makes a process skip is in the bucket, for
\* any number of processes that rewrite the file (sync_file and
\* JsonSyncStateStore::save).
THEOREM StateAlwaysTellsTruth == SyncSpec => []StateTellsTruth
<1>1. SyncIInv => StateTellsTruth
  BY LoadAllFacts DEF StateTellsTruth, Truthful, Bucket
<1> QED
  BY <1>1, SyncInvariance, PTL

\* No kill or lost answer leaves an envelope without its content
\* (S3Sink::put).
THEOREM EnvelopesAlwaysHaveContent == SyncSpec => []EnvelopesHaveContent
<1>1. SyncIInv => EnvelopesHaveContent
  BY DEF SyncIInv, Truths
<1> QED
  BY <1>1, SyncInvariance, PTL

\* A pass that reports no failure for a file left it in the bucket
\* (sync_detected and its SyncRunSummary).
THEOREM PassesAlwaysReportTruth == SyncSpec => []PassReportsTruth
<1>1. SyncIInv => PassReportsTruth
  <2> SUFFICES ASSUME SyncIInv, NEW p \in Syncers,
                      sync[p].mode = "watch" \/ sync[p].pc = "exit",
                      NEW f \in Files \ sync[p].failed, sync[p].asked[f] > 0
               PROVE  Uploaded(f, sync[p].asked[f])
    BY DEF PassReportsTruth
  <2>1. Covered(f, sync[p].asked[f], Bucket)
    BY SyncKnown DEF ProcessOK, PassOK
  <2> QED
    BY <2>1 DEF Covered, Uploaded, Bucket
<1> QED
  BY <1>1, SyncInvariance, PTL

-------------------------------------------------------------------------------
(***************************************************************************)
(* Proofs about module Capture, for any files, scripts, scan jobs and       *)
(* number of crashes.  The inductive invariant says of every task what its  *)
(* place in parse_and_store_file means: the offset it started from was that *)
(* of a saved cursor, so everything up to it is stored, and once its batch  *)
(* is inserted everything up to its new offset is.  Rows are never removed  *)
(* and transcripts only grow, so what one task knows stays true whatever    *)
(* the others do, and even a cursor that moves back skips nothing.          *)
(***************************************************************************)

\* AllStored, for rows rs and scripts sc.
StoredIn(rs, sc, f, n) ==
  \A i \in 1 .. CompleteLines(n) :
     NamesItsEvent(sc[f].lines[i]) =>
        \E r \in rs : r.file = f /\ RowKeyOf(sc[f].lines[i], r.key)

\* What task state t means, for transcripts of sizes sz.
TaskOK(t, rs, sc, sz) ==
  /\ t.pc # "idle" => t.file \in Files
  /\ t.pc \in {"read", "upsert", "save"} =>
       t.from <= sz[t.file] /\ StoredIn(rs, sc, t.file, t.from)
  /\ t.pc \in {"upsert", "save"} => t.upto <= sz[t.file]
  /\ t.pc = "save" => StoredIn(rs, sc, t.file, t.upto)

\* A scan job's file is parsed at least as far as it was complete when the
\* scan was asked for.
ReachesAsked(t, asked) ==
  t.pc \in {"upsert", "save"} =>
    CompleteLines(asked[t.file]) <= CompleteLines(t.upto)

\* How far job state j, whose task has state t, has come.
JobOK(j, t, rs, sc, sz) ==
  /\ \A f \in Files : j.asked[f] <= sz[f]
  /\ t.pc # "idle" => j.state = "running"
  /\ j.state = "running" =>
       /\ ReachesAsked(t, j.asked)
       /\ \A f \in Files \ j.failed :
            f \in j.todo \/ (t.pc # "idle" /\ t.file = f) \/ StoredIn(rs, sc, f, j.asked[f])
  /\ j.state = "complete" => \A f \in Files \ j.failed : StoredIn(rs, sc, f, j.asked[f])

CursorsOK(c, rs, sc, sz) ==
  \A f \in Files : c[f] <= sz[f] /\ StoredIn(rs, sc, f, c[f])

Meanings ==
  /\ CursorsOK(cursor, rows, script, size)
  /\ \A t \in Tasks : TaskOK(task[t], rows, script, size)
  /\ \A j \in Jobs : JobOK(job[j], task[j], rows, script, size)

CaptureIInv == CaptureTypeOK /\ WholeLines /\ Meanings

-------------------------------------------------------------------------------
\* The parsers.  Every line that names its event gets one, wherever the chunk
\* begins and ends, whose key the line determines.
LEMMA ClaudeNames ==
  ASSUME NEW s, NEW a \in Nat, NEW b \in Nat, NEW i \in a + 1 .. b,
         s[i].kind \in KindsOf("claude"), NamesItsEvent(s[i])
  PROVE  \E e \in ClaudeEvents(s, a, b) : RowKeyOf(s[i], e.key)
<1>1. CASE UsesTool(s[i])
  <2> DEFINE e == Event(<<"tool", UseId(s[i]), 0>>, i, ClaudeOutput(s, i, b))
  <2>1. e \in ClaudeEvents(s, a, b)
    BY <1>1 DEF ClaudeEvents, ClaudeToolEvents
  <2>2. e.key = <<"tool", UseId(s[i]), 0>>
    BY DEF Event
  <2>3. RowKeyOf(s[i], e.key)
    BY <1>1, <2>2 DEF RowKeyOf, UsesTool, CallKinds
  <2> QED
    BY <2>1, <2>3
<1>2. CASE s[i].kind \in {"text", "api_error"} /\ s[i].id # NoId
  <2> DEFINE e == Event(ClaudeKey(s[i], i - a), i, s[i].output)
  <2>1. i \in LinesOf(s, a, b, {"text", "api_error"})
    BY <1>2 DEF LinesOf
  <2>2. e \in ClaudeEvents(s, a, b)
    BY <2>1 DEF ClaudeEvents, ClaudeToolEvents
  <2>3. e.key = <<"tool", s[i].id, 0>>
    BY <1>2 DEF Event, ClaudeKey
  <2>4. RowKeyOf(s[i], e.key)
    BY <1>2, <2>3 DEF RowKeyOf, CallKinds
  <2> QED
    BY <2>2, <2>4
<1>3. CASE s[i].kind = "usage" /\ s[i].id # NoId
  <2> DEFINE source == TokenSource(ClaudeToolEvents(s, a, b) # {})
             key == <<source, s[i].id, IF s[i].id = NoId THEN i - a ELSE 0>>
             e == TokenEvent(key, i, ClaudeCount(s, a, b, i))
  <2>1. i \in LinesOf(s, a, b, {"usage", "unnamed usage"})
    BY <1>3 DEF LinesOf
  <2>2. e \in ClaudeEvents(s, a, b)
    BY <2>1 DEF ClaudeEvents, ClaudeTokenEvents
  <2>3. e.key = key
    BY DEF TokenEvent
  <2>4. key[1] \in {"file tokens", "session tokens"} /\ key[2] = s[i].id
    BY DEF TokenSource
  <2>5. RowKeyOf(s[i], e.key)
    BY <1>3, <2>3, <2>4 DEF RowKeyOf, CallKinds
  <2> QED
    BY <2>2, <2>5
<1> QED
  BY <1>1, <1>2, <1>3
  DEF NamesItsEvent, KindsOf, CallKinds

LEMMA CodexNames ==
  ASSUME NEW s, NEW a \in Nat, NEW b \in Nat, NEW i \in a + 1 .. b,
         s[i].kind \in CallKinds, s[i].id # NoId
  PROVE  \E e \in CodexEvents(s, a, b) : RowKeyOf(s[i], e.key)
<1> DEFINE e == Event(CodexKey(s, a, i), i, CodexEventOutput(s, a, i, b))
<1>1. i \in EventLines(s, a, b)
  BY DEF EventLines, LinesOf, CallKinds, EndKinds
<1>2. e \in CodexEvents(s, a, b)
  BY <1>1 DEF CodexEvents, CodexToolEvents
<1>3. CodexKey(s, a, i) = <<s[i].kind, s[i].id, 0>>
  BY DEF CodexKey, CallKinds, EndKinds
<1>4. e.key = <<s[i].kind, s[i].id, 0>>
  BY <1>3 DEF Event
<1>5. RowKeyOf(s[i], e.key)
  BY <1>4 DEF RowKeyOf, CallKinds
<1> QED
  BY <1>2, <1>5

LEMMA EventsHaveLines ==
  ASSUME NEW tool, NEW s, NEW a \in Nat, NEW b \in Nat, NEW e \in Parse(tool, s, a, b)
  PROVE  e.line \in Nat
<1>1. ASSUME e \in ClaudeEvents(s, a, b) PROVE e.line \in Nat
  <2>1. CASE e \in ClaudeToolEvents(s, a, b)
    <3>1. \E key, output : \E i \in a + 1 .. b : e = Event(key, i, output)
      BY <2>1 DEF ClaudeToolEvents, LinesOf
    <3> QED
      BY <3>1 DEF Event
  <2>2. CASE e \in ClaudeTokenEvents(s, a, b)
    <3>1. \E key, count : \E i \in a + 1 .. b : e = TokenEvent(key, i, count)
      BY <2>2 DEF ClaudeTokenEvents, LinesOf
    <3> QED
      BY <3>1 DEF TokenEvent
  <2> QED
    BY <1>1, <2>1, <2>2 DEF ClaudeEvents
<1>2. ASSUME e \in CodexEvents(s, a, b) PROVE e.line \in Nat
  <2>1. CASE e \in CodexToolEvents(s, a, b)
    <3>1. \E key, output : \E i \in a + 1 .. b : e = Event(key, i, output)
      BY <2>1 DEF CodexToolEvents, EventLines, LinesOf
    <3> QED
      BY <3>1 DEF Event
  <2>2. CASE e \in CodexTokenEvents(s, a, b)
    <3>1. \E key, count : \E i \in a + 1 .. b : e = TokenEvent(key, i, count)
      BY <2>2 DEF CodexTokenEvents, LinesOf
    <3> QED
      BY <3>1 DEF TokenEvent
  <2> QED
    BY <1>2, <2>1, <2>2 DEF CodexEvents
<1> QED
  BY <1>1, <1>2 DEF Parse

LEMMA LinesAreNamed ==
  ASSUME NEW s, NEW a \in Nat, NEW b \in Nat, NEW i \in a + 1 .. b,
         NEW tool \in {"claude", "codex"},
         s[i].kind \in KindsOf(tool), NamesItsEvent(s[i])
  PROVE  \E e \in Parse(tool, s, a, b) : RowKeyOf(s[i], e.key)
<1>1. CASE tool = "claude"
  BY <1>1, ClaudeNames DEF Parse
<1>2. CASE tool = "codex"
  <2>1. s[i].kind \in CallKinds /\ s[i].id # NoId
    BY <1>2 DEF KindsOf, NamesItsEvent, UsesTool, CallKinds, ResultKinds, OutputKinds,
                EndKinds, MessageKinds
  <2> QED
    BY <1>2, <2>1, CodexNames DEF Parse
<1> QED
  BY <1>1, <1>2

-------------------------------------------------------------------------------
\* The last and the first result of a call are results of that call.
LEMMA LeastNatural ==
  ASSUME NEW T \in SUBSET Nat, T # {}
  PROVE  \E x \in T : \A y \in T : x <= y
<1> DEFINE R == {ss \in Nat \X Nat : ss[1] < ss[2]}
<1>1. IsWellFoundedOn(R, Nat)
  BY NatLessThanWellFounded DEF OpToRel
<1>2. PICK x \in T : \A y \in T : <<y, x>> \notin R
  <2> HIDE DEF R
  <2> QED
    BY <1>1, WFMin
<1>3. \A y \in T : x <= y
  <2> SUFFICES ASSUME NEW y \in T PROVE x <= y
    OBVIOUS
  <2>1. <<y, x>> \in Nat \X Nat /\ <<y, x>> \notin R
    BY <1>2
  <2> QED
    BY <2>1
<1> QED
  BY <1>3

LEMMA MaxIsMember ==
  ASSUME NEW b \in Nat, NEW T \in SUBSET (0 .. b), T # {}
  PROVE  Max(T) \in T
<1> DEFINE D == {b - x : x \in T}
<1>1. D \in SUBSET Nat
  <2> SUFFICES ASSUME NEW x \in T PROVE b - x \in Nat
    OBVIOUS
  <2>1. x \in 0 .. b
    OBVIOUS
  <2> QED
    BY <2>1
<1>2. PICK d \in D : \A y \in D : d <= y
  <2>1. D # {}
    OBVIOUS
  <2> HIDE DEF D
  <2> QED
    BY <1>1, <2>1, LeastNatural
<1>3. PICK x \in T : d = b - x
  OBVIOUS
<1>4. \A y \in T : x >= y
  <2> SUFFICES ASSUME NEW y \in T PROVE x >= y
    OBVIOUS
  <2>1. b - x <= b - y
    BY <1>2, <1>3
  <2> QED
    BY <2>1
<1> QED
  BY <1>4 DEF Max

\* What a parser says of an output, for an event or row e of lines 1 to b: it is
\* its own line's or that of a line with the id that names e.
Belongs(s, b, e) ==
  e.output # NoOutput =>
    \E i \in 1 .. b : (i = e.line \/ s[i].id = e.key[2]) /\ s[i].output = e.output

LEMMA ClaudeResult ==
  ASSUME NEW s, NEW a \in Nat, NEW b \in Nat, NEW i \in a + 1 .. b,
         ClaudeOutput(s, i, b) # NoOutput
  PROVE  \E j \in 1 .. b : s[j].id = UseId(s[i]) /\ s[j].output = ClaudeOutput(s, i, b)
<1> DEFINE results == ClaudeResults(s, i, b)
<1>1. results # {} /\ ClaudeOutput(s, i, b) = s[Max(results)].output
  BY DEF ClaudeOutput
<1>2. results \in SUBSET (0 .. b) /\ \A j \in results : j \in 1 .. b /\ s[j].id = UseId(s[i])
  BY DEF ClaudeResults, LinesOf
<1> HIDE DEF results
<1>3. Max(results) \in results
  BY <1>1, <1>2, MaxIsMember
<1> QED
  BY <1>1, <1>2, <1>3

LEMMA CodexResult ==
  ASSUME NEW s, NEW a \in Nat, NEW b \in Nat, NEW i \in a + 1 .. b,
         CodexOutput(s, a, i, b) # NoOutput
  PROVE  \E j \in 1 .. b : s[j].id = s[i].id /\ s[j].output = CodexOutput(s, a, i, b)
<1> DEFINE results == {j \in LinesOf(s, i, b, OutputKinds) : i \in PendingCall(s, a, j)}
<1>1. results # {} /\ CodexOutput(s, a, i, b) = s[CHOOSE j \in results : TRUE].output
  BY DEF CodexOutput
<1>2. \A j \in results : j \in 1 .. b /\ s[j].id = s[i].id
  BY DEF LinesOf, PendingCall
<1> HIDE DEF results
<1>3. (CHOOSE j \in results : TRUE) \in results
  BY <1>1
<1> QED
  BY <1>1, <1>2, <1>3

LEMMA ClaudeBelongs ==
  ASSUME NEW s, NEW a \in Nat, NEW b \in Nat, NEW e \in ClaudeEvents(s, a, b)
  PROVE  Belongs(s, b, e)
<1>1. CASE e \in ClaudeTokenEvents(s, a, b)
  <2>1. \E key, line, count : e = TokenEvent(key, line, count)
    BY <1>1 DEF ClaudeTokenEvents
  <2>2. e.output = NoOutput
    BY <2>1 DEF TokenEvent
  <2> QED
    BY <2>2 DEF Belongs
<1>2. CASE e \in {Event(<<"tool", UseId(s[i]), 0>>, i, ClaudeOutput(s, i, b)) :
                    i \in {k \in a + 1 .. b : UsesTool(s[k])}}
  <2>1. PICK i \in a + 1 .. b :
           e = Event(<<"tool", UseId(s[i]), 0>>, i, ClaudeOutput(s, i, b))
    BY <1>2
  <2>2. e.key[2] = UseId(s[i]) /\ e.output = ClaudeOutput(s, i, b)
    BY <2>1 DEF Event
  <2> QED
    BY <2>2, ClaudeResult DEF Belongs
<1>3. CASE e \in {Event(ClaudeKey(s[i], i - a), i, s[i].output) :
                    i \in LinesOf(s, a, b, {"text", "api_error"})}
  <2>1. PICK i \in LinesOf(s, a, b, {"text", "api_error"}) :
           e = Event(ClaudeKey(s[i], i - a), i, s[i].output)
    BY <1>3
  <2>2. i \in 1 .. b /\ e.line = i /\ e.output = s[i].output
    BY <2>1 DEF Event, LinesOf
  <2> QED
    BY <2>2 DEF Belongs
<1> QED
  BY <1>1, <1>2, <1>3 DEF ClaudeEvents, ClaudeToolEvents

LEMMA CodexBelongs ==
  ASSUME NEW s, NEW a \in Nat, NEW b \in Nat, NEW e \in CodexEvents(s, a, b)
  PROVE  Belongs(s, b, e)
<1>1. CASE e \in CodexTokenEvents(s, a, b)
  <2>1. e.output = NoOutput
    BY <1>1 DEF CodexTokenEvents, TokenEvent
  <2> QED
    BY <2>1 DEF Belongs
<1>2. CASE e \in CodexToolEvents(s, a, b)
  <2>1. PICK i \in EventLines(s, a, b) :
           e = Event(CodexKey(s, a, i), i, CodexEventOutput(s, a, i, b))
    BY <1>2 DEF CodexToolEvents
  <2>2. /\ i \in a + 1 .. b /\ e.key = CodexKey(s, a, i) /\ e.line = i
        /\ e.output = CodexEventOutput(s, a, i, b)
    BY <2>1 DEF Event, EventLines, LinesOf
  <2>3. CASE s[i].kind \in CallKinds
    <3>1. CodexKey(s, a, i)[2] = s[i].id
      BY <2>3 DEF CodexKey, CallKinds, EndKinds
    <3>2. e.output = CodexOutput(s, a, i, b)
      BY <2>2, <2>3 DEF CodexEventOutput
    <3> QED
      BY <2>2, <3>1, <3>2, CodexResult DEF Belongs
  <2>4. CASE s[i].kind \notin CallKinds
    <3>1. e.output \in {NoOutput, s[i].output}
      BY <2>2, <2>4 DEF CodexEventOutput
    <3> QED
      BY <2>2, <3>1 DEF Belongs
  <2> QED
    BY <2>3, <2>4
<1> QED
  BY <1>1, <1>2 DEF CodexEvents

-------------------------------------------------------------------------------
\* What is stored stays stored, and less of it is stored all the more.
LEMMA CompleteLinesMonotone ==
  ASSUME NEW m \in Nat, NEW n \in Nat, m <= n
  PROVE  /\ CompleteLines(m) \in Nat /\ CompleteLines(n) \in Nat
         /\ CompleteLines(m) <= CompleteLines(n)
BY DEF CompleteLines

LEMMA StoredShorter ==
  ASSUME NEW rs, NEW sc, NEW f, NEW m \in Nat, NEW n \in Nat,
         CompleteLines(m) <= CompleteLines(n), StoredIn(rs, sc, f, n)
  PROVE  StoredIn(rs, sc, f, m)
<1>1. CompleteLines(m) \in Nat /\ CompleteLines(n) \in Nat
  BY CompleteLinesMonotone
<1> QED
  BY <1>1 DEF StoredIn

LEMMA NothingToStore ==
  ASSUME NEW rs, NEW sc, NEW f
  PROVE  StoredIn(rs, sc, f, 0)
<1>1. CompleteLines(0) = 0
  BY DEF CompleteLines
<1> QED
  BY <1>1 DEF StoredIn

LEMMA StoredStays ==
  ASSUME NEW rs, NEW ss, NEW sc, NEW f, NEW n, rs \subseteq ss, StoredIn(rs, sc, f, n)
  PROVE  StoredIn(ss, sc, f, n)
BY DEF StoredIn

LEMMA TaskStays ==
  ASSUME NEW t \in TaskState, NEW rs, NEW ss, NEW sc,
         NEW sz \in [Files -> Nat], NEW zz \in [Files -> Nat],
         rs \subseteq ss, \A f \in Files : sz[f] <= zz[f], TaskOK(t, rs, sc, sz)
  PROVE  TaskOK(t, ss, sc, zz)
<1>1. t.from \in Nat /\ t.upto \in Nat
  BY DEF TaskState
<1>2. \A f, n : StoredIn(rs, sc, f, n) => StoredIn(ss, sc, f, n)
  BY StoredStays
<1> QED
  BY <1>1, <1>2 DEF TaskOK

LEMMA JobStays ==
  ASSUME NEW j \in JobState, NEW t, NEW rs, NEW ss, NEW sc,
         NEW sz \in [Files -> Nat], NEW zz \in [Files -> Nat],
         rs \subseteq ss, \A f \in Files : sz[f] <= zz[f], JobOK(j, t, rs, sc, sz)
  PROVE  JobOK(j, t, ss, sc, zz)
<1>1. j.asked \in [Files -> Nat]
  BY DEF JobState
<1>2. \A f, n : StoredIn(rs, sc, f, n) => StoredIn(ss, sc, f, n)
  BY StoredStays
<1>3. \A f \in Files : j.asked[f] <= zz[f]
  BY <1>1 DEF JobOK
<1> QED
  BY <1>2, <1>3 DEF JobOK

LEMMA CursorsStay ==
  ASSUME NEW c \in [Files -> Nat], NEW rs, NEW ss, NEW sc,
         NEW sz \in [Files -> Nat], NEW zz \in [Files -> Nat],
         rs \subseteq ss, \A f \in Files : sz[f] <= zz[f], CursorsOK(c, rs, sc, sz)
  PROVE  CursorsOK(c, ss, sc, zz)
<1>1. \A f, n : StoredIn(rs, sc, f, n) => StoredIn(ss, sc, f, n)
  BY StoredStays
<1> QED
  BY <1>1 DEF CursorsOK

LEMMA IdleFacts ==
  /\ IdleTask \in TaskState /\ IdleTask.pc = "idle"
  /\ \A rs, sc, sz : TaskOK(IdleTask, rs, sc, sz)
BY DEF IdleTask, TaskState, TaskOK

LEMMA NewJobFacts ==
  /\ NewJob \in JobState /\ NewJob.state = "none"
  /\ NewJob.asked = [f \in Files |-> 0]
  /\ NewJob.todo = {} /\ NewJob.failed = {} /\ NewJob.force = FALSE
BY DEF NewJob, JobState

LEMMA CaptureKnown ==
  ASSUME CaptureIInv
  PROVE  /\ FilesInv /\ size \in [Files -> Nat] /\ cursor \in [Files -> Nat]
         /\ task \in [Tasks -> TaskState] /\ job \in [Jobs -> JobState]
         /\ \A t \in Tasks : task[t] \in TaskState /\ TaskOK(task[t], rows, script, size)
         /\ \A j \in Jobs : /\ job[j] \in JobState
                            /\ JobOK(job[j], task[j], rows, script, size)
         /\ Jobs \subseteq Tasks
         /\ \A r \in rows : r.file \in Files
         /\ script \in Scripts /\ serving \in BOOLEAN /\ crashes \in 0 .. MaxCrashes
         /\ CursorsOK(cursor, rows, script, size)
BY DEF CaptureIInv, CaptureTypeOK, FilesTypeOK, FilesInv, Meanings, Tasks

-------------------------------------------------------------------------------
\* A step in which only task t and its job, if it is one, move: what has to be
\* shown.  The database and the transcripts may have grown.
LEMMA OneTask ==
  ASSUME CaptureIInv, NEW t \in Tasks, FilesInv', Grown, script' = script,
         rows \subseteq rows', \A r \in rows' : r.file \in Files,
         cursor' \in [Files -> Nat], CursorsOK(cursor', rows', script, size'),
         task' \in [Tasks -> TaskState], job' \in [Jobs -> JobState],
         \A u \in Tasks \ {t} : task'[u] = task[u],
         \A j \in Jobs \ {t} : job'[j] = job[j],
         serving' \in BOOLEAN, crashes' \in 0 .. MaxCrashes,
         TaskOK(task'[t], rows', script, size'),
         t \in Jobs => JobOK(job'[t], task'[t], rows', script, size')
  PROVE  CaptureIInv'
<1>1. size' \in [Files -> Nat] /\ \A f \in Files : size[f] <= size'[f]
  BY DEF FilesInv, FilesTypeOK, Grown
<1>2. \A u \in Tasks : TaskOK(task'[u], rows', script, size')
  BY <1>1, CaptureKnown, TaskStays
<1>3. \A j \in Jobs : JobOK(job'[j], task'[j], rows', script, size')
  <2> SUFFICES ASSUME NEW j \in Jobs \ {t}
               PROVE  JobOK(job'[j], task'[j], rows', script, size')
    OBVIOUS
  <2>1. j \in Tasks \ {t}
    BY CaptureKnown
  <2>2. job'[j] = job[j] /\ task'[j] = task[j]
    BY <2>1
  <2>3. JobOK(job[j], task[j], rows', script, size')
    BY <1>1, CaptureKnown, JobStays
  <2> QED
    BY <2>2, <2>3
<1>4. Meanings'
  BY <1>2, <1>3 DEF Meanings
<1>5. CaptureTypeOK'
  BY DEF CaptureTypeOK, FilesInv
<1> QED
  BY <1>4, <1>5 DEF CaptureIInv, FilesInv

\* One that leaves the transcripts and the database alone as well.
LEMMA LocalTask ==
  ASSUME CaptureIInv, NEW t \in Tasks, FilesInv', Grown, UNCHANGED <<script, size>>,
         UNCHANGED <<rows, cursor, serving, crashes>>,
         task' \in [Tasks -> TaskState], job' \in [Jobs -> JobState],
         \A u \in Tasks \ {t} : task'[u] = task[u],
         \A j \in Jobs \ {t} : job'[j] = job[j],
         TaskOK(task'[t], rows, script, size),
         t \in Jobs => JobOK(job'[t], task'[t], rows, script, size)
  PROVE  CaptureIInv'
<1>1. /\ script' = script /\ size' = size /\ rows' = rows /\ cursor' = cursor
      /\ serving' = serving /\ crashes' = crashes
  OBVIOUS
<1>2. /\ \A r \in rows : r.file \in Files
      /\ cursor \in [Files -> Nat] /\ CursorsOK(cursor, rows, script, size)
      /\ serving \in BOOLEAN /\ crashes \in 0 .. MaxCrashes
  BY CaptureKnown
<1> QED
  BY <1>1, <1>2, OneTask

LEMMA SameFiles ==
  ASSUME CaptureIInv, UNCHANGED filesVars
  PROVE  FilesInv' /\ Grown /\ script' = script /\ size' = size
BY CaptureKnown, FilesUnchanged DEF filesVars

\* The effect of a step that gives task t the state s.
LEMMA TaskMoves ==
  ASSUME CaptureIInv, NEW t \in Tasks, NEW s \in TaskState, task' = [task EXCEPT ![t] = s]
  PROVE  /\ task' \in [Tasks -> TaskState] /\ task'[t] = s
         /\ \A u \in Tasks \ {t} : task'[u] = task[u]
BY CaptureKnown

\* A task that is done with its file: its job may go on when the file was
\* stored as far as the job asked.
LEMMA DoneWithFile ==
  ASSUME NEW j \in JobState, NEW t, NEW rs, NEW sc, NEW sz,
         t.pc # "idle", JobOK(j, t, rs, sc, sz),
         j.state = "running" => StoredIn(rs, sc, t.file, j.asked[t.file])
  PROVE  JobOK(j, IdleTask, rs, sc, sz)
BY IdleFacts DEF JobOK, ReachesAsked

\* A task that goes on with its file.
LEMMA GoesOnWithFile ==
  ASSUME NEW j \in JobState, NEW t, NEW u, NEW rs, NEW sc, NEW sz,
         t.pc # "idle", u.pc # "idle", u.file = t.file, JobOK(j, t, rs, sc, sz),
         j.state = "running" => ReachesAsked(u, j.asked)
  PROVE  JobOK(j, u, rs, sc, sz)
BY DEF JobOK

LEMMA LoadCursorKeeps ==
  ASSUME CaptureIInv, NEW t \in Tasks, LoadCursor(t)
  PROVE  CaptureIInv'
<1>1. PICK stored \in {cursor[task[t].file], 0} :
        task' = [task EXCEPT ![t].pc = "read",
                             ![t].from = IF task[t].force THEN 0 ELSE stored]
  BY DEF LoadCursor
<1> DEFINE from == IF task[t].force THEN 0 ELSE stored
           s == [task[t] EXCEPT !.pc = "read", !.from = from]
<1>2. task[t].pc = "load" /\ task[t].file \in Files
  BY CaptureKnown DEF LoadCursor, TaskOK
<1>3. /\ from \in Nat /\ from <= size[task[t].file]
      /\ StoredIn(rows, script, task[t].file, from)
  <2>1. CASE from = 0
    BY <1>2, <2>1, CaptureKnown, NothingToStore
  <2>2. CASE from = cursor[task[t].file]
    BY <1>2, <2>2, CaptureKnown DEF CursorsOK
  <2> QED
    BY <2>1, <2>2
<1> HIDE DEF from
<1>4. s \in TaskState
  BY <1>3, CaptureKnown DEF TaskState
<1>5. s.pc = "read" /\ s.file = task[t].file /\ s.from = from
  BY CaptureKnown DEF TaskState
<1>6. task' = [task EXCEPT ![t] = s]
  BY <1>1 DEF from
<1> HIDE DEF s
<1>7. TaskOK(s, rows, script, size)
  BY <1>2, <1>3, <1>5 DEF TaskOK
<1>8. t \in Jobs => JobOK(job[t], s, rows, script, size)
  BY <1>2, <1>5, CaptureKnown, GoesOnWithFile DEF ReachesAsked
<1>9. UNCHANGED <<filesVars, rows, cursor, job, serving, crashes>>
  BY DEF LoadCursor
<1>10. job' \in [Jobs -> JobState] /\ job' = job
  BY <1>9, CaptureKnown
<1> QED
  BY <1>4, <1>6, <1>7, <1>8, <1>9, <1>10, TaskMoves, SameFiles, LocalTask

LEMMA SkipFileKeeps ==
  ASSUME CaptureIInv, NEW t \in Tasks, SkipFile(t)
  PROVE  CaptureIInv'
<1> DEFINE f == task[t].file
<1>1. /\ task[t].pc = "read" /\ f \in Files /\ size[f] <= task[t].from
      /\ StoredIn(rows, script, f, task[t].from)
  BY CaptureKnown DEF SkipFile, NotGrown, TaskOK
<1>2. task' = [task EXCEPT ![t] = IdleTask]
  BY DEF SkipFile, Finish
<1>3. t \in Jobs => JobOK(job[t], IdleTask, rows, script, size)
  <2> SUFFICES ASSUME t \in Jobs PROVE JobOK(job[t], IdleTask, rows, script, size)
    OBVIOUS
  <2>1. /\ job[t] \in JobState /\ JobOK(job[t], task[t], rows, script, size)
        /\ task[t] \in TaskState /\ size[f] \in Nat
    BY <1>1, CaptureKnown
  <2>2. job[t].asked[f] \in Nat /\ job[t].asked[f] <= size[f] /\ task[t].from \in Nat
    BY <1>1, <2>1 DEF JobOK, JobState, TaskState
  <2>3. CompleteLines(job[t].asked[f]) <= CompleteLines(task[t].from)
    <3>1. job[t].asked[f] <= task[t].from
      BY <1>1, <2>1, <2>2
    <3> QED
      BY <2>2, <3>1, CompleteLinesMonotone
  <2>4. StoredIn(rows, script, f, job[t].asked[f])
    BY <1>1, <2>2, <2>3, StoredShorter
  <2> QED
    BY <1>1, <2>1, <2>4, DoneWithFile
<1>4. UNCHANGED <<filesVars, rows, cursor, job, serving, crashes>>
  BY DEF SkipFile
<1>5. job' \in [Jobs -> JobState] /\ job' = job
  BY <1>4, CaptureKnown
<1> QED
  BY <1>2, <1>3, <1>4, <1>5, IdleFacts, TaskMoves, SameFiles, LocalTask

LEMMA ParsedFacts ==
  ASSUME NEW n \in Nat
  PROVE  /\ 2 * CompleteLines(n) \in Nat /\ 2 * CompleteLines(n) <= n
         /\ CompleteLines(2 * CompleteLines(n)) = CompleteLines(n)
BY DEF CompleteLines

LEMMA ParseFileKeeps ==
  ASSUME CaptureIInv, NEW t \in Tasks, ParseFile(t)
  PROVE  CaptureIInv'
<1> DEFINE f == task[t].file
           upto == ParsedUpTo(f)
           s == [task[t] EXCEPT !.pc = "upsert", !.upto = upto]
<1>1. /\ task[t].pc = "read" /\ f \in Files /\ task[t].from <= size[f]
      /\ StoredIn(rows, script, f, task[t].from)
  BY CaptureKnown DEF ParseFile, TaskOK
<1>2. size[f] \in Nat
  BY <1>1, CaptureKnown
<1>3. /\ upto \in Nat /\ upto <= size[f]
      /\ CompleteLines(upto) = CompleteLines(size[f])
  BY <1>2, ParsedFacts DEF ParsedUpTo
<1>4. task' = [task EXCEPT ![t] = s]
  BY DEF ParseFile
<1> HIDE DEF upto
<1>5. s \in TaskState
  BY <1>3, CaptureKnown DEF TaskState
<1>6. s.pc = "upsert" /\ s.file = f /\ s.from = task[t].from /\ s.upto = upto
  BY CaptureKnown DEF TaskState
<1> HIDE DEF s
<1>7. TaskOK(s, rows, script, size)
  BY <1>1, <1>3, <1>6 DEF TaskOK
<1>8. t \in Jobs => JobOK(job[t], s, rows, script, size)
  <2> SUFFICES ASSUME t \in Jobs PROVE JobOK(job[t], s, rows, script, size)
    OBVIOUS
  <2>1. job[t] \in JobState /\ JobOK(job[t], task[t], rows, script, size)
    BY CaptureKnown
  <2>2. job[t].asked[f] \in Nat /\ job[t].asked[f] <= size[f]
    BY <1>1, <2>1 DEF JobOK, JobState
  <2>3. CompleteLines(job[t].asked[f]) <= CompleteLines(size[f])
    BY <1>2, <2>2, CompleteLinesMonotone
  <2>4. ReachesAsked(s, job[t].asked)
    BY <1>3, <1>6, <2>3 DEF ReachesAsked
  <2> QED
    BY <1>1, <1>6, <2>1, <2>4, GoesOnWithFile
<1>9. UNCHANGED <<filesVars, rows, cursor, job, serving, crashes>>
  BY DEF ParseFile
<1>10. job' \in [Jobs -> JobState] /\ job' = job
  BY <1>9, CaptureKnown
<1> QED
  BY <1>4, <1>5, <1>7, <1>8, <1>9, <1>10, TaskMoves, SameFiles, LocalTask

\* INSERT OR IGNORE leaves a row with the key of every event of the batch: one
\* that was there, or that of the first event with the key.
LEMMA KeyIsStored ==
  ASSUME CaptureIInv, NEW t \in Tasks, task[t].pc = "upsert", NEW r \in Batch(t)
  PROVE  \E q \in rows \cup Fresh(Batch(t)) : q.file = task[t].file /\ q.key = r.key
<1> DEFINE f == task[t].file
           same == {q \in Batch(t) : q.key = r.key}
           places == {q.line : q \in same}
<1>1. \A q \in Batch(t) : q.file = f /\ q.line \in Nat
  <2>1. CompleteLines(task[t].from) \in Nat /\ CompleteLines(task[t].upto) \in Nat
    <3>1. task[t].from \in Nat /\ task[t].upto \in Nat
      BY CaptureKnown DEF TaskState
    <3> QED
      BY <3>1, CompleteLinesMonotone
  <2> SUFFICES ASSUME NEW q \in Batch(t) PROVE q.file = f /\ q.line \in Nat
    OBVIOUS
  <2>2. PICK e \in Parse(script[f].tool, script[f].lines, CompleteLines(task[t].from),
                         CompleteLines(task[t].upto)) :
           q = [file |-> f, key |-> e.key, line |-> e.line, output |-> e.output,
                count |-> e.count]
    BY DEF Batch
  <2>3. e.line \in Nat
    BY <2>1, <2>2, EventsHaveLines
  <2> QED
    BY <2>2, <2>3
<1>2. CASE HasRow(f, r.key)
  BY <1>2 DEF HasRow
<1>3. CASE ~HasRow(f, r.key)
  <2>1. places \in SUBSET Nat /\ places # {}
    BY <1>1
  <2>2. PICK n \in places : \A m \in places : n <= m
    <3> HIDE DEF places
    <3> QED
      BY <2>1, LeastNatural
  <2>3. PICK q \in same : q.line = n
    OBVIOUS
  <2>4. q \in Fresh(Batch(t))
    BY <1>1, <1>3, <2>2, <2>3 DEF Fresh
  <2> QED
    BY <1>1, <2>3, <2>4
<1> QED
  BY <1>2, <1>3

\* The batch of a task has a row for every line of its chunk that names its
\* event, and INSERT OR IGNORE leaves one with that key in the database.
LEMMA BatchIsStored ==
  ASSUME CaptureIInv, NEW t \in Tasks, task[t].pc = "upsert"
  PROVE  StoredIn(rows \cup Fresh(Batch(t)), script, task[t].file, task[t].upto)
<1> DEFINE f == task[t].file
           a == CompleteLines(task[t].from)
           b == CompleteLines(task[t].upto)
           lines == script[f].lines
           after == rows \cup Fresh(Batch(t))
<1>1. f \in Files /\ StoredIn(rows, script, f, task[t].from) /\ task[t].upto <= size[f]
  BY CaptureKnown DEF TaskOK
<1>2. a \in Nat /\ b \in Nat
  <2>1. task[t].from \in Nat /\ task[t].upto \in Nat
    BY CaptureKnown DEF TaskState
  <2> QED
    BY <2>1, CompleteLinesMonotone
<1>3. b <= Len(lines) /\ Len(lines) \in Nat
  <2>1. Len(lines) \in Nat /\ size[f] <= 2 * Len(lines) /\ size[f] \in Nat
    BY <1>1, CaptureKnown, ScriptFacts DEF FilesInv, FilesTypeOK
  <2>2. task[t].upto \in Nat
    BY CaptureKnown DEF TaskState
  <2> HIDE DEF lines
  <2> QED
    BY <1>1, <2>1, <2>2 DEF CompleteLines
<1> SUFFICES ASSUME NEW i \in 1 .. b, NamesItsEvent(lines[i])
             PROVE  \E r \in after : r.file = f /\ RowKeyOf(lines[i], r.key)
  BY DEF StoredIn
<1>4. CASE i <= a
  <2>1. i \in 1 .. a
    BY <1>2, <1>4
  <2>2. \E r \in rows : r.file = f /\ RowKeyOf(lines[i], r.key)
    BY <1>1, <2>1 DEF StoredIn
  <2> QED
    BY <2>2
<1>5. CASE i > a
  <2>1. i \in a + 1 .. b /\ i \in 1 .. Len(lines)
    BY <1>2, <1>3, <1>5
  <2>2. script[f].tool \in {"claude", "codex"} /\ lines[i].kind \in KindsOf(script[f].tool)
    BY <1>1, <2>1, CaptureKnown, LinesAssumption
  <2>3. PICK e \in Parse(script[f].tool, lines, a, b) : RowKeyOf(lines[i], e.key)
    <3> HIDE DEF a, b, lines
    <3> QED
      BY <1>2, <2>1, <2>2, LinesAreNamed
  <2> DEFINE r == [file |-> f, key |-> e.key, line |-> e.line, output |-> e.output,
                   count |-> e.count]
  <2>4. r \in Batch(t)
    BY <2>3 DEF Batch
  <2>5. r.key = e.key
    OBVIOUS
  <2> HIDE DEF r
  <2>6. PICK q \in after : q.file = f /\ q.key = e.key
    BY <2>4, <2>5, KeyIsStored
  <2> QED
    BY <2>3, <2>6
<1> QED
  BY <1>2, <1>4, <1>5

LEMMA UpsertEventsKeeps ==
  ASSUME CaptureIInv, NEW t \in Tasks, UpsertEvents(t)
  PROVE  CaptureIInv'
<1> DEFINE s == [task[t] EXCEPT !.pc = "save"]
<1>1. /\ task[t].pc = "upsert" /\ rows' = rows \cup Fresh(Batch(t))
      /\ UNCHANGED <<filesVars, cursor, job, serving, crashes>>
      /\ task' = [task EXCEPT ![t] = s]
  BY DEF UpsertEvents
<1>2. s \in TaskState
  BY CaptureKnown DEF TaskState
<1>3. /\ s.pc = "save" /\ s.file = task[t].file /\ s.from = task[t].from
      /\ s.upto = task[t].upto
  BY CaptureKnown DEF TaskState
<1> HIDE DEF s
<1>4. rows \subseteq rows' /\ \A r \in rows' : r.file \in Files
  <2>1. task[t].file \in Files
    BY <1>1, CaptureKnown DEF TaskOK
  <2>2. \A r \in Batch(t) : r.file \in Files
    BY <2>1 DEF Batch
  <2> QED
    BY <1>1, <2>2, CaptureKnown DEF Fresh
<1>5. TaskOK(s, rows', script, size)
  <2>1. TaskOK(task[t], rows', script, size)
    <3>1. size \in [Files -> Nat] /\ \A f \in Files : size[f] <= size[f]
      BY CaptureKnown
    <3> QED
      BY <1>4, <3>1, CaptureKnown, TaskStays
  <2>2. StoredIn(rows', script, task[t].file, task[t].upto)
    BY <1>1, BatchIsStored
  <2> QED
    BY <1>1, <1>3, <2>1, <2>2 DEF TaskOK
<1>6. t \in Jobs => JobOK(job[t], s, rows', script, size)
  <2> SUFFICES ASSUME t \in Jobs PROVE JobOK(job[t], s, rows', script, size)
    OBVIOUS
  <2>1. JobOK(job[t], task[t], rows', script, size)
    <3>1. size \in [Files -> Nat] /\ \A f \in Files : size[f] <= size[f]
      BY CaptureKnown
    <3> QED
      BY <1>4, <3>1, CaptureKnown, JobStays
  <2>2. job[t].state = "running" => ReachesAsked(s, job[t].asked)
    BY <1>1, <1>3, <2>1 DEF JobOK, ReachesAsked
  <2> QED
    BY <1>1, <1>3, <2>1, <2>2, CaptureKnown, GoesOnWithFile
<1>7. /\ cursor' = cursor /\ job' = job /\ serving' = serving /\ crashes' = crashes
      /\ FilesInv' /\ Grown /\ script' = script /\ size' = size
  BY <1>1, SameFiles
<1>8. CursorsOK(cursor, rows', script, size)
  <2>1. size \in [Files -> Nat] /\ \A f \in Files : size[f] <= size[f]
    BY CaptureKnown
  <2> QED
    BY <1>4, <2>1, CaptureKnown, CursorsStay
<1>9. /\ task' \in [Tasks -> TaskState] /\ task'[t] = s
      /\ \A u \in Tasks \ {t} : task'[u] = task[u]
  BY <1>1, <1>2, TaskMoves
<1> QED
  BY <1>4, <1>5, <1>6, <1>7, <1>8, <1>9, CaptureKnown, OneTask

LEMMA SaveCursorKeeps ==
  ASSUME CaptureIInv, NEW t \in Tasks, SaveCursor(t)
  PROVE  CaptureIInv'
<1> DEFINE f == task[t].file
<1>1. /\ task[t].pc = "save" /\ task' = [task EXCEPT ![t] = IdleTask]
      /\ cursor' \in {cursor, [cursor EXCEPT ![f] = task[t].upto]}
      /\ UNCHANGED <<filesVars, rows, job, serving, crashes>>
  BY DEF SaveCursor, Finish
<1>2. /\ f \in Files /\ task[t].upto <= size[f] /\ task[t].upto \in Nat
      /\ StoredIn(rows, script, f, task[t].upto)
  BY <1>1, CaptureKnown DEF TaskOK, TaskState
<1>3. cursor' \in [Files -> Nat] /\ CursorsOK(cursor', rows, script, size)
  <2>1. CASE cursor' = cursor
    BY <2>1, CaptureKnown
  <2>2. CASE cursor' = [cursor EXCEPT ![f] = task[t].upto]
    <3>1. cursor' \in [Files -> Nat]
      BY <1>2, <2>2, CaptureKnown
    <3>2. cursor'[f] = task[t].upto /\ \A g \in Files \ {f} : cursor'[g] = cursor[g]
      BY <1>2, <2>2, CaptureKnown
    <3>3. \A g \in Files \ {f} : cursor[g] <= size[g] /\ StoredIn(rows, script, g, cursor[g])
      BY CaptureKnown DEF CursorsOK
    <3> QED
      BY <1>2, <3>1, <3>2, <3>3 DEF CursorsOK
  <2> QED
    BY <1>1, <2>1, <2>2
<1>4. t \in Jobs => JobOK(job[t], IdleTask, rows, script, size)
  <2> SUFFICES ASSUME t \in Jobs, job[t].state = "running"
               PROVE  StoredIn(rows, script, f, job[t].asked[f])
    BY <1>1, CaptureKnown, DoneWithFile
  <2>1. job[t].asked[f] \in Nat
    BY <1>2, CaptureKnown DEF JobState
  <2>2. CompleteLines(job[t].asked[f]) <= CompleteLines(task[t].upto)
    BY <1>1, CaptureKnown DEF JobOK, ReachesAsked
  <2> QED
    BY <1>2, <2>1, <2>2, StoredShorter
<1>5. /\ rows' = rows /\ job' = job /\ serving' = serving /\ crashes' = crashes
      /\ FilesInv' /\ Grown /\ script' = script /\ size' = size
  BY <1>1, SameFiles
<1>6. /\ task' \in [Tasks -> TaskState] /\ task'[t] = IdleTask
      /\ \A u \in Tasks \ {t} : task'[u] = task[u]
  BY <1>1, IdleFacts, TaskMoves
<1> QED
  BY <1>3, <1>4, <1>5, <1>6, CaptureKnown, IdleFacts, OneTask

LEMMA FailFileKeeps ==
  ASSUME CaptureIInv, NEW t \in Tasks, FailFile(t)
  PROVE  CaptureIInv'
<1> DEFINE f == task[t].file
<1>1. /\ task[t].pc \in {"read", "upsert"} /\ task' = [task EXCEPT ![t] = IdleTask]
      /\ UNCHANGED <<script, size, watching, pending, channel, rows, cursor, serving,
                     crashes>>
  BY DEF FailFile, Finish
<1>2. f \in Files
  BY <1>1, CaptureKnown DEF TaskOK
<1>3. /\ task' \in [Tasks -> TaskState] /\ task'[t] = IdleTask
      /\ \A u \in Tasks \ {t} : task'[u] = task[u]
  BY <1>1, IdleFacts, TaskMoves
<1>4. CASE t = Watcher
  <2>1. t \notin Jobs
    BY <1>4, JobsAssumption
  <2>2. missed' \subseteq Files /\ job' = job
    BY <1>2, <1>4, CaptureKnown DEF FailFile, FilesInv, FilesTypeOK
  <2>3. FilesInv' /\ Grown
    BY <1>1, <2>2, CaptureKnown, MissKeeps
  <2> QED
    BY <1>1, <1>3, <2>1, <2>2, <2>3, CaptureKnown, IdleFacts, LocalTask
<1>5. CASE t # Watcher
  <2>1. t \in Jobs
    BY <1>5 DEF Tasks
  <2>2. job' = [job EXCEPT ![t].failed = job[t].failed \cup {f}] /\ missed' = missed
    BY <1>5 DEF FailFile, Reported
  <2> DEFINE j == [job[t] EXCEPT !.failed = job[t].failed \cup {f}]
  <2>3. j \in JobState
    BY <1>2, <2>1, CaptureKnown DEF JobState
  <2>4. /\ j.failed = job[t].failed \cup {f} /\ j.asked = job[t].asked
        /\ j.state = job[t].state /\ j.todo = job[t].todo
    BY <2>1, CaptureKnown DEF JobState
  <2>5. /\ job' \in [Jobs -> JobState] /\ job'[t] = j
        /\ \A k \in Jobs \ {t} : job'[k] = job[k]
    BY <2>1, <2>2, <2>3, CaptureKnown
  <2> HIDE DEF j
  <2>6. JobOK(j, IdleTask, rows, script, size)
    <3>1. JobOK(job[t], task[t], rows, script, size)
      BY <2>1, CaptureKnown
    <3> QED
      BY <2>4, <3>1, IdleFacts DEF JobOK, ReachesAsked
  <2>7. FilesInv' /\ Grown
    BY <1>1, <2>2, CaptureKnown, SameFiles DEF filesVars
  <2> QED
    BY <1>1, <1>3, <2>5, <2>6, <2>7, IdleFacts, LocalTask
<1> QED
  BY <1>4, <1>5

-------------------------------------------------------------------------------
\* The watcher and the scans.
LEMMA BeginFacts ==
  ASSUME CaptureIInv, NEW t \in Tasks, NEW f \in Files, NEW force \in BOOLEAN,
         Begin(t, f, force)
  PROVE  /\ task' \in [Tasks -> TaskState]
         /\ \A u \in Tasks \ {t} : task'[u] = task[u]
         /\ task'[t].pc = "load" /\ task'[t].file = f
         /\ TaskOK(task'[t], rows, script, size)
<1> DEFINE s == [pc |-> "load", file |-> f, force |-> force, from |-> 0, upto |-> 0]
<1>1. s \in TaskState /\ s.pc = "load" /\ s.file = f
  BY DEF TaskState
<1>2. task' = [task EXCEPT ![t] = s]
  BY DEF Begin
<1> HIDE DEF s
<1>3. TaskOK(s, rows, script, size)
  BY <1>1 DEF TaskOK
<1> QED
  BY <1>1, <1>2, <1>3, TaskMoves

LEMMA ReceivePathKeeps ==
  ASSUME CaptureIInv, ReceivePath
  PROVE  CaptureIInv'
<1>1. /\ channel # <<>> /\ channel' = Tail(channel) /\ Begin(Watcher, Head(channel), FALSE)
      /\ UNCHANGED <<script, size, watching, pending, missed, rows, cursor, job,
                     serving, crashes>>
  BY DEF ReceivePath
<1>2. FilesInv' /\ Grown /\ Head(channel) \in Files
  BY <1>1, CaptureKnown, ReceiveKeeps
<1>3. Watcher \in Tasks /\ Watcher \notin Jobs
  BY JobsAssumption DEF Tasks
<1>4. job' \in [Jobs -> JobState] /\ job' = job
  BY <1>1, CaptureKnown
<1> QED
  BY <1>1, <1>2, <1>3, <1>4, BeginFacts, LocalTask

\* A step that changes only the state of job j.
LEMMA JobStep ==
  ASSUME CaptureIInv, NEW j \in Jobs, NEW s \in JobState, job' = [job EXCEPT ![j] = s],
         UNCHANGED <<filesVars, rows, cursor, task, serving, crashes>>,
         JobOK(s, task[j], rows, script, size)
  PROVE  CaptureIInv'
<1>1. /\ job' \in [Jobs -> JobState] /\ job'[j] = s
      /\ \A k \in Jobs \ {j} : job'[k] = job[k]
  BY CaptureKnown
<1>2. j \in Tasks /\ task' = task /\ task' \in [Tasks -> TaskState]
  BY CaptureKnown
<1>3. TaskOK(task'[j], rows, script, size)
  BY <1>2, CaptureKnown
<1> QED
  BY <1>1, <1>2, <1>3, SameFiles, LocalTask

LEMMA StartScanKeeps ==
  ASSUME CaptureIInv, NEW j \in Jobs, StartScan(j)
  PROVE  CaptureIInv'
<1>1. PICK force \in BOOLEAN :
        job' = [job EXCEPT ![j] = [NewJob EXCEPT !.state = "queued", !.force = force,
                                                 !.asked = size]]
  BY DEF StartScan
<1> DEFINE s == [NewJob EXCEPT !.state = "queued", !.force = force, !.asked = size]
<1>2. s \in JobState /\ s.state = "queued" /\ s.asked = size
  BY CaptureKnown, NewJobFacts DEF JobState
<1>3. job' = [job EXCEPT ![j] = s]
  BY <1>1
<1> HIDE DEF s
<1>4. JobOK(s, task[j], rows, script, size)
  <2>1. task[j].pc = "idle"
    BY CaptureKnown DEF StartScan, JobOK
  <2>2. \A f \in Files : size[f] <= size[f]
    BY CaptureKnown
  <2> QED
    BY <1>2, <2>1, <2>2 DEF JobOK
<1> QED
  BY <1>2, <1>3, <1>4, JobStep DEF StartScan

LEMMA RunScanKeeps ==
  ASSUME CaptureIInv, NEW j \in Jobs, RunScan(j)
  PROVE  CaptureIInv'
<1> DEFINE todo == {f \in Files : size[f] > 0}
           s == [job[j] EXCEPT !.state = "running", !.todo = todo]
<1>1. /\ job[j].state = "queued" /\ job' = [job EXCEPT ![j] = s]
      /\ JobOK(job[j], task[j], rows, script, size)
  BY CaptureKnown DEF RunScan
<1>2. s \in JobState
  BY CaptureKnown DEF JobState
<1>3. s.state = "running" /\ s.todo = todo /\ s.asked = job[j].asked
  BY CaptureKnown DEF JobState
<1> HIDE DEF s
<1>4. task[j].pc = "idle" /\ \A f \in Files : s.asked[f] <= size[f]
  BY <1>1, <1>3 DEF JobOK
<1>5. \A f \in Files : f \in todo \/ StoredIn(rows, script, f, s.asked[f])
  <2> SUFFICES ASSUME NEW f \in Files, f \notin todo
               PROVE  StoredIn(rows, script, f, s.asked[f])
    OBVIOUS
  <2>1. size[f] \in Nat /\ ~(size[f] > 0) /\ s.asked[f] \in Nat
    BY <1>3, CaptureKnown DEF JobState
  <2>2. s.asked[f] = 0
    BY <1>4, <2>1
  <2> QED
    BY <2>2, NothingToStore
<1>6. JobOK(s, task[j], rows, script, size)
  BY <1>3, <1>4, <1>5 DEF JobOK, ReachesAsked
<1> QED
  BY <1>1, <1>2, <1>6, JobStep DEF RunScan

LEMMA ScanFileKeeps ==
  ASSUME CaptureIInv, NEW j \in Jobs, ScanFile(j)
  PROVE  CaptureIInv'
<1>1. PICK f \in job[j].todo :
        /\ job' = [job EXCEPT ![j].todo = @ \ {f}]
        /\ Begin(j, f, job[j].force)
  BY DEF ScanFile
<1> DEFINE s == [job[j] EXCEPT !.todo = job[j].todo \ {f}]
<1>2. /\ job[j].state = "running" /\ task[j].pc = "idle" /\ f \in Files
      /\ job[j].force \in BOOLEAN /\ job' = [job EXCEPT ![j] = s]
      /\ UNCHANGED <<filesVars, rows, cursor, serving, crashes>>
  BY <1>1, CaptureKnown DEF ScanFile, JobState
<1>3. s \in JobState
  BY CaptureKnown DEF JobState
<1>4. /\ s.state = "running" /\ s.todo = job[j].todo \ {f}
      /\ s.asked = job[j].asked /\ s.failed = job[j].failed
  BY <1>2, CaptureKnown DEF JobState
<1> HIDE DEF s
<1>5. /\ job' \in [Jobs -> JobState] /\ job'[j] = s
      /\ \A k \in Jobs \ {j} : job'[k] = job[k]
  BY <1>2, <1>3, CaptureKnown
<1>6. j \in Tasks
  BY CaptureKnown
<1>7. /\ task' \in [Tasks -> TaskState]
      /\ \A u \in Tasks \ {j} : task'[u] = task[u]
      /\ task'[j].pc = "load" /\ task'[j].file = f
      /\ TaskOK(task'[j], rows, script, size)
  BY <1>1, <1>2, <1>6, BeginFacts
<1>8. JobOK(s, task'[j], rows, script, size)
  <2>1. JobOK(job[j], task[j], rows, script, size)
    BY CaptureKnown
  <2> QED
    BY <1>2, <1>4, <1>7, <2>1 DEF JobOK, ReachesAsked
<1> QED
  BY <1>2, <1>5, <1>6, <1>7, <1>8, SameFiles, LocalTask

LEMMA ScanEndsKeeps ==
  ASSUME CaptureIInv, NEW j \in Jobs, ScanEnds(j)
  PROVE  CaptureIInv'
<1> DEFINE s == [job[j] EXCEPT !.state = "complete"]
<1>1. /\ job[j].state = "running" /\ task[j].pc = "idle" /\ job[j].todo = {}
      /\ job' = [job EXCEPT ![j] = s]
  BY DEF ScanEnds
<1>2. s \in JobState
  BY CaptureKnown DEF JobState
<1>3. s.state = "complete" /\ s.asked = job[j].asked /\ s.failed = job[j].failed
  BY CaptureKnown DEF JobState
<1> HIDE DEF s
<1>4. JobOK(s, task[j], rows, script, size)
  <2>1. JobOK(job[j], task[j], rows, script, size)
    BY CaptureKnown
  <2> QED
    BY <1>1, <1>3, <2>1 DEF JobOK
<1> QED
  BY <1>1, <1>2, <1>4, JobStep DEF ScanEnds

-------------------------------------------------------------------------------
\* The server's life, and the agents.

\* A step that leaves rows and cursors alone, and either leaves tasks and jobs
\* alone or loses them all.
LEMMA AroundTasks ==
  ASSUME CaptureIInv, FilesInv', Grown, script' = script, UNCHANGED <<rows, cursor>>,
         serving' \in BOOLEAN, crashes' \in 0 .. MaxCrashes,
         \/ UNCHANGED <<task, job>>
         \/ /\ task' = [t \in Tasks |-> IdleTask]
            /\ job' = [j \in Jobs |-> NewJob]
  PROVE  CaptureIInv'
<1>1. /\ size \in [Files -> Nat] /\ size' \in [Files -> Nat]
      /\ \A f \in Files : size[f] <= size'[f]
  BY CaptureKnown DEF FilesInv, FilesTypeOK, Grown
<1>2. /\ task' \in [Tasks -> TaskState] /\ job' \in [Jobs -> JobState]
      /\ rows' = rows /\ cursor' = cursor
  BY CaptureKnown, IdleFacts, NewJobFacts
<1>3. CursorsOK(cursor, rows, script, size')
  BY <1>1, CaptureKnown, CursorsStay
<1>4. \A t \in Tasks : TaskOK(task'[t], rows, script, size')
  <2>1. CASE UNCHANGED <<task, job>>
    BY <1>1, <2>1, CaptureKnown, TaskStays
  <2>2. CASE task' = [t \in Tasks |-> IdleTask]
    BY <2>2, IdleFacts
  <2> QED
    BY <2>1, <2>2
<1>5. \A j \in Jobs : JobOK(job'[j], task'[j], rows, script, size')
  <2>1. CASE UNCHANGED <<task, job>>
    BY <1>1, <2>1, CaptureKnown, JobStays
  <2>2. CASE /\ task' = [t \in Tasks |-> IdleTask]
             /\ job' = [j \in Jobs |-> NewJob]
    <3>1. JobOK(NewJob, IdleTask, rows, script, size')
      BY <1>1, IdleFacts, NewJobFacts DEF JobOK
    <3> QED
      BY <2>2, <3>1, CaptureKnown
  <2> QED
    BY <2>1, <2>2
<1>6. Meanings'
  BY <1>2, <1>3, <1>4, <1>5 DEF Meanings
<1>7. CaptureTypeOK'
  BY <1>2, CaptureKnown DEF CaptureTypeOK, FilesInv
<1> QED
  BY <1>6, <1>7 DEF CaptureIInv, FilesInv

LEMMA ServeKeeps == CaptureIInv /\ Serve => CaptureIInv'
<1> SUFFICES ASSUME CaptureIInv, Serve PROVE CaptureIInv'
  OBVIOUS
<1>1. FilesInv' /\ Grown
  BY CaptureKnown, StartWatchingKeeps DEF Serve
<1> QED
  BY <1>1, CaptureKnown, AroundTasks DEF Serve

LEMMA CrashKeeps == CaptureIInv /\ Crash => CaptureIInv'
<1> SUFFICES ASSUME CaptureIInv, Crash PROVE CaptureIInv'
  OBVIOUS
<1>1. Watcher \in Tasks
  BY DEF Tasks
<1>2. {task[Watcher].file} \ {NoFile} \in SUBSET Files
  BY <1>1, CaptureKnown DEF TaskState
<1>3. StopWatching({task[Watcher].file} \ {NoFile}) /\ UNCHANGED <<script, size>>
  BY DEF Crash
<1>4. FilesInv' /\ Grown
  BY <1>2, <1>3, CaptureKnown, StopWatchingKeeps
<1>5. crashes' \in 0 .. MaxCrashes
  BY CaptureKnown, MaxCrashesAssumption DEF Crash
<1> QED
  BY <1>4, <1>5, AroundTasks DEF Crash

LEMMA CaptureInitial == CaptureInit => CaptureIInv
<1> SUFFICES ASSUME CaptureInit PROVE CaptureIInv
  OBVIOUS
<1>1. FilesInv /\ size = [f \in Files |-> 0]
  BY FilesInvInit DEF CaptureInit, FilesInit
<1>2. /\ rows = {} /\ cursor = [f \in Files |-> 0] /\ task = [t \in Tasks |-> IdleTask]
      /\ job = [j \in Jobs |-> NewJob] /\ serving = FALSE /\ crashes = 0
  BY DEF CaptureInit, ServerInit
<1>3. CursorsOK(cursor, rows, script, size)
  BY <1>1, <1>2, NothingToStore DEF CursorsOK
<1>4. JobOK(NewJob, IdleTask, rows, script, size)
  BY <1>1, IdleFacts, NewJobFacts DEF JobOK
<1>5. Meanings
  BY <1>2, <1>3, <1>4, IdleFacts DEF Meanings, Tasks
<1>6. CaptureTypeOK
  <2>1. task \in [Tasks -> TaskState] /\ job \in [Jobs -> JobState]
    BY <1>2, IdleFacts, NewJobFacts
  <2>2. crashes \in 0 .. MaxCrashes
    BY <1>2, MaxCrashesAssumption
  <2>3. cursor \in [Files -> Nat] /\ serving \in BOOLEAN /\ \A r \in rows : r.file \in Files
    BY <1>2
  <2> QED
    BY <1>1, <2>1, <2>2, <2>3 DEF CaptureTypeOK, FilesInv
<1> QED
  BY <1>1, <1>5, <1>6 DEF CaptureIInv, FilesInv

LEMMA CaptureInductive == CaptureIInv /\ [CaptureNext]_captureVars => CaptureIInv'
<1> SUFFICES ASSUME CaptureIInv, [CaptureNext]_captureVars PROVE CaptureIInv'
  OBVIOUS
<1>1. CASE AgentsAndTimers /\ UNCHANGED serverVars
  <2>1. FilesInv' /\ Grown
    BY <1>1, CaptureKnown, AgentsKeep
  <2>2. script' = script
    BY <1>1 DEF AgentsAndTimers, Write, Surface
  <2> QED
    BY <1>1, <2>1, <2>2, CaptureKnown, AroundTasks DEF serverVars
<1>2. CASE Serve \/ Crash \/ ReceivePath
  BY <1>2, ServeKeeps, CrashKeeps, ReceivePathKeeps
<1>3. ASSUME NEW t \in Tasks, FileStep(t) \/ FailFile(t) PROVE CaptureIInv'
  <2>1. CASE LoadCursor(t) \/ SkipFile(t) \/ ParseFile(t)
    BY <2>1, LoadCursorKeeps, SkipFileKeeps, ParseFileKeeps
  <2>2. CASE UpsertEvents(t) \/ SaveCursor(t) \/ FailFile(t)
    BY <2>2, UpsertEventsKeeps, SaveCursorKeeps, FailFileKeeps
  <2> QED
    BY <1>3, <2>1, <2>2 DEF FileStep
<1>4. ASSUME NEW j \in Jobs, StartScan(j) \/ RunScan(j) \/ ScanFile(j) \/ ScanEnds(j)
      PROVE  CaptureIInv'
  BY <1>4, StartScanKeeps, RunScanKeeps, ScanFileKeeps, ScanEndsKeeps
<1>5. CASE UNCHANGED captureVars
  <2>1. FilesInv' /\ Grown /\ script' = script
    BY <1>5, SameFiles DEF captureVars
  <2> QED
    BY <1>5, <2>1, CaptureKnown, AroundTasks DEF captureVars, serverVars
<1> QED
  BY <1>1, <1>2, <1>3, <1>4, <1>5 DEF CaptureNext

LEMMA CaptureInvariance == CaptureSpec => []CaptureIInv
<1>1. CaptureInit => CaptureIInv
  BY CaptureInitial
<1>2. CaptureIInv /\ [CaptureNext]_captureVars => CaptureIInv'
  BY CaptureInductive
<1> QED
  BY <1>1, <1>2, PTL DEF CaptureSpec

\* The outputs of the rows.  Transcripts only grow, so a row stays true; those
\* a task inserts are true when its chunk ends at or before the end of the file.
LEMMA BatchBelongs ==
  ASSUME CaptureIInv, NEW t \in Tasks, task[t].pc = "upsert", NEW r \in Batch(t)
  PROVE  Belongs(script[r.file].lines, CompleteLines(size[r.file]), r)
<1> DEFINE f == task[t].file
           a == CompleteLines(task[t].from)
           b == CompleteLines(task[t].upto)
           n == CompleteLines(size[f])
           lines == script[f].lines
<1>1. f \in Files /\ task[t].upto <= size[f]
  BY CaptureKnown DEF TaskOK
<1>2. a \in Nat /\ b \in Nat /\ n \in Nat /\ b <= n
  <2>1. task[t].from \in Nat /\ task[t].upto \in Nat /\ size[f] \in Nat
    BY <1>1, CaptureKnown DEF TaskState
  <2> QED
    BY <1>1, <2>1, CompleteLinesMonotone
<1>3. PICK e \in Parse(script[f].tool, lines, a, b) :
         r = [file |-> f, key |-> e.key, line |-> e.line, output |-> e.output,
              count |-> e.count]
  BY DEF Batch
<1>4. r.file = f /\ r.key = e.key /\ r.line = e.line /\ r.output = e.output
  BY <1>3
<1> HIDE DEF a, b, n, lines
<1>5. Belongs(lines, b, e)
  BY <1>2, <1>3, ClaudeBelongs, CodexBelongs DEF Parse
<1>6. Belongs(lines, n, r)
  BY <1>2, <1>4, <1>5 DEF Belongs
<1> QED
  BY <1>4, <1>6 DEF lines, n

RowsBelong(rs, sc, sz) ==
  \A r \in rs : Belongs(sc[r.file].lines, CompleteLines(sz[r.file]), r)

LEMMA BelongingStays ==
  ASSUME NEW rs, NEW sc, NEW sz \in [Files -> Nat], NEW zz \in [Files -> Nat],
         \A f \in Files : sz[f] <= zz[f], \A r \in rs : r.file \in Files,
         RowsBelong(rs, sc, sz)
  PROVE  RowsBelong(rs, sc, zz)
<1> SUFFICES ASSUME NEW r \in rs
             PROVE  Belongs(sc[r.file].lines, CompleteLines(zz[r.file]), r)
  BY DEF RowsBelong
<1> DEFINE m == CompleteLines(sz[r.file])
           n == CompleteLines(zz[r.file])
<1>1. m \in Nat /\ n \in Nat /\ m <= n
  BY CompleteLinesMonotone
<1>2. Belongs(sc[r.file].lines, m, r)
  BY DEF RowsBelong
<1> HIDE DEF m, n
<1>3. Belongs(sc[r.file].lines, n, r)
  BY <1>1, <1>2 DEF Belongs
<1> QED
  BY <1>3 DEF n

LEMMA BelongingKeeps ==
  ASSUME CaptureIInv, [CaptureNext]_captureVars, RowsBelong(rows, script, size)
  PROVE  RowsBelong(rows', script', size')
<1>1. /\ size \in [Files -> Nat] /\ size' \in [Files -> Nat]
      /\ \A r \in rows : r.file \in Files
  <2>1. CaptureIInv'
    BY CaptureInductive
  <2> QED
    BY <2>1, CaptureKnown DEF CaptureIInv, CaptureTypeOK, FilesTypeOK
<1>2. ASSUME rows' = rows, script' = script, Grown
      PROVE  RowsBelong(rows', script', size')
  BY <1>1, <1>2, BelongingStays DEF Grown
<1>3. ASSUME UNCHANGED <<rows, script, size>>
      PROVE  RowsBelong(rows', script', size')
  BY <1>3
<1>4. CASE AgentsAndTimers /\ UNCHANGED serverVars
  <2>1. Grown
    BY <1>4, CaptureKnown, AgentsKeep
  <2>2. script' = script
    BY <1>4 DEF AgentsAndTimers, Write, Surface
  <2> QED
    BY <1>2, <1>4, <2>1, <2>2 DEF serverVars
<1>5. CASE Serve \/ Crash \/ ReceivePath
  BY <1>3, <1>5 DEF Serve, Crash, ReceivePath
<1>6. ASSUME NEW t \in Tasks, FileStep(t) \/ FailFile(t)
      PROVE  RowsBelong(rows', script', size')
  <2>1. CASE LoadCursor(t) \/ SkipFile(t) \/ ParseFile(t)
    BY <1>3, <2>1 DEF LoadCursor, SkipFile, ParseFile, filesVars
  <2>2. CASE SaveCursor(t) \/ FailFile(t)
    BY <1>3, <2>2 DEF SaveCursor, FailFile, filesVars
  <2>3. CASE UpsertEvents(t)
    <3>1. /\ task[t].pc = "upsert" /\ rows' = rows \cup Fresh(Batch(t))
          /\ script' = script /\ size' = size
      BY <2>3 DEF UpsertEvents, filesVars
    <3>2. \A r \in Batch(t) :
             Belongs(script[r.file].lines, CompleteLines(size[r.file]), r)
      BY <3>1, BatchBelongs
    <3> QED
      BY <3>1, <3>2 DEF RowsBelong, Fresh
  <2> QED
    BY <1>6, <2>1, <2>2, <2>3 DEF FileStep
<1>7. ASSUME NEW j \in Jobs, StartScan(j) \/ RunScan(j) \/ ScanFile(j) \/ ScanEnds(j)
      PROVE  RowsBelong(rows', script', size')
  <2>1. CASE StartScan(j) \/ RunScan(j)
    <3>1. StartScan(j) => UNCHANGED <<filesVars, rows>>
      BY Zenon DEF StartScan
    <3>2. RunScan(j) => UNCHANGED <<filesVars, rows>>
      BY Zenon DEF RunScan
    <3> QED
      BY <1>3, <2>1, <3>1, <3>2 DEF filesVars
  <2>2. CASE ScanFile(j) \/ ScanEnds(j)
    <3>1. UNCHANGED <<filesVars, rows>>
      BY <2>2 DEF ScanFile, ScanEnds
    <3> QED
      BY <1>3, <3>1 DEF filesVars
  <2> QED
    BY <1>7, <2>1, <2>2
<1>8. CASE UNCHANGED captureVars
  BY <1>3, <1>8 DEF captureVars, serverVars, filesVars
<1> QED
  BY <1>4, <1>5, <1>6, <1>7, <1>8 DEF CaptureNext

-------------------------------------------------------------------------------
\* Every value stays of its type, through crashes and restarts.
THEOREM CaptureTypeCorrect == CaptureSpec => []CaptureTypeOK
<1>1. CaptureIInv => CaptureTypeOK
  BY DEF CaptureIInv
<1> QED
  BY <1>1, CaptureInvariance, PTL

\* No saved cursor passes an event with an id of its own that is not in the
\* database, for any number of scans beside the watcher and any crashes (parse_and_store_file).
THEOREM NamedEventsAreStored == CaptureSpec => []NamedEventsStored
<1>1. CaptureIInv => NamedEventsStored
  <2> SUFFICES ASSUME CaptureIInv, NEW f \in Files
               PROVE  cursor[f] <= size[f] /\ AllStored(f, cursor[f])
    BY DEF NamedEventsStored
  <2>1. cursor[f] <= size[f] /\ StoredIn(rows, script, f, cursor[f])
    BY CaptureKnown DEF CursorsOK
  <2> QED
    BY <2>1 DEF StoredIn, AllStored, Stored
<1> QED
  BY <1>1, CaptureInvariance, PTL

\* A finished scan has stored what was there when it was asked for, but for
\* the files its warnings name, whatever the watcher and other scans did
\* meanwhile (run_scan).
THEOREM ScansAlwaysReportTruth == CaptureSpec => []ScanReportsTruth
<1>1. CaptureIInv => ScanReportsTruth
  <2> SUFFICES ASSUME CaptureIInv, NEW j \in Jobs, job[j].state = "complete",
                      NEW f \in Files \ job[j].failed
               PROVE  AllStored(f, job[j].asked[f])
    BY DEF ScanReportsTruth
  <2>1. StoredIn(rows, script, f, job[j].asked[f])
    BY CaptureKnown DEF JobOK
  <2> QED
    BY <2>1 DEF StoredIn, AllStored, Stored
<1> QED
  BY <1>1, CaptureInvariance, PTL

\* However the chunks of a scan and of the watcher are cut, a stored output is
\* that of the row's own line or of one with the row's id (the pending maps of the parsers).
THEOREM OutputsAlwaysBelong == CaptureSpec => []OutputsBelong
<1>1. CaptureInit => CaptureIInv /\ RowsBelong(rows, script, size)
  BY CaptureInitial DEF CaptureInit, ServerInit, RowsBelong
<1>2. CaptureIInv /\ RowsBelong(rows, script, size) /\ [CaptureNext]_captureVars
        => (CaptureIInv /\ RowsBelong(rows, script, size))'
  BY CaptureInductive, BelongingKeeps
<1>3. RowsBelong(rows, script, size) => OutputsBelong
  BY DEF RowsBelong, Belongs, OutputsBelong
<1> QED
  BY <1>1, <1>2, <1>3, PTL DEF CaptureSpec
===============================================================================
