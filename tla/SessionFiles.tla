----------------------------- MODULE SessionFiles -----------------------------
(***************************************************************************)
(* The transcripts that coding agents append to, and the NotifyWatchDriver  *)
(* (aikit-session-capture/src/watch.rs) through which one process learns of *)
(* the changes: a pending map that debounces, a timer for every change and  *)
(* a bounded channel whose sender never waits.                              *)
(*                                                                          *)
(* A transcript is its script, the lines the agent will write, and how much *)
(* of it is on disk.  Sizes count half lines, so that an odd size is a file *)
(* that ends in a line not yet terminated.                                  *)
(***************************************************************************)
EXTENDS Integers, Sequences, FiniteSets

CONSTANTS Files,           \* the session files below the watched directories
          Scripts,         \* the scripts considered: for each file its tool, its lines
                           \* and the half lines its agent writes at once
          NoFile,
          ChannelCapacity  \* capacity of the watcher's channel (256 in the code)

ASSUME FilesAssumption == IsFiniteSet(Files)
ASSUME NoFileAssumption == NoFile \notin Files
ASSUME ScriptsAssumption ==
  \A s \in Scripts : \A f \in Files :
     Len(s[f].lines) \in Nat /\ s[f].step \in {1, 2}
ASSUME CapacityAssumption == ChannelCapacity \in Nat \ {0}

VARIABLES
  script,   \* what each file's agent writes in the end
  size,     \* how much of it is on disk, in half lines
  watching, \* whether a watcher is registered
  pending,  \* paths in the debounce map
  channel,  \* paths sent to the process that watches
  missed    \* files whose latest change that process has not learnt of, or
            \* has given up on; only the properties read it

filesVars == <<script, size, watching, pending, channel, missed>>

FilesTypeOK ==
  /\ script \in Scripts
  /\ size \in [Files -> Nat]
  /\ \A f \in Files : size[f] <= 2 * Len(script[f].lines)
  /\ watching \in BOOLEAN
  /\ pending \subseteq Files
  /\ channel \in Seq(Files)
  /\ Len(channel) <= ChannelCapacity
  /\ missed \subseteq Files

FilesInit ==
  /\ script \in Scripts
  /\ size = [f \in Files |-> 0]
  /\ watching = FALSE
  /\ pending = {}
  /\ channel = <<>>
  /\ missed = {}

\* How many lines of a file are complete when its size is n.
CompleteLines(n) == n \div 2

\* An agent appends a half line or a line.  The notify callback stamps the path
\* in the map; a change nobody watches goes unnoticed.
Write(f) ==
  /\ size[f] < 2 * Len(script[f].lines)
  /\ size' = [size EXCEPT ![f] = @ + script[f].step]
  /\ pending' = IF watching THEN pending \cup {f} ELSE pending
  /\ missed' = IF watching THEN missed \ {f} ELSE missed \cup {f}
  /\ UNCHANGED <<script, watching, channel>>

InChannel(f) == \E i \in DOMAIN channel : channel[i] = f

\* The timer of a path's latest change: the path leaves the map and is sent if
\* the channel has room.  Timers of earlier changes find it too young.  A full
\* channel that already holds the path will still deliver it.
HasRoom == Len(channel) < ChannelCapacity

Surface(f) ==
  /\ f \in pending
  /\ pending' = pending \ {f}
  /\ IF HasRoom
       THEN channel' = Append(channel, f) /\ UNCHANGED missed
       ELSE /\ missed' = IF InChannel(f) THEN missed ELSE missed \cup {f}
            /\ UNCHANGED channel
  /\ UNCHANGED <<script, size, watching>>

\* NotifyWatchDriver::new.
StartWatching == watching' = TRUE

\* The process that watches ends: what it had not handled is missed.
StopWatching(handling) ==
  /\ watching' = FALSE
  /\ pending' = {}
  /\ channel' = <<>>
  /\ missed' = missed \cup pending \cup handling
                 \cup {f \in Files : InChannel(f)}

AgentsAndTimers == \E f \in Files : Write(f) \/ Surface(f)

===============================================================================
