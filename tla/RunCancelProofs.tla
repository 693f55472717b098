---------------------------- MODULE RunCancelProofs ----------------------------
(***************************************************************************)
(* Proofs about module RunCancel, for any set of external callers.          *)
(*                                                                         *)
(* None of the three properties is inductive.  What they rest on is who      *)
(* holds what when: the slot is full exactly between bind and unbind and a   *)
(* child that may still run is in it (SlotTracksRun); a thread that kills    *)
(* the group for cancel() holds the slot's mutex, so unbind waits for it,    *)
(* and the run's thread kills only in the places it says (KillersHoldSlot);  *)
(* and once the readers have been joined the output stays closed, so that no *)
(* later kill can cut it short (OutputEnded).                                *)
(***************************************************************************)
EXTENDS RunCancel, TLAPS

SlotTracksRun ==
  /\ slot <=> main \notin {"connect", "bind", "panic_kill", "returned"}
  /\ main = "connect" => child = "none"
  /\ main \in {"unbind", "panic_kill"} => child = "reaped"
  /\ main = "returned" => child \in {"none", "reaped"}

KillersHoldSlot ==
  /\ \A t \in Callers : slot_lock = t <=> call[t] = "kill"
  /\ \A t \in Callers : killing[t] # "no" => call[t] = "kill"
  /\ \A t \in Callers : call[t] # "idle" => triggered
  /\ slot_lock # Free => slot
  /\ killing["main"] # "no" => main \in {"bind_kill", "settle_kill", "panic_kill"}
  /\ main = "bind_kill" => triggered

OutputEnded ==
  /\ cut_short => triggered /\ main # "connect"
  /\ main \in {"check", "wait", "waiting", "unbind", "panic_kill"} => OutputClosed

IInv == /\ CancelTypeOK
        /\ SlotTracksRun
        /\ KillersHoldSlot
        /\ OutputEnded
        /\ CancelNeverLost
        /\ KilledRunReportsTimedOut

\* The run's thread is not a caller of cancel(), and nobody is "free".
LEMMA Names == /\ "main" \notin Callers /\ Free \notin Callers
               /\ Killers = Callers \cup {"main"}
BY ExternalAssumption DEF Callers, Killers, Free

-------------------------------------------------------------------------------
(* Each step keeps the invariant.                                            *)

\* kill_process_group, whoever runs it.
LEMMA KillGroupKeeps ==
  ASSUME IInv, NEW t \in Killers, KillGroup(t)
  PROVE  IInv'
<1> USE DEF IInv, CancelTypeOK, MainStates, SlotTracksRun, KillersHoldSlot,
            OutputEnded, OutputClosed, CancelNeverLost,
            KilledRunReportsTimedOut, handle, threads, outcome, group, Goto
<1>1. CASE SendTerm(t)
  BY Names, <1>1 DEF SendTerm, Signalled, CutsShort
<1>2. CASE PollReaps(t)
  BY Names, <1>2 DEF PollReaps
<1>3. CASE SendKill(t)
  <2>1. output' \in BOOLEAN
    BY Zenon, <1>3 DEF SendKill, CancelTypeOK
  <2> QED
    BY Names, <1>3, <2>1 DEF SendKill, CutsShort, GraceOver
<1>4. CASE Reap(t)
  BY Names, <1>4 DEF Reap
<1> QED
  BY <1>1, <1>2, <1>3, <1>4 DEF KillGroup

\* cancel(), up to and after the kill.
LEMMA CallersKeep ==
  ASSUME IInv, NEW t \in Callers, Trigger(t) \/ LockSlot(t) \/ FinishCancel(t)
  PROVE  IInv'
<1> USE DEF IInv, CancelTypeOK, MainStates, SlotTracksRun, KillersHoldSlot,
            OutputEnded, OutputClosed, CancelNeverLost,
            KilledRunReportsTimedOut, handle, threads, outcome, group, Goto
<1>1. CASE Trigger(t)
  BY Names, <1>1 DEF Trigger
<1>2. CASE LockSlot(t)
  BY Names, <1>2 DEF LockSlot
<1>3. CASE FinishCancel(t)
  BY Names, <1>3 DEF FinishCancel
<1> QED
  BY <1>1, <1>2, <1>3

\* The run's thread until it drains.
LEMMA BindingKeeps ==
  ASSUME IInv, Connect \/ BindSlot \/ BindCheck \/ Bound \/ ArmWatchdog
  PROVE  IInv'
<1> USE DEF IInv, CancelTypeOK, MainStates, SlotTracksRun, KillersHoldSlot,
            OutputEnded, OutputClosed, CancelNeverLost,
            KilledRunReportsTimedOut, handle, threads, outcome, group, Goto
<1>1. CASE Connect
  <2>1. output' \in BOOLEAN
    BY Zenon, <1>1 DEF Connect, CancelTypeOK
  <2> QED
    BY Names, <1>1, <2>1 DEF Connect
<1>2. CASE BindSlot
  BY Names, <1>2 DEF BindSlot
<1>3. CASE BindCheck
  BY Names, <1>3 DEF BindCheck, CancelledBeforeBind
<1>4. CASE Bound
  BY Names, <1>4 DEF Bound
<1>5. CASE ArmWatchdog
  BY Names, <1>5 DEF ArmWatchdog
<1> QED
  BY <1>1, <1>2, <1>3, <1>4, <1>5

\* The run's thread until the readers are joined.
LEMMA DrainingKeeps ==
  ASSUME IInv, EndDrain \/ DismissWatchdog \/ SettledKilled \/ JoinReaders
  PROVE  IInv'
<1> USE DEF IInv, CancelTypeOK, MainStates, SlotTracksRun, KillersHoldSlot,
            OutputEnded, OutputClosed, CancelNeverLost,
            KilledRunReportsTimedOut, handle, threads, outcome, group, Goto
<1>1. CASE EndDrain
  <2>1. settled' \in BOOLEAN
    BY Zenon, <1>1 DEF EndDrain, CancelTypeOK
  <2> QED
    BY Names, <1>1, <2>1 DEF EndDrain
<1>2. CASE DismissWatchdog
  BY Names, <1>2 DEF DismissWatchdog
<1>3. CASE SettledKilled
  BY Names, <1>3 DEF SettledKilled
<1>4. CASE JoinReaders
  BY Names, <1>4 DEF JoinReaders
<1> QED
  BY <1>1, <1>2, <1>3, <1>4

\* The run's thread until it returns.
LEMMA EndingKeeps ==
  ASSUME IInv, CheckCancelled \/ LockChild \/ Wait \/ Unbind \/ PanicKilled
  PROVE  IInv'
<1> USE DEF IInv, CancelTypeOK, MainStates, SlotTracksRun, KillersHoldSlot,
            OutputEnded, OutputClosed, CancelNeverLost,
            KilledRunReportsTimedOut, handle, threads, outcome, group, Goto
<1>1. CASE CheckCancelled
  BY Names, <1>1 DEF CheckCancelled, IsCancelled
<1>2. CASE LockChild
  BY Names, <1>2 DEF LockChild
<1>3. CASE Wait
  BY Names, <1>3 DEF Wait
<1>4. CASE Unbind
  <2>1. slot' \in BOOLEAN
    BY Zenon, <1>4 DEF Unbind, CancelTypeOK
  <2> QED
    BY Names, <1>4, <2>1 DEF Unbind, NoKillInProgress
<1>5. CASE PanicKilled
  BY Names, <1>5 DEF PanicKilled
<1> QED
  BY <1>1, <1>2, <1>3, <1>4, <1>5

\* The watchdog's timer and the process group.
LEMMA OthersKeep ==
  ASSUME IInv, WatchdogFires \/ OS
  PROVE  IInv'
<1> USE DEF IInv, CancelTypeOK, MainStates, SlotTracksRun, KillersHoldSlot,
            OutputEnded, OutputClosed, CancelNeverLost,
            KilledRunReportsTimedOut, handle, threads, outcome, group, Goto
<1>1. CASE WatchdogFires
  BY Names, <1>1 DEF WatchdogFires
<1>2. CASE ToolStarts
  BY Names, <1>2 DEF ToolStarts
<1>3. CASE ToolExits
  BY Names, <1>3 DEF ToolExits
<1>4. CASE ChildExits
  <2>1. output' \in BOOLEAN
    BY Zenon, <1>4 DEF ChildExits, CancelTypeOK
  <2> QED
    BY Names, <1>4, <2>1 DEF ChildExits
<1>5. CASE ChildClosesOutput
  <2>1. output' \in BOOLEAN
    BY Zenon, <1>5 DEF ChildClosesOutput, CancelTypeOK
  <2> QED
    BY Names, <1>5, <2>1 DEF ChildClosesOutput
<1> QED
  BY <1>1, <1>2, <1>3, <1>4, <1>5 DEF OS

-------------------------------------------------------------------------------
(* The invariant and the theorems.                                           *)

LEMMA InitInvariant == CancelInit => IInv
BY Names DEF CancelInit, IInv, CancelTypeOK, MainStates, SlotTracksRun, KillersHoldSlot,
             OutputEnded, CancelNeverLost, KilledRunReportsTimedOut, Free

LEMMA NextInvariant == IInv /\ [CancelNext]_cancelVars => IInv'
<1> SUFFICES ASSUME IInv, [CancelNext]_cancelVars PROVE IInv'
  OBVIOUS
<1>1. CASE Main
  BY <1>1, Names, KillGroupKeeps, BindingKeeps, DrainingKeeps, EndingKeeps DEF Main
<1>2. CASE \E t \in Callers : Trigger(t) \/ Cancel(t)
  BY <1>2, Names, KillGroupKeeps, CallersKeep DEF Cancel
<1>3. CASE WatchdogFires \/ OS
  BY <1>3, OthersKeep
<1>4. CASE UNCHANGED cancelVars
  BY <1>4 DEF cancelVars, handle, threads, outcome, group, IInv, CancelTypeOK, SlotTracksRun,
              KillersHoldSlot, OutputEnded, OutputClosed, CancelNeverLost,
              KilledRunReportsTimedOut
<1> QED
  BY <1>1, <1>2, <1>3, <1>4 DEF CancelNext

LEMMA Invariance == CancelSpec => []IInv
BY InitInvariant, NextInvariant, PTL DEF CancelSpec

\* Every variable keeps its type, whatever the processes and callers do.
THEOREM TypeCorrect == CancelSpec => []CancelTypeOK
<1>1. IInv => CancelTypeOK
  BY DEF IInv
<1> QED
  BY <1>1, Invariance, PTL

\* A cancellation that comes before, during or after bind reaches the child.
THEOREM CancelsAreNeverLost == CancelSpec => []CancelNeverLost
<1>1. IInv => CancelNeverLost
  BY DEF IInv
<1> QED
  BY <1>1, Invariance, PTL

\* Once the run has returned its handle refers to no child, nobody is killing
\* on its behalf, and the child has been reaped.
THEOREM ReturnedRunsAreReleased == CancelSpec => []ReturnedRunIsReleased
<1>1. IInv => ReturnedRunIsReleased
  BY Names DEF IInv, SlotTracksRun, KillersHoldSlot, ReturnedRunIsReleased, CancelTypeOK
<1> QED
  BY <1>1, Invariance, PTL

\* A run whose output a cancel cut short reports TimedOut.
THEOREM KilledRunsReportTimedOut == CancelSpec => []KilledRunReportsTimedOut
<1>1. IInv => KilledRunReportsTimedOut
  BY DEF IInv
<1> QED
  BY <1>1, Invariance, PTL
===============================================================================
