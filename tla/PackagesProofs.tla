----------------------------- MODULE PackagesProofs -----------------------------
(***************************************************************************)
(* Proofs about module Packages, for any packages, versions, archives and   *)
(* number of commands.  The inductive invariant says what a command's place *)
(* means: which of its locals are set (Placed), that every entry it has     *)
(* read or is about to write was extracted (Known), and, as long as no      *)
(* other command has run beside it, what it has done so far (Sound).  What  *)
(* holds only while commands run one at a time is carried through every     *)
(* kill and failure by Serial.                                              *)
(***************************************************************************)
EXTENDS Packages, TLAPS

Begun(c) == c.pc \notin {"idle", "over"}

HasFetched(c) ==
  Begun(c) /\ c.kind # "remove" /\ c.pc # "fetch" /\ ~(c.kind = "update" /\ c.pc = "load")
HasLoaded(c) == Begun(c) /\ c.kind # "install" /\ c.pc # "load"

\* The locals that are set at each place of command state c.
Placed(c) ==
  /\ Begun(c) => c.pkg \in Packages
  /\ HasFetched(c) => c.version \in Versions /\ c.content \in Contents
  /\ HasLoaded(c) => c.old \in Versions
  /\ HasFetched(c) /\ c.kind = "update" => c.version > c.old
  /\ c.pc \in {"fetch", "check", "extract", "extracting", "artifacts", "deploy", "warned",
               "bare"} =>
       c.kind # "remove"
  /\ c.pc \in {"delete", "deleting"} => c.kind # "install"
  /\ c.pc \in {"deploy", "warned", "bare"} => c.kind = "install"
  /\ c.pc = "undeploy" => c.kind = "remove"
  /\ c.pc \notin {"truncateLock", "writeLock"} => c.locks = EmptyMap

\* The content that entry e of the lock stands for.
ContentOf(e) == IF e.checksum = Missing THEN Folder ELSE e.checksum

EntriesKnown(map, ext) ==
  \A p \in Packages : map[p] # Missing => \E x \in Contents : <<p, map[p].version, x>> \in ext
LocksKnown(locks, ext) ==
  \A p \in Packages : locks[p] # Missing => <<p, locks[p].version, ContentOf(locks[p])>> \in ext

Recording ==
  {"artifacts", "truncateRegistry", "writeRegistry", "lock", "truncateLock", "writeLock"}

Known(c, ext) ==
  /\ EntriesKnown(c.map, ext)
  /\ LocksKnown(c.locks, ext)
  /\ c.pc \in Recording /\ c.kind # "remove" => <<c.pkg, c.version, c.content>> \in ext

Registering == {"lock", "truncateLock", "writeLock"}
Locking == {"deploy", "delete", "deleting", "ok", "warned", "bare"}

\* What install or update has done when it is at its place, alone.
PutSound(c, inst, lk, ds, dep) ==
  LET dir == ds[<<c.pkg, c.version>>] IN
  /\ c.pc = "extract" => ~Mismatch(lk, c.pkg, c.version, c.content)
  /\ c.pc = "extracting" => c.intact
  /\ c.pc \in {"extracting"} \cup Recording \cup Locking => dir.top = c.content
  /\ c.pc \in Recording \cup Locking => c.content \in dir.whole
  /\ c.pc \in Registering \cup Locking => inst[c.pkg] = Registered(c.version, c.content)
  /\ c.pc \in Locking => lk[c.pkg] = Locked(c.version, c.content)
  /\ c.pc = "ok" /\ c.kind = "install" =>
       dep[c.pkg] = c.content \/ dir.items # {c.content}

\* Likewise for remove.
RemoveSound(c, inst, lk, ds, dam) ==
  /\ c.pc = "deleting" => c.pkg \in dam
  /\ c.pc \in Recording \cup {"undeploy", "ok"} => ds[<<c.pkg, c.old>>] = NoDir
  /\ c.pc \in Registering \cup {"undeploy", "ok"} => inst[c.pkg] = Missing
  /\ c.pc \in {"undeploy", "ok"} => lk[c.pkg] = Missing

Sound(c, inst, lk, ds, dep, dam) ==
  /\ c.kind # "remove" => PutSound(c, inst, lk, ds, dep)
  /\ c.kind = "remove" => RemoveSound(c, inst, lk, ds, dam)

\* No archive was put over a locked one.
NotOver(locks, ds) ==
  \A p \in Packages : locks[p] # Missing /\ ContentOf(locks[p]) # Folder =>
     ds[<<p, locks[p].version>>].top \in {ContentOf(locks[p]), Folder, Missing}

\* The registered versions of packages ps are there, but the damaged ones.
AreThere(map, ps, ds, dam) ==
  \A p \in ps : map[p] # Missing /\ p \notin dam => ds[<<p, map[p].version>>].whole # {}

Alone(r) ==
  /\ Begun(command[r]) /\ command[r].alone => \A q \in Commands \ {r} : ~Active(q)
  /\ ~overlapped /\ Active(r) => command[r].alone

Serial ==
  /\ NotOver(lock, dirs)
  /\ AreThere(installed, Packages, dirs, damaged)
  /\ \A r \in Commands : Active(r) =>
       /\ NotOver(command[r].locks, dirs)
       /\ AreThere(command[r].map, Packages \ {Pkg(r)}, dirs, damaged)

IInv ==
  /\ PackagesTypeOK
  /\ EntriesKnown(installed, extracted)
  /\ LocksKnown(lock, extracted)
  /\ \A r \in Commands :
       /\ Placed(command[r])
       /\ Known(command[r], extracted)
       /\ Alone(r)
       /\ Begun(command[r]) /\ command[r].alone =>
            Sound(command[r], installed, lock, dirs, deployed, damaged)
  /\ ~overlapped => Serial

-------------------------------------------------------------------------------
(* What every step has in common.                                            *)

\* d differs from c at most in its ghost intact.
Same(c, d) ==
  /\ d.pc = c.pc /\ d.kind = c.kind /\ d.pkg = c.pkg /\ d.version = c.version
  /\ d.content = c.content /\ d.old = c.old /\ d.map = c.map /\ d.locks = c.locks
  /\ d.alone = c.alone

\* d differs from c in its place, x, and at most in its ghost intact.
At(c, x, d) ==
  /\ d.pc = x /\ d.kind = c.kind /\ d.pkg = c.pkg /\ d.version = c.version
  /\ d.content = c.content /\ d.old = c.old /\ d.map = c.map /\ d.locks = c.locks
  /\ d.alone = c.alone

\* Command r moves from c to d and the others stay where they are.
Moved(r) ==
  /\ command' \in [Commands -> Invocations]
  /\ \A q \in Commands \ {r} : Same(command[q], command'[q])

FilesTyped ==
  /\ installed \in [Packages -> RegistryEntries]
  /\ lock \in [Packages -> LockEntries]
  /\ dirs \in [Dirs -> DirStates]
  /\ deployed \in [Packages -> Contents \cup {Missing}]
  /\ extracted \subseteq Packages \X Versions \X Contents
  /\ damaged \subseteq Packages

LEMMA KnownGrows ==
  ASSUME NEW c, NEW d, NEW ext, NEW ext2, ext \subseteq ext2, Known(c, ext), Same(c, d)
  PROVE  Known(d, ext2)
<1>1. EntriesKnown(d.map, ext2)
  BY DEF Known, Same, EntriesKnown
<1>2. LocksKnown(d.locks, ext2)
  BY DEF Known, Same, LocksKnown
<1>3. d.pc \in Recording /\ d.kind # "remove" => <<d.pkg, d.version, d.content>> \in ext2
  BY DEF Known, Same
<1> QED
  BY <1>1, <1>2, <1>3 DEF Known

LEMMA PlacedSame ==
  ASSUME NEW c, NEW d, Placed(c), Same(c, d)
  PROVE  Placed(d)
BY DEF Placed, Same, Begun, HasFetched, HasLoaded

\* A step of an active command r preserves the invariant when it preserves what
\* concerns r and the files: whoever else believes to be alone has ended.
LEMMA StepKeeps ==
  ASSUME IInv, NEW r \in Commands, Active(r), Moved(r), FilesTyped',
         overlapped' = overlapped, extracted \subseteq extracted',
         EntriesKnown(installed', extracted'), LocksKnown(lock', extracted'),
         Placed(command'[r]), Known(command'[r], extracted'),
         command'[r].pc = "over" \/ (command'[r].pc # "idle" /\ command'[r].alone = command[r].alone),
         command[r].alone /\ Begun(command'[r]) =>
           Sound(command'[r], installed', lock', dirs', deployed', damaged'),
         command[r].alone /\ Serial =>
           /\ NotOver(lock', dirs')
           /\ AreThere(installed', Packages, dirs', damaged')
           /\ Active(r)' =>
                /\ NotOver(command'[r].locks, dirs')
                /\ AreThere(command'[r].map, Packages \ {command'[r].pkg}, dirs', damaged')
  PROVE  IInv'
<1>1. Begun(command[r])
  BY DEF Active, Begun
<1>2. ~overlapped => command[r].alone
  BY DEF IInv, Alone
<1>3. command[r].alone => \A q \in Commands \ {r} : ~Active(q)
  BY <1>1 DEF IInv, Alone
<1>4. \A q \in Commands \ {r} : Begun(command[q]) => ~command[q].alone
  <2> SUFFICES ASSUME NEW q \in Commands \ {r}, Begun(command[q]), command[q].alone
               PROVE  FALSE
    OBVIOUS
  <2>1. \A x \in Commands \ {q} : ~Active(x)
    BY DEF IInv, Alone
  <2> QED
    BY <2>1
<1>5. \A q \in Commands \ {r} :
        /\ Active(q)' <=> Active(q)
        /\ Begun(command[q])' <=> Begun(command[q])
        /\ command'[q].alone = command[q].alone
  BY DEF Moved, Same, Active, Begun
<1>6. PackagesTypeOK'
  BY DEF PackagesTypeOK, FilesTyped, Moved, IInv
<1>7. ASSUME NEW q \in Commands
      PROVE  Placed(command[q])' /\ Known(command[q], extracted)'
  <2>1. CASE q = r
    BY <2>1
  <2>2. CASE q # r
    <3>1. Placed(command[q]) /\ Known(command[q], extracted) /\ Same(command[q], command'[q])
      BY <2>2 DEF IInv, Moved
    <3> QED
      BY <3>1, KnownGrows, PlacedSame
  <2> QED
    BY <2>1, <2>2
<1>8. ASSUME NEW q \in Commands
      PROVE  Alone(q)'
  <2>1. CASE q = r
    <3>1. ASSUME Begun(command'[r]), command'[r].alone, NEW x \in Commands \ {r}
          PROVE  ~Active(x)'
      BY <1>3, <1>5, <3>1 DEF Begun
    <3>2. ~overlapped' /\ Active(r)' => command'[r].alone
      BY <1>2 DEF Active
    <3> QED
      BY <2>1, <3>1, <3>2 DEF Alone
  <2>2. CASE q # r
    BY <1>4, <1>5, <2>2 DEF Alone, IInv
  <2> QED
    BY <2>1, <2>2
<1>9. ASSUME NEW q \in Commands, Begun(command'[q]), command'[q].alone
      PROVE  Sound(command'[q], installed', lock', dirs', deployed', damaged')
  <2>1. CASE q = r
    BY <1>9, <2>1 DEF Begun
  <2>2. CASE q # r
    BY <1>4, <1>5, <1>9, <2>2
  <2> QED
    BY <2>1, <2>2
<1>10. ~overlapped' => Serial'
  <2> SUFFICES ASSUME ~overlapped' PROVE Serial'
    OBVIOUS
  <2>1. command[r].alone /\ Serial
    BY <1>2 DEF IInv
  <2>2. \A q \in Commands \ {r} : ~Active(q)'
    BY <1>3, <1>5, <2>1
  <2>3. /\ NotOver(lock', dirs')
        /\ AreThere(installed', Packages, dirs', damaged')
        /\ Active(r)' =>
             /\ NotOver(command'[r].locks, dirs')
             /\ AreThere(command'[r].map, Packages \ {command'[r].pkg}, dirs', damaged')
    BY <2>1
  <2> QED
    BY <2>2, <2>3 DEF Serial, Pkg
<1> QED
  BY <1>6, <1>7, <1>8, <1>9, <1>10 DEF IInv

LEMMA Facts ==
  ASSUME IInv, NEW r \in Commands, Active(r)
  PROVE  /\ command \in [Commands -> Invocations]
         /\ command[r] \in Invocations
         /\ Begun(command[r])
         /\ Placed(command[r])
         /\ Known(command[r], extracted)
         /\ command[r].pkg \in Packages
         /\ FilesTyped
         /\ EntriesKnown(installed, extracted) /\ LocksKnown(lock, extracted)
         /\ command[r].alone => Sound(command[r], installed, lock, dirs, deployed, damaged)
<1>1. Begun(command[r])
  BY DEF Active, Begun
<1>2. command \in [Commands -> Invocations] /\ FilesTyped
  BY DEF IInv, PackagesTypeOK, FilesTyped
<1>3. Placed(command[r]) /\ Known(command[r], extracted)
  BY DEF IInv
<1>4. EntriesKnown(installed, extracted) /\ LocksKnown(lock, extracted)
  BY DEF IInv
<1>5. command[r].alone => Sound(command[r], installed, lock, dirs, deployed, damaged)
  BY <1>1 DEF IInv
<1>6. command[r].pkg \in Packages
  BY <1>1, <1>3 DEF Placed
<1> QED
  BY <1>1, <1>2, <1>3, <1>4, <1>5, <1>6

LEMMA EmptyMapFacts ==
  /\ EmptyMap \in [Packages -> RegistryEntries]
  /\ EmptyMap \in [Packages -> LockEntries]
  /\ \A ext : EntriesKnown(EmptyMap, ext) /\ LocksKnown(EmptyMap, ext)
  /\ \A ds : NotOver(EmptyMap, ds)
  /\ \A ps \in SUBSET Packages : \A ds, dam : AreThere(EmptyMap, ps, ds, dam)
BY DEF EmptyMap, RegistryEntries, LockEntries, EntriesKnown, LocksKnown, NotOver, AreThere

\* Only command r changes, to d.
LEMMA MovedAlone ==
  ASSUME IInv, NEW r \in Commands, NEW d \in Invocations, command' = [command EXCEPT ![r] = d]
  PROVE  Moved(r) /\ command'[r] = d
BY DEF IInv, PackagesTypeOK, Moved, Same

\* Steps that leave the registry, the lock and the directories alone.
LEMMA QuietKeeps ==
  ASSUME IInv, NEW r \in Commands, Active(r),
         NEW d \in Invocations, command' = [command EXCEPT ![r] = d],
         UNCHANGED <<installed, lock, dirs, ghosts>>,
         deployed' \in [Packages -> Contents \cup {Missing}],
         Placed(d), Known(d, extracted),
         d.pc = "over" \/ (/\ d.pc # "idle" /\ d.alone = command[r].alone /\ d.pkg = Pkg(r)
                           /\ d.map \in {command[r].map, installed}
                           /\ d.locks \in {command[r].locks, lock}),
         command[r].alone /\ Begun(d) => Sound(d, installed, lock, dirs, deployed', damaged)
  PROVE  IInv'
<1>1. Moved(r) /\ command'[r] = d
  BY MovedAlone
<1>2. FilesTyped'
  BY Facts DEF FilesTyped, ghosts
<1>3. extracted' = extracted /\ damaged' = damaged /\ overlapped' = overlapped
  BY DEF ghosts
<1>4. EntriesKnown(installed', extracted') /\ LocksKnown(lock', extracted')
  BY <1>3, Facts
<1>5. ASSUME Serial
      PROVE  /\ NotOver(lock', dirs')
             /\ AreThere(installed', Packages, dirs', damaged')
             /\ Active(r)' =>
                  /\ NotOver(command'[r].locks, dirs')
                  /\ AreThere(command'[r].map, Packages \ {command'[r].pkg}, dirs', damaged')
  <2>1. NotOver(lock', dirs') /\ AreThere(installed', Packages, dirs', damaged')
    BY <1>3, <1>5 DEF Serial
  <2>2. AreThere(installed, Packages \ {Pkg(r)}, dirs, damaged)
    BY <1>5 DEF Serial, AreThere
  <2>3. /\ NotOver(command[r].locks, dirs)
        /\ AreThere(command[r].map, Packages \ {Pkg(r)}, dirs, damaged)
    BY <1>5 DEF Serial
  <2>4. ASSUME d.pc # "over"
        PROVE  NotOver(d.locks, dirs) /\ AreThere(d.map, Packages \ {d.pkg}, dirs, damaged)
    BY <1>5, <2>2, <2>3, <2>4 DEF Serial
  <2>5. Active(r)' => d.pc # "over"
    BY <1>1 DEF Active
  <2> QED
    BY <1>1, <1>3, <2>1, <2>4, <2>5
<1>6. command[r].alone /\ Begun(command'[r]) =>
        Sound(command'[r], installed', lock', dirs', deployed', damaged')
  BY <1>1, <1>3
<1>7. Placed(command'[r]) /\ Known(command'[r], extracted')
  BY <1>1, <1>3
<1>8. command'[r].pc = "over" \/ (command'[r].pc # "idle" /\ command'[r].alone = command[r].alone)
  BY <1>1
<1> QED
  BY <1>1, <1>2, <1>3, <1>4, <1>5, <1>6, <1>7, <1>8, StepKeeps

LEMMA StopKeeps ==
  ASSUME IInv, NEW r \in Commands, Active(r), GiveUp(r),
         UNCHANGED <<installed, lock, dirs, ghosts>>,
         deployed' \in [Packages -> Contents \cup {Missing}]
  PROVE  IInv'
<1> DEFINE d == [NotStarted EXCEPT !.pc = "over", !.pkg = Pkg(r)]
<1>1. command' = [command EXCEPT ![r] = d]
  BY DEF GiveUp
<1>2. d \in Invocations
  BY Facts, EmptyMapFacts DEF NotStarted, Invocations, Pkg
<1>3. Placed(d) /\ ~Begun(d)
  BY DEF NotStarted, Placed, Begun, HasFetched, HasLoaded
<1>4. d.pc = "over" /\ d.map = EmptyMap /\ d.locks = EmptyMap
  BY DEF NotStarted
<1>5. Known(d, extracted)
  BY <1>4, EmptyMapFacts DEF Known, Recording
<1> HIDE DEF d
<1> QED
  BY <1>1, <1>2, <1>3, <1>4, <1>5, QuietKeeps

LEMMA GiveUpKeeps ==
  ASSUME IInv, NEW r \in Commands, Active(r), GiveUp(r), UNCHANGED <<filesOfAikit, ghosts>>
  PROVE  IInv'
<1>1. UNCHANGED <<installed, lock, dirs, ghosts>> /\ deployed' \in [Packages -> Contents \cup {Missing}]
  BY Facts DEF filesOfAikit, FilesTyped
<1> QED
  BY <1>1, StopKeeps

-------------------------------------------------------------------------------
(* The steps that only read.                                                 *)

Places ==
  {"idle", "fetch", "load", "check", "extract", "extracting", "artifacts",
   "truncateRegistry", "writeRegistry", "lock", "truncateLock", "writeLock",
   "delete", "deleting", "deploy", "undeploy", "ok", "warned", "bare", "over"}

\* The shapes in which the locals of a command change.
LEMMA Updated ==
  ASSUME NEW c \in Invocations, NEW x \in Places
  PROVE  /\ \A v \in Versions, k \in Contents :
              [c EXCEPT !.pc = x, !.version = v, !.content = k] \in Invocations
         /\ \A m \in [Packages -> RegistryEntries], o \in Versions \cup {Missing} :
              [c EXCEPT !.pc = x, !.map = m, !.old = o] \in Invocations
         /\ \A m \in [Packages -> RegistryEntries] : [c EXCEPT !.pc = x, !.map = m] \in Invocations
         /\ \A l \in [Packages -> LockEntries] : [c EXCEPT !.pc = x, !.locks = l] \in Invocations
         /\ \A i \in BOOLEAN : [c EXCEPT !.pc = x, !.intact = i] \in Invocations
<1>1. ASSUME NEW v \in Versions, NEW k \in Contents
      PROVE  [c EXCEPT !.pc = x, !.version = v, !.content = k] \in Invocations
  BY DEF Invocations, Places
<1>2. ASSUME NEW m \in [Packages -> RegistryEntries], NEW o \in Versions \cup {Missing}
      PROVE  [c EXCEPT !.pc = x, !.map = m, !.old = o] \in Invocations
  BY DEF Invocations, Places
<1>3. ASSUME NEW m \in [Packages -> RegistryEntries]
      PROVE  [c EXCEPT !.pc = x, !.map = m] \in Invocations
  BY DEF Invocations, Places
<1>4. ASSUME NEW l \in [Packages -> LockEntries]
      PROVE  [c EXCEPT !.pc = x, !.locks = l] \in Invocations
  BY DEF Invocations, Places
<1>5. ASSUME NEW i \in BOOLEAN
      PROVE  [c EXCEPT !.pc = x, !.intact = i] \in Invocations
  BY DEF Invocations, Places
<1> QED
  BY <1>1, <1>2, <1>3, <1>4, <1>5

LEMMA FetchKeeps ==
  ASSUME IInv, NEW r \in Commands, Fetch(r)
  PROVE  IInv'
<1>1. Active(r) /\ command[r].pc = "fetch"
  BY DEF Fetch, Active
<1>2. PICK v \in Versions, c \in Contents :
        /\ command[r].kind = "update" => Newer(v, command[r].old)
        /\ command' = [command EXCEPT
             ![r].pc = IF command[r].kind = "install" THEN "load" ELSE "check",
             ![r].version = v, ![r].content = c]
  BY DEF Fetch
<1> DEFINE d == [command[r] EXCEPT !.pc = IF command[r].kind = "install" THEN "load" ELSE "check",
                                   !.version = v, !.content = c]
<1>3. command' = [command EXCEPT ![r] = d]
  BY <1>1, <1>2, Facts
<1>4. d \in Invocations
  <2>1. (IF command[r].kind = "install" THEN "load" ELSE "check") \in Places
    BY DEF Places
  <2> QED
    BY <1>1, <2>1, Facts, Updated
<1>5. /\ d.pc = (IF command[r].kind = "install" THEN "load" ELSE "check")
      /\ d.kind = command[r].kind /\ d.pkg = command[r].pkg /\ d.version = v /\ d.content = c
      /\ d.old = command[r].old /\ d.map = command[r].map /\ d.locks = command[r].locks
      /\ d.alone = command[r].alone
  BY <1>1, Facts DEF Invocations
<1> HIDE DEF d
<1>6. command[r].kind \in {"install", "update"}
  BY <1>1, Facts DEF Placed, Invocations
<1>7. Placed(d)
  BY <1>1, <1>2, <1>5, <1>6, Facts DEF Placed, Begun, HasFetched, HasLoaded, Newer
<1>8. Known(d, extracted)
  BY <1>1, <1>5, Facts DEF Known, Recording
<1>9. Sound(d, installed, lock, dirs, deployed', damaged)
  BY <1>5, <1>6 DEF Sound, PutSound, Recording, Registering, Locking
<1>10. UNCHANGED <<installed, lock, dirs, ghosts>> /\ deployed' \in [Packages -> Contents \cup {Missing}]
  BY <1>1, Facts DEF Fetch, filesOfAikit, FilesTyped
<1> QED
  BY <1>1, <1>3, <1>4, <1>5, <1>7, <1>8, <1>9, <1>10, QuietKeeps DEF Pkg

LEMMA LoadKeeps ==
  ASSUME IInv, NEW r \in Commands, Load(r)
  PROVE  IInv'
<1> DEFINE entry == installed[Pkg(r)]
           kind == command[r].kind
           next == CASE kind = "install" -> "check"
                     [] kind = "update" -> "fetch"
                     [] kind = "remove" -> "delete"
           old == IF entry = Missing THEN Missing ELSE entry.version
           d == [command[r] EXCEPT !.pc = next, !.map = installed, !.old = old]
<1>1. Active(r) /\ command[r].pc = "load"
  BY DEF Load, Active
<1>2. UNCHANGED <<filesOfAikit, ghosts>>
  BY DEF Load
<1>3. CASE GiveUp(r)
  BY <1>1, <1>2, <1>3, GiveUpKeeps
<1>4. CASE /\ kind # "install" => entry # Missing
           /\ command' = [command EXCEPT ![r].pc = next, ![r].map = installed, ![r].old = old]
  <2>1. command' = [command EXCEPT ![r] = d]
    <3> HIDE DEF next, old
    <3> QED
      BY <1>1, <1>4, Facts
  <2>2. kind \in {"install", "update", "remove"}
    BY <1>1, Facts DEF Invocations
  <2>3. next \in {"check", "fetch", "delete"}
    BY <2>2
  <2>4. entry \in RegistryEntries /\ installed \in [Packages -> RegistryEntries]
    BY <1>1, Facts DEF FilesTyped, Pkg
  <2>5. /\ entry # Missing => old \in Versions
        /\ old \in Versions \cup {Missing}
    BY <2>4 DEF RegistryEntries
  <2>6. d \in Invocations
    <3>1. next \in Places
      BY <2>3 DEF Places
    <3> HIDE DEF next, old
    <3> QED
      BY <1>1, <2>4, <2>5, <3>1, Facts, Updated
  <2>7. /\ d.pc = next /\ d.map = installed /\ d.old = old
        /\ d.kind = kind /\ d.pkg = command[r].pkg /\ d.version = command[r].version
        /\ d.content = command[r].content /\ d.locks = command[r].locks
        /\ d.alone = command[r].alone
    <3> HIDE DEF next, old
    <3> QED
      BY <1>1, Facts DEF Invocations
  <2>8. /\ kind = "install" => next = "check"
        /\ kind = "update" => next = "fetch"
        /\ kind = "remove" => next = "delete"
    OBVIOUS
  <2> HIDE DEF d, next, old, entry
  <2>9. Placed(d)
    BY <1>1, <1>4, <2>2, <2>5, <2>7, <2>8, Facts DEF Placed, Begun, HasFetched, HasLoaded
  <2>10. Known(d, extracted)
    BY <1>1, <2>3, <2>7, Facts DEF Known, Recording
  <2>11. Sound(d, installed, lock, dirs, deployed', damaged)
    BY <2>2, <2>7, <2>8 DEF Sound, PutSound, RemoveSound, Recording, Registering, Locking
  <2>12. UNCHANGED <<installed, lock, dirs, ghosts>>
         /\ deployed' \in [Packages -> Contents \cup {Missing}]
    BY <1>1, <1>2, Facts DEF filesOfAikit, FilesTyped
  <2> QED
    BY <1>1, <2>1, <2>3, <2>6, <2>7, <2>9, <2>10, <2>11, <2>12, QuietKeeps DEF Pkg
<1> QED
  BY <1>3, <1>4 DEF Load

\* A step to place x that changes nothing else of the command, of the files at
\* most what agents see.
LEMMA GotoKeeps ==
  ASSUME IInv, NEW r \in Commands, Active(r),
         NEW x \in {"extract", "truncateRegistry", "ok", "warned", "bare", "undeploy"}, Goto(r, x),
         UNCHANGED <<installed, lock, dirs, ghosts>>,
         deployed' \in [Packages -> Contents \cup {Missing}],
         command[r].pc \notin {"truncateLock", "writeLock"},
         \A d \in Invocations : At(command[r], x, d) =>
           /\ Placed(d)
           /\ Known(d, extracted)
           /\ command[r].alone => Sound(d, installed, lock, dirs, deployed', damaged)
  PROVE  IInv'
<1> DEFINE d == [command[r] EXCEPT !.pc = x]
<1>1. command' = [command EXCEPT ![r] = d]
  BY Facts DEF Goto
<1>2. d \in Invocations
  <2>1. command[r] \in Invocations /\ x \in Places
    BY Facts DEF Places
  <2>2. ASSUME NEW c \in Invocations
        PROVE  [c EXCEPT !.pc = x] \in Invocations
    BY <2>1 DEF Invocations, Places
  <2> QED
    BY <2>1, <2>2
<1>3. /\ d.pc = x /\ d.map = command[r].map /\ d.locks = command[r].locks
      /\ d.alone = command[r].alone /\ d.pkg = Pkg(r)
  BY Facts DEF Invocations, Pkg
<1>4. At(command[r], x, d)
  BY Facts DEF At, Invocations
<1>5. Placed(d) /\ Known(d, extracted)
      /\ (command[r].alone => Sound(d, installed, lock, dirs, deployed', damaged))
  BY <1>2, <1>4
<1> HIDE DEF d
<1> QED
  BY <1>1, <1>2, <1>3, <1>5, QuietKeeps


LEMMA CheckLockKeeps ==
  ASSUME IInv, NEW r \in Commands, CheckLock(r)
  PROVE  IInv'
<1>1. Active(r) /\ command[r].pc = "check"
  BY DEF CheckLock, Active
<1>2. UNCHANGED <<filesOfAikit, ghosts>>
  BY DEF CheckLock
<1>3. CASE GiveUp(r)
  BY <1>1, <1>2, <1>3, GiveUpKeeps
<1>4. CASE /\ ~Mismatch(lock, Pkg(r), command[r].version, command[r].content)
           /\ Goto(r, "extract")
  <2>1. command[r].kind # "remove"
    BY <1>1, Facts DEF Placed
  <2>2. ASSUME NEW d \in Invocations, At(command[r], "extract", d)
        PROVE  Placed(d) /\ Known(d, extracted) /\ Sound(d, installed, lock, dirs, deployed', damaged)
    <3>1. Placed(d)
      BY <1>1, <2>1, <2>2, Facts DEF Placed, At, Begun, HasFetched, HasLoaded
    <3>2. Known(d, extracted)
      BY <1>1, <2>2, Facts DEF Known, At, Recording
    <3>3. Sound(d, installed, lock, dirs, deployed', damaged)
      BY <1>4, <2>1, <2>2 DEF Sound, PutSound, At, Pkg, Recording, Registering, Locking
    <3> QED
      BY <3>1, <3>2, <3>3
  <2>3. UNCHANGED <<installed, lock, dirs, ghosts>>
        /\ deployed' \in [Packages -> Contents \cup {Missing}]
    BY <1>1, <1>2, Facts DEF filesOfAikit, FilesTyped
  <2> QED
    BY <1>1, <1>4, <2>2, <2>3, GotoKeeps
<1> QED
  BY <1>3, <1>4 DEF CheckLock

LEMMA CopyArtifactsKeeps ==
  ASSUME IInv, NEW r \in Commands, CopyArtifacts(r)
  PROVE  IInv'
<1>1. Active(r) /\ command[r].pc = "artifacts" /\ Goto(r, "truncateRegistry")
  BY DEF CopyArtifacts, Active
<1>2. UNCHANGED <<installed, lock, dirs, deployed, ghosts>>
  BY DEF CopyArtifacts, filesOfAikit
<1>3. command[r].kind # "remove"
  BY <1>1, Facts DEF Placed
<1>4. ASSUME NEW d \in Invocations, At(command[r], "truncateRegistry", d)
      PROVE  /\ Placed(d) /\ Known(d, extracted)
             /\ command[r].alone => Sound(d, installed, lock, dirs, deployed', damaged)
  <2>1. Placed(d)
    BY <1>1, <1>3, <1>4, Facts DEF Placed, At, Begun, HasFetched, HasLoaded
  <2>2. Known(d, extracted)
    BY <1>1, <1>4, Facts DEF Known, At, Recording
  <2>3. command[r].alone => Sound(d, installed, lock, dirs, deployed', damaged)
    BY <1>1, <1>2, <1>3, <1>4, Facts DEF Sound, PutSound, At, Recording, Registering, Locking
  <2> QED
    BY <2>1, <2>2, <2>3
<1>5. deployed' \in [Packages -> Contents \cup {Missing}]
  BY <1>1, <1>2, Facts DEF FilesTyped
<1> QED
  BY <1>1, <1>2, <1>4, <1>5, GotoKeeps

\* The content a directory's root has, when that content alone is in it.
LEMMA RootOfOne ==
  ASSUME NEW dir \in DirStates
  PROVE  /\ Root(dir) \in Contents \cup {Missing}
         /\ \A c \in Contents : dir.items = {c} /\ dir.top = c => Root(dir) = c
<1>1. dir.items \in SUBSET Contents /\ dir.top \in Contents \cup {Missing}
  BY DEF DirStates
<1>2. ASSUME NEW c \in Contents, dir.items = {c}, dir.top = c
      PROVE  Root(dir) = c
  <2>1. CASE c = Folder
    BY <1>2, <2>1 DEF Root
  <2>2. CASE c # Folder
    <3>1. c \in Archives /\ Folder \notin dir.items
      BY <1>2, <2>2 DEF Contents
    <3> QED
      BY <1>2, <3>1 DEF Root
  <2> QED
    BY <2>1, <2>2
<1>3. Root(dir) \in Contents \cup {Missing}
  BY <1>1 DEF Root, Contents
<1> QED
  BY <1>2, <1>3

LEMMA DeployKeeps ==
  ASSUME IInv, NEW r \in Commands, Deploy(r)
  PROVE  IInv'
<1> DEFINE root == Root(dirs[Dir(r)])
<1>1. Active(r) /\ command[r].pc = "deploy" /\ Goto(r, "ok")
  BY DEF Deploy, Active
<1>2. /\ UNCHANGED <<installed, lock, dirs, ghosts>>
      /\ root # Missing /\ deployed' = [deployed EXCEPT ![Pkg(r)] = root]
  BY DEF Deploy
<1>3. /\ command[r].kind = "install" /\ command[r].version \in Versions
      /\ command[r].content \in Contents /\ Dir(r) \in Dirs
  BY <1>1, Facts DEF Placed, HasFetched, Dir, Dirs
<1>4. dirs[Dir(r)] \in DirStates
  BY <1>1, <1>3, Facts DEF FilesTyped
<1>5. /\ root \in Contents \cup {Missing}
      /\ \A c \in Contents : dirs[Dir(r)].items = {c} /\ dirs[Dir(r)].top = c => root = c
  BY <1>4, RootOfOne
<1> HIDE DEF root
<1>6. /\ deployed' \in [Packages -> Contents \cup {Missing}]
      /\ deployed'[command[r].pkg] = root
  BY <1>1, <1>2, <1>5, Facts DEF FilesTyped, Pkg
<1>7. ASSUME NEW d \in Invocations, At(command[r], "ok", d)
      PROVE  /\ Placed(d) /\ Known(d, extracted)
             /\ command[r].alone => Sound(d, installed, lock, dirs, deployed', damaged)
  <2>1. Placed(d)
    BY <1>1, <1>3, <1>7, Facts DEF Placed, At, Begun, HasFetched, HasLoaded
  <2>2. Known(d, extracted)
    BY <1>1, <1>7, Facts DEF Known, At, Recording
  <2>3. ASSUME command[r].alone
        PROVE  Sound(d, installed, lock, dirs, deployed', damaged)
    <3>1. PutSound(command[r], installed, lock, dirs, deployed)
      BY <1>1, <1>3, <2>3, Facts DEF Sound
    <3>2. dirs[Dir(r)].items # {command[r].content} \/ deployed'[command[r].pkg] = command[r].content
      <4>1. dirs[Dir(r)].top = command[r].content
        BY <1>1, <3>1 DEF PutSound, Locking, Dir
      <4>2. command[r].content # Missing
        BY <1>3, ContentsAssumption DEF Contents
      <4> QED
        BY <1>3, <1>5, <1>6, <4>1, <4>2
    <3>3. PutSound(d, installed, lock, dirs, deployed')
      BY <1>1, <1>7, <3>1, <3>2 DEF PutSound, At, Dir, Recording, Registering, Locking
    <3> QED
      BY <1>3, <1>7, <3>3 DEF Sound, At
  <2> QED
    BY <2>1, <2>2, <2>3
<1> QED
  BY <1>1, <1>2, <1>6, <1>7, GotoKeeps

\* What is partly written is still of its type.
LEMMA PartlyTyped ==
  ASSUME IInv, NEW r \in Commands, Active(r), command[r].pc = "deploy",
         deployed' \in PartlyWritten(r)
  PROVE  deployed' \in [Packages -> Contents \cup {Missing}]
<1>1. /\ command[r].pkg \in Packages /\ command[r].kind = "install"
      /\ command[r].version \in Versions
      /\ deployed \in [Packages -> Contents \cup {Missing}]
  BY Facts DEF Placed, HasFetched, Begun, FilesTyped
<1>2. dirs[Dir(r)] \in DirStates
  <2>1. Dir(r) \in Dirs
    BY <1>1 DEF Dir, Dirs
  <2> QED
    BY <2>1, Facts DEF FilesTyped
<1>3. Root(dirs[Dir(r)]) \in Contents \cup {Missing}
  BY <1>2, RootOfOne
<1> QED
  BY <1>1, <1>3 DEF PartlyWritten, Pkg

LEMMA DeployWarnsKeeps ==
  ASSUME IInv, NEW r \in Commands, DeployWarns(r)
  PROVE  IInv'
<1>1. /\ Active(r) /\ command[r].pc = "deploy" /\ Goto(r, "warned")
      /\ UNCHANGED <<installed, lock, dirs, ghosts>>
  BY DEF DeployWarns, Active
<1>2. deployed' \in [Packages -> Contents \cup {Missing}]
  BY <1>1, PartlyTyped DEF DeployWarns
<1>3. command[r].kind = "install"
  BY <1>1, Facts DEF Placed
<1>4. ASSUME NEW d \in Invocations, At(command[r], "warned", d)
      PROVE  /\ Placed(d) /\ Known(d, extracted)
             /\ command[r].alone => Sound(d, installed, lock, dirs, deployed', damaged)
  <2>1. Placed(d)
    BY <1>1, <1>3, <1>4, Facts DEF Placed, At, Begun, HasFetched, HasLoaded
  <2>2. Known(d, extracted)
    BY <1>1, <1>4, Facts DEF Known, At, Recording
  <2>3. command[r].alone => Sound(d, installed, lock, dirs, deployed', damaged)
    BY <1>1, <1>3, <1>4, Facts DEF Sound, PutSound, At, Recording, Registering, Locking
  <2> QED
    BY <2>1, <2>2, <2>3
<1> QED
  BY <1>1, <1>2, <1>4, GotoKeeps

LEMMA DeployFailsKeeps ==
  ASSUME IInv, NEW r \in Commands, DeployFails(r)
  PROVE  IInv'
<1>1. /\ Active(r) /\ command[r].pc = "deploy" /\ GiveUp(r)
      /\ UNCHANGED <<installed, lock, dirs, ghosts>>
  BY DEF DeployFails, Active
<1>2. deployed' \in [Packages -> Contents \cup {Missing}]
  BY <1>1, PartlyTyped DEF DeployFails
<1> QED
  BY <1>1, <1>2, StopKeeps

LEMMA UndeployKeeps ==
  ASSUME IInv, NEW r \in Commands, Undeploy(r)
  PROVE  IInv'
<1>1. Active(r) /\ command[r].pc = "undeploy" /\ Goto(r, "ok")
  BY DEF Undeploy, Active
<1>2. UNCHANGED <<installed, lock, dirs, ghosts>>
  BY DEF Undeploy
<1>3. deployed' \in [Packages -> Contents \cup {Missing}]
  BY <1>1, Facts DEF Undeploy, FilesTyped
<1>4. command[r].kind = "remove"
  BY <1>1, Facts DEF Placed
<1>5. ASSUME NEW d \in Invocations, At(command[r], "ok", d)
      PROVE  /\ Placed(d) /\ Known(d, extracted)
             /\ command[r].alone => Sound(d, installed, lock, dirs, deployed', damaged)
  <2>1. Placed(d)
    BY <1>1, <1>4, <1>5, Facts DEF Placed, At, Begun, HasFetched, HasLoaded
  <2>2. Known(d, extracted)
    BY <1>1, <1>5, Facts DEF Known, At, Recording
  <2>3. command[r].alone => Sound(d, installed, lock, dirs, deployed', damaged)
    BY <1>1, <1>4, <1>5, Facts DEF Sound, RemoveSound, At, Recording, Registering
  <2> QED
    BY <2>1, <2>2, <2>3
<1> QED
  BY <1>1, <1>2, <1>3, <1>5, GotoKeeps


LEMMA DeclineKeeps ==
  ASSUME IInv, NEW r \in Commands, Decline(r)
  PROVE  IInv'
<1>1. UNCHANGED <<filesOfAikit, ghosts>>
  BY DEF Decline
<1>2. CASE command[r].pc = "check" /\ GiveUp(r)
  BY <1>1, <1>2, GiveUpKeeps DEF Active
<1>3. CASE command[r].pc = "deploy" /\ Goto(r, "bare")
  <2>1. Active(r)
    BY <1>3 DEF Active
  <2>2. command[r].kind = "install"
    BY <1>3, <2>1, Facts DEF Placed
  <2>3. UNCHANGED <<installed, lock, dirs, deployed, ghosts>>
        /\ deployed' \in [Packages -> Contents \cup {Missing}]
    BY <1>1, <2>1, Facts DEF filesOfAikit, FilesTyped
  <2>4. ASSUME NEW d \in Invocations, At(command[r], "bare", d)
        PROVE  /\ Placed(d) /\ Known(d, extracted)
               /\ command[r].alone => Sound(d, installed, lock, dirs, deployed', damaged)
    <3>1. Placed(d)
      BY <1>3, <2>1, <2>2, <2>4, Facts DEF Placed, At, Begun, HasFetched, HasLoaded
    <3>2. Known(d, extracted)
      BY <2>1, <2>4, Facts DEF Known, At, Recording
    <3>3. command[r].alone => Sound(d, installed, lock, dirs, deployed', damaged)
      BY <1>3, <2>1, <2>2, <2>3, <2>4, Facts
         DEF Sound, PutSound, At, Recording, Registering, Locking
    <3> QED
      BY <3>1, <3>2, <3>3
  <2> QED
    BY <1>3, <2>1, <2>3, <2>4, GotoKeeps
<1> QED
  BY <1>2, <1>3 DEF Decline

LEMMA DeleteFailsKeeps ==
  ASSUME IInv, NEW r \in Commands, DeleteFails(r)
  PROVE  IInv'
<1>1. /\ Active(r) /\ command[r].pc \in {"delete", "deleting"} /\ Goto(r, "ok")
      /\ command[r].kind = "update"
  BY DEF DeleteFails, Active
<1>2. UNCHANGED <<installed, lock, dirs, deployed, ghosts>>
      /\ deployed' \in [Packages -> Contents \cup {Missing}]
  BY <1>1, Facts DEF DeleteFails, filesOfAikit, FilesTyped
<1>3. ASSUME NEW d \in Invocations, At(command[r], "ok", d)
      PROVE  /\ Placed(d) /\ Known(d, extracted)
             /\ command[r].alone => Sound(d, installed, lock, dirs, deployed', damaged)
  <2>1. Placed(d)
    BY <1>1, <1>3, Facts DEF Placed, At, Begun, HasFetched, HasLoaded
  <2>2. Known(d, extracted)
    BY <1>1, <1>3, Facts DEF Known, At, Recording
  <2>3. command[r].alone => Sound(d, installed, lock, dirs, deployed', damaged)
    BY <1>1, <1>2, <1>3, Facts DEF Sound, PutSound, At, Recording, Registering, Locking
  <2> QED
    BY <2>1, <2>2, <2>3
<1> QED
  BY <1>1, <1>2, <1>3, GotoKeeps

LEMMA LoadLockKeeps ==
  ASSUME IInv, NEW r \in Commands, LoadLock(r)
  PROVE  IInv'
<1>1. Active(r) /\ command[r].pc = "lock"
  BY DEF LoadLock, Active
<1>2. /\ UNCHANGED <<filesOfAikit, ghosts>>
      /\ UNCHANGED <<installed, lock, dirs, deployed, ghosts>>
      /\ deployed' \in [Packages -> Contents \cup {Missing}]
  BY <1>1, Facts DEF LoadLock, filesOfAikit, FilesTyped
<1>3. CASE command[r].kind = "remove" /\ lock[Pkg(r)] = Missing /\ Goto(r, "undeploy")
  <2>1. ASSUME NEW d \in Invocations, At(command[r], "undeploy", d)
        PROVE  /\ Placed(d) /\ Known(d, extracted)
               /\ command[r].alone => Sound(d, installed, lock, dirs, deployed', damaged)
    <3>1. Placed(d)
      BY <1>1, <1>3, <2>1, Facts DEF Placed, At, Begun, HasFetched, HasLoaded
    <3>2. Known(d, extracted)
      BY <1>1, <2>1, Facts DEF Known, At, Recording
    <3>3. command[r].alone => Sound(d, installed, lock, dirs, deployed', damaged)
      BY <1>1, <1>3, <2>1, Facts DEF Sound, RemoveSound, At, Pkg, Recording, Registering
    <3> QED
      BY <3>1, <3>2, <3>3
  <2> QED
    BY <1>1, <1>2, <1>3, <2>1, GotoKeeps
<1>4. CASE GiveUp(r)
  BY <1>1, <1>2, <1>4, GiveUpKeeps
<1>5. CASE command' = [command EXCEPT ![r].pc = "truncateLock", ![r].locks = lock]
  <2> DEFINE d == [command[r] EXCEPT !.pc = "truncateLock", !.locks = lock]
  <2>1. command' = [command EXCEPT ![r] = d]
    BY <1>1, <1>5, Facts
  <2>2. d \in Invocations
    <3>1. "truncateLock" \in Places /\ lock \in [Packages -> LockEntries]
      BY <1>1, Facts DEF Places, FilesTyped
    <3> QED
      BY <1>1, <3>1, Facts, Updated
  <2>3. /\ d.pc = "truncateLock" /\ d.locks = lock /\ d.kind = command[r].kind
        /\ d.pkg = command[r].pkg /\ d.version = command[r].version
        /\ d.content = command[r].content /\ d.old = command[r].old
        /\ d.map = command[r].map /\ d.alone = command[r].alone
    BY <1>1, Facts DEF Invocations
  <2> HIDE DEF d
  <2>4. Placed(d)
    BY <1>1, <2>3, Facts DEF Placed, Begun, HasFetched, HasLoaded
  <2>5. Known(d, extracted)
    BY <1>1, <2>3, Facts DEF Known, Recording
  <2>6. command[r].alone => Sound(d, installed, lock, dirs, deployed', damaged)
    <3>1. command[r].alone => Sound(command[r], installed, lock, dirs, deployed, damaged)
      BY <1>1, Facts
    <3> QED
      BY <1>1, <2>3, <3>1 DEF Sound, PutSound, RemoveSound, Recording, Registering, Locking
  <2> QED
    BY <1>1, <1>2, <2>1, <2>2, <2>3, <2>4, <2>5, <2>6, QuietKeeps DEF Pkg
<1> QED
  BY <1>3, <1>4, <1>5 DEF LoadLock

-------------------------------------------------------------------------------
(* The steps that write the two files.                                       *)

LEMMA TruncateRegistryKeeps ==
  ASSUME IInv, NEW r \in Commands, TruncateRegistry(r)
  PROVE  IInv'
<1> DEFINE d == [command[r] EXCEPT !.pc = "writeRegistry"]
<1>1. Active(r) /\ command[r].pc = "truncateRegistry"
  BY DEF TruncateRegistry, Active
<1>2. /\ installed' = EmptyMap /\ command' = [command EXCEPT ![r] = d]
      /\ UNCHANGED <<lock, dirs, deployed, extracted, damaged, overlapped>>
  BY <1>1, Facts DEF TruncateRegistry, Goto, ghosts
<1>3. d \in Invocations /\ At(command[r], "writeRegistry", d)
  BY <1>1, Facts, ZenonT(60) DEF Invocations, At
<1> HIDE DEF d
<1>4. Moved(r) /\ command'[r] = d
  BY <1>2, <1>3, MovedAlone
<1>5. Placed(d)
  BY <1>1, <1>3, Facts DEF Placed, At, Begun, HasFetched, HasLoaded
<1>6. Known(d, extracted)
  BY <1>1, <1>3, Facts DEF Known, At, Recording
<1>7. command[r].alone => Sound(d, installed', lock, dirs, deployed, damaged)
  <2>1. command[r].alone => Sound(command[r], installed, lock, dirs, deployed, damaged)
    BY <1>1, Facts
  <2> QED
    BY <1>1, <1>3, <2>1 DEF Sound, PutSound, RemoveSound, At, Recording, Registering, Locking
<1>8. ASSUME Serial
      PROVE  /\ NotOver(lock', dirs')
             /\ AreThere(installed', Packages, dirs', damaged')
             /\ NotOver(d.locks, dirs')
             /\ AreThere(d.map, Packages \ {d.pkg}, dirs', damaged')
  <2>1. NotOver(lock', dirs') /\ AreThere(installed', Packages, dirs', damaged')
    BY <1>2, <1>8, EmptyMapFacts DEF Serial
  <2>2. NotOver(command[r].locks, dirs) /\ AreThere(command[r].map, Packages \ {Pkg(r)}, dirs, damaged)
    BY <1>1, <1>8 DEF Serial
  <2> QED
    BY <1>2, <1>3, <2>1, <2>2 DEF At, Pkg
<1>9. FilesTyped' /\ EntriesKnown(installed', extracted') /\ LocksKnown(lock', extracted')
  BY <1>1, <1>2, Facts, EmptyMapFacts DEF FilesTyped
<1>10. d.pc # "idle" /\ d.alone = command[r].alone
  BY <1>3 DEF At
<1> QED
  BY <1>1, <1>2, <1>4, <1>5, <1>6, <1>7, <1>8, <1>9, <1>10, StepKeeps

LEMMA TruncateLockKeeps ==
  ASSUME IInv, NEW r \in Commands, TruncateLock(r)
  PROVE  IInv'
<1> DEFINE d == [command[r] EXCEPT !.pc = "writeLock"]
<1>1. Active(r) /\ command[r].pc = "truncateLock"
  BY DEF TruncateLock, Active
<1>2. /\ lock' = EmptyMap /\ command' = [command EXCEPT ![r] = d]
      /\ UNCHANGED <<installed, dirs, deployed, extracted, damaged, overlapped>>
  BY <1>1, Facts DEF TruncateLock, Goto, ghosts
<1>3. d \in Invocations /\ At(command[r], "writeLock", d)
  BY <1>1, Facts, SMTT(60) DEF Invocations, At
<1> HIDE DEF d
<1>4. Moved(r) /\ command'[r] = d
  BY <1>2, <1>3, MovedAlone
<1>5. Placed(d)
  BY <1>1, <1>3, Facts DEF Placed, At, Begun, HasFetched, HasLoaded
<1>6. Known(d, extracted)
  BY <1>1, <1>3, Facts DEF Known, At, Recording
<1>7. command[r].alone => Sound(d, installed, lock', dirs, deployed, damaged)
  <2>1. command[r].alone => Sound(command[r], installed, lock, dirs, deployed, damaged)
    BY <1>1, Facts
  <2> QED
    BY <1>1, <1>3, <2>1 DEF Sound, PutSound, RemoveSound, At, Recording, Registering, Locking
<1>8. ASSUME Serial
      PROVE  /\ NotOver(lock', dirs')
             /\ AreThere(installed', Packages, dirs', damaged')
             /\ NotOver(d.locks, dirs')
             /\ AreThere(d.map, Packages \ {d.pkg}, dirs', damaged')
  <2>1. NotOver(lock', dirs') /\ AreThere(installed', Packages, dirs', damaged')
    BY <1>2, <1>8, EmptyMapFacts DEF Serial
  <2>2. NotOver(command[r].locks, dirs) /\ AreThere(command[r].map, Packages \ {Pkg(r)}, dirs, damaged)
    BY <1>1, <1>8 DEF Serial
  <2> QED
    BY <1>2, <1>3, <2>1, <2>2 DEF At, Pkg
<1>9. FilesTyped' /\ EntriesKnown(installed', extracted') /\ LocksKnown(lock', extracted')
  BY <1>1, <1>2, Facts, EmptyMapFacts DEF FilesTyped
<1>10. d.pc # "idle" /\ d.alone = command[r].alone
  BY <1>3 DEF At
<1> QED
  BY <1>1, <1>2, <1>4, <1>5, <1>6, <1>7, <1>8, <1>9, <1>10, StepKeeps


LEMMA WriteRegistryKeeps ==
  ASSUME IInv, NEW r \in Commands, WriteRegistry(r)
  PROVE  IInv'
<1> DEFINE c == command[r]
           d == [c EXCEPT !.pc = "lock", !.map = EmptyMap]
<1>1. Active(r) /\ c.pc = "writeRegistry"
  BY DEF WriteRegistry, Active
<1>2. /\ installed' = [c.map EXCEPT ![c.pkg] = NewEntry(r)] /\ damaged' = damaged \ {c.pkg}
      /\ UNCHANGED <<lock, dirs, deployed, extracted, overlapped>>
  BY DEF WriteRegistry, Pkg
<1>3. command' = [command EXCEPT ![r] = d]
  BY <1>1, Facts DEF WriteRegistry
<1>4. d \in Invocations
  <2>1. "lock" \in Places
    BY DEF Places
  <2> QED
    BY <1>1, <2>1, Facts, EmptyMapFacts, Updated
<1>5. /\ d.pc = "lock" /\ d.map = EmptyMap /\ d.locks = c.locks /\ d.kind = c.kind
      /\ d.pkg = c.pkg /\ d.version = c.version /\ d.content = c.content /\ d.old = c.old
      /\ d.alone = c.alone
  BY <1>1, Facts DEF Invocations
<1>6. Moved(r) /\ command'[r] = d
  BY <1>3, <1>4, MovedAlone
<1>7. c.map \in [Packages -> RegistryEntries] /\ c.pkg \in Packages
  BY <1>1, Facts DEF Invocations
<1>8. /\ installed'[c.pkg] = NewEntry(r)
      /\ \A p \in Packages \ {c.pkg} : installed'[p] = c.map[p]
  BY <1>2, <1>7
<1>9. /\ NewEntry(r) \in RegistryEntries
      /\ NewEntry(r) # Missing =>
           /\ \E x \in Contents : <<c.pkg, NewEntry(r).version, x>> \in extracted
           /\ c.alone => dirs[<<c.pkg, NewEntry(r).version>>].whole # {}
  <2>1. CASE c.kind = "remove"
    BY <2>1 DEF NewEntry, RegistryEntries
  <2>2. CASE c.kind # "remove"
    <3>1. c.version \in Versions /\ c.content \in Contents
      BY <1>1, <2>2, Facts DEF Placed, HasFetched
    <3>2. NewEntry(r) \in RegistryEntries /\ NewEntry(r).version = c.version
      BY <2>2, <3>1 DEF NewEntry, Registered, RegistryEntries
    <3>3. <<c.pkg, c.version, c.content>> \in extracted
      BY <1>1, <2>2, Facts DEF Known, Recording
    <3>4. c.alone => c.content \in dirs[<<c.pkg, c.version>>].whole
      BY <1>1, <2>2, Facts DEF Sound, PutSound, Recording
    <3> QED
      BY <3>1, <3>2, <3>3, <3>4
  <2> QED
    BY <2>1, <2>2
<1>10. c.alone => Sound(d, installed', lock, dirs, deployed, damaged')
  <2>1. c.alone => Sound(c, installed, lock, dirs, deployed, damaged)
    BY <1>1, Facts
  <2>2. CASE c.kind = "remove"
    BY <1>1, <1>5, <1>8, <2>1, <2>2
       DEF Sound, RemoveSound, NewEntry, Recording, Registering
  <2>3. CASE c.kind # "remove"
    BY <1>1, <1>5, <1>8, <2>1, <2>3
       DEF Sound, PutSound, NewEntry, Recording, Registering, Locking
  <2> QED
    BY <2>2, <2>3
<1> HIDE DEF d
<1>11. Placed(d)
  BY <1>1, <1>5, Facts DEF Placed, Begun, HasFetched, HasLoaded
<1>12. Known(d, extracted)
  BY <1>1, <1>5, Facts, EmptyMapFacts DEF Known, Recording
<1>13. FilesTyped' /\ LocksKnown(lock', extracted')
  <2>1. installed' \in [Packages -> RegistryEntries]
    BY <1>2, <1>7, <1>9
  <2> QED
    BY <1>1, <1>2, <2>1, Facts DEF FilesTyped
<1>14. EntriesKnown(installed', extracted')
  <2>1. EntriesKnown(c.map, extracted)
    BY <1>1, Facts DEF Known
  <2> SUFFICES ASSUME NEW p \in Packages, installed'[p] # Missing
               PROVE  \E x \in Contents : <<p, installed'[p].version, x>> \in extracted
    BY <1>2 DEF EntriesKnown
  <2>2. CASE p = c.pkg
    BY <1>8, <1>9, <2>2
  <2>3. CASE p # c.pkg
    <3>1. installed'[p] = c.map[p]
      BY <1>8, <2>3
    <3> HIDE DEF c
    <3> QED
      BY <2>1, <3>1 DEF EntriesKnown
  <2> QED
    BY <2>2, <2>3
<1>15. ASSUME Serial, c.alone
       PROVE  /\ NotOver(lock', dirs')
              /\ AreThere(installed', Packages, dirs', damaged')
              /\ NotOver(d.locks, dirs')
              /\ AreThere(d.map, Packages \ {d.pkg}, dirs', damaged')
  <2>1. AreThere(c.map, Packages \ {c.pkg}, dirs, damaged) /\ NotOver(c.locks, dirs)
    BY <1>1, <1>15 DEF Serial, Pkg
  <2>2. AreThere(installed', Packages, dirs, damaged')
    BY <1>2, <1>8, <1>9, <1>15, <2>1 DEF AreThere
  <2>3. AreThere(d.map, Packages \ {d.pkg}, dirs', damaged')
    BY <1>5, EmptyMapFacts
  <2>4. NotOver(lock', dirs')
    BY <1>2, <1>15 DEF Serial
  <2> QED
    BY <1>2, <1>5, <2>1, <2>2, <2>3, <2>4
<1> HIDE DEF c
<1>16. d.pc # "idle" /\ d.alone = command[r].alone
  BY <1>5 DEF c
<1> QED
  BY <1>1, <1>2, <1>6, <1>10, <1>11, <1>12, <1>13, <1>14, <1>15, <1>16, StepKeeps DEF c

LEMMA LockedFacts ==
  ASSUME NEW v \in Versions, NEW k \in Contents
  PROVE  /\ Locked(v, k) \in LockEntries
         /\ Locked(v, k).version = v
         /\ ContentOf(Locked(v, k)) = k
<1>1. CASE k = Folder
  BY <1>1 DEF Locked, LockEntries, ContentOf
<1>2. CASE k # Folder
  <2>1. k \in Archives /\ k # Missing
    BY <1>2, ContentsAssumption DEF Contents
  <2> QED
    BY <1>2, <2>1 DEF Locked, LockEntries, ContentOf
<1> QED
  BY <1>1, <1>2

LEMMA WriteLockKeeps ==
  ASSUME IInv, NEW r \in Commands, WriteLock(r)
  PROVE  IInv'
<1> DEFINE c == command[r]
           next == CASE c.kind = "install" -> "deploy"
                     [] c.kind = "update" -> "delete"
                     [] c.kind = "remove" -> "undeploy"
           d == [c EXCEPT !.pc = next, !.locks = EmptyMap]
<1>1. Active(r) /\ c.pc = "writeLock"
  BY DEF WriteLock, Active
<1>2. /\ lock' = [c.locks EXCEPT ![c.pkg] = NewLock(r)]
      /\ UNCHANGED <<installed, dirs, deployed, extracted, damaged, overlapped>>
  BY DEF WriteLock, Pkg, ghosts
<1>3. command' = [command EXCEPT ![r] = d]
  <2>1. command' = [command EXCEPT ![r].pc = next, ![r].locks = EmptyMap]
    BY DEF WriteLock
  <2> HIDE DEF next
  <2> QED
    BY <1>1, <2>1, Facts
<1>4. /\ c.kind = "install" => next = "deploy"
      /\ c.kind = "update" => next = "delete"
      /\ c.kind = "remove" => next = "undeploy"
      /\ c.kind \in {"install", "update", "remove"}
  BY <1>1, Facts DEF Invocations
<1> HIDE DEF next
<1>5. d \in Invocations
  <2>1. next \in Places
    BY <1>4 DEF Places
  <2> QED
    BY <1>1, <2>1, Facts, EmptyMapFacts, Updated
<1>6. /\ d.pc = next /\ d.map = c.map /\ d.locks = EmptyMap /\ d.kind = c.kind
      /\ d.pkg = c.pkg /\ d.version = c.version /\ d.content = c.content /\ d.old = c.old
      /\ d.alone = c.alone
  BY <1>1, Facts DEF Invocations
<1>7. Moved(r) /\ command'[r] = d
  BY <1>3, <1>5, MovedAlone
<1>8. c.locks \in [Packages -> LockEntries] /\ c.pkg \in Packages
  BY <1>1, Facts DEF Invocations
<1>9. /\ lock'[c.pkg] = NewLock(r)
      /\ \A p \in Packages \ {c.pkg} : lock'[p] = c.locks[p]
  BY <1>2, <1>8
<1>10. /\ NewLock(r) \in LockEntries
       /\ NewLock(r) # Missing =>
            /\ <<c.pkg, NewLock(r).version, ContentOf(NewLock(r))>> \in extracted
            /\ c.alone => dirs[<<c.pkg, NewLock(r).version>>].top = ContentOf(NewLock(r))
  <2>1. CASE c.kind = "remove"
    BY <2>1 DEF NewLock, LockEntries
  <2>2. CASE c.kind # "remove"
    <3>1. c.version \in Versions /\ c.content \in Contents
      BY <1>1, <2>2, Facts DEF Placed, HasFetched
    <3>2. /\ NewLock(r) \in LockEntries /\ NewLock(r).version = c.version
          /\ ContentOf(NewLock(r)) = c.content
      BY <2>2, <3>1, LockedFacts DEF NewLock
    <3>3. <<c.pkg, c.version, c.content>> \in extracted
      BY <1>1, <2>2, Facts DEF Known, Recording
    <3>4. c.alone => dirs[<<c.pkg, c.version>>].top = c.content
      BY <1>1, <2>2, Facts DEF Sound, PutSound, Recording
    <3> QED
      BY <3>2, <3>3, <3>4
  <2> QED
    BY <2>1, <2>2
<1>11. c.alone => Sound(d, installed, lock', dirs, deployed, damaged)
  <2>1. c.alone => Sound(c, installed, lock, dirs, deployed, damaged)
    BY <1>1, Facts
  <2>2. CASE c.kind = "remove"
    BY <1>1, <1>4, <1>6, <1>9, <2>1, <2>2
       DEF Sound, RemoveSound, NewLock, Recording, Registering
  <2>3. CASE c.kind # "remove"
    BY <1>1, <1>4, <1>6, <1>9, <2>1, <2>3
       DEF Sound, PutSound, NewLock, Recording, Registering, Locking
  <2> QED
    BY <2>2, <2>3
<1> HIDE DEF d
<1>12. Placed(d)
  BY <1>1, <1>4, <1>6, Facts DEF Placed, Begun, HasFetched, HasLoaded
<1>13. Known(d, extracted)
  BY <1>1, <1>4, <1>6, Facts, EmptyMapFacts DEF Known, Recording
<1>14. FilesTyped' /\ EntriesKnown(installed', extracted')
  <2>1. lock' \in [Packages -> LockEntries]
    BY <1>2, <1>8, <1>10
  <2> QED
    BY <1>1, <1>2, <2>1, Facts DEF FilesTyped
<1>15. LocksKnown(lock', extracted')
  <2>1. LocksKnown(c.locks, extracted)
    BY <1>1, Facts DEF Known
  <2> QED
    BY <1>2, <1>9, <1>10, <2>1 DEF LocksKnown
<1>16. ASSUME Serial, c.alone
       PROVE  /\ NotOver(lock', dirs')
              /\ AreThere(installed', Packages, dirs', damaged')
              /\ NotOver(d.locks, dirs')
              /\ AreThere(d.map, Packages \ {d.pkg}, dirs', damaged')
  <2>1. AreThere(c.map, Packages \ {c.pkg}, dirs, damaged) /\ NotOver(c.locks, dirs)
    BY <1>1, <1>16 DEF Serial, Pkg
  <2>2. NotOver(lock', dirs)
    BY <1>9, <1>10, <1>16, <2>1 DEF NotOver
  <2>3. NotOver(d.locks, dirs')
    BY <1>6, EmptyMapFacts
  <2>4. AreThere(installed', Packages, dirs', damaged')
    BY <1>2, <1>16 DEF Serial
  <2> QED
    BY <1>2, <1>6, <2>1, <2>2, <2>3, <2>4
<1> HIDE DEF c
<1>17. d.pc # "idle" /\ d.alone = command[r].alone
  BY <1>4, <1>6 DEF c
<1> QED
  BY <1>1, <1>2, <1>7, <1>11, <1>12, <1>13, <1>14, <1>15, <1>16, <1>17, StepKeeps DEF c

-------------------------------------------------------------------------------
(* The steps that change a package directory.                                *)

LEMMA DisturbMoves ==
  ASSUME IInv, NEW r \in Commands, NEW d \in Invocations, NEW others, Disturb(others, r, d)
  PROVE  Moved(r) /\ command'[r] = d
<1>1. command \in [Commands -> Invocations]
  BY DEF IInv, PackagesTypeOK
<1>2. command' = [q \in Commands |->
                    IF q = r THEN d ELSE [command[q] EXCEPT !.intact = @ /\ q \notin others]]
  BY DEF Disturb
<1>3. command'[r] = d
  BY <1>2
<1>4. ASSUME NEW q \in Commands \ {r}
      PROVE  command'[q] \in Invocations /\ Same(command[q], command'[q])
  <2> DEFINE i == command[q].intact /\ q \notin others
  <2>1. command'[q] = [command[q] EXCEPT !.intact = i]
    BY <1>2
  <2>2. command[q] \in Invocations
    BY <1>1
  <2>3. i \in BOOLEAN
    OBVIOUS
  <2> HIDE DEF i
  <2> QED
    BY <2>1, <2>2, <2>3 DEF Invocations, Same
<1>5. command' \in [Commands -> Invocations]
  BY <1>2, <1>3, <1>4
<1> QED
  BY <1>3, <1>4, <1>5 DEF Moved

\* A directory that one step writes, seen from the registry and the lock.
LEMMA OtherDirs ==
  ASSUME NEW pkg \in Packages, NEW v, \A x \in Dirs \ {<<pkg, v>>} : dirs'[x] = dirs[x],
         NEW dam \in SUBSET Packages, NEW dam2 \in SUBSET Packages, dam \subseteq dam2
  PROVE  /\ \A m \in [Packages -> RegistryEntries] :
              AreThere(m, Packages \ {pkg}, dirs, dam) => AreThere(m, Packages \ {pkg}, dirs', dam2)
         /\ \A m \in [Packages -> RegistryEntries] :
              /\ AreThere(m, Packages, dirs, dam)
              /\ m[pkg] # Missing /\ m[pkg].version = v => pkg \in dam2
              => AreThere(m, Packages, dirs', dam2)
         /\ \A l \in [Packages -> LockEntries] :
              /\ NotOver(l, dirs)
              /\ l[pkg] # Missing /\ l[pkg].version = v /\ ContentOf(l[pkg]) # Folder =>
                   dirs'[<<pkg, v>>].top \in {ContentOf(l[pkg]), Folder, Missing}
              => NotOver(l, dirs')
<1>1. \A m \in [Packages -> RegistryEntries], p \in Packages :
        m[p] # Missing => m[p].version \in Versions
  BY DEF RegistryEntries
<1>2. \A l \in [Packages -> LockEntries], p \in Packages :
        l[p] # Missing => l[p].version \in Versions
  BY DEF LockEntries
<1>3. \A p \in Packages, w \in Versions : p # pkg \/ w # v => dirs'[<<p, w>>] = dirs[<<p, w>>]
  BY DEF Dirs
<1>4. ASSUME NEW m \in [Packages -> RegistryEntries], AreThere(m, Packages \ {pkg}, dirs, dam)
      PROVE  AreThere(m, Packages \ {pkg}, dirs', dam2)
  BY <1>1, <1>3, <1>4 DEF AreThere
<1>5. ASSUME NEW m \in [Packages -> RegistryEntries], AreThere(m, Packages, dirs, dam),
             m[pkg] # Missing /\ m[pkg].version = v => pkg \in dam2
      PROVE  AreThere(m, Packages, dirs', dam2)
  BY <1>1, <1>3, <1>5 DEF AreThere
<1>6. ASSUME NEW l \in [Packages -> LockEntries], NotOver(l, dirs),
             l[pkg] # Missing /\ l[pkg].version = v /\ ContentOf(l[pkg]) # Folder =>
               dirs'[<<pkg, v>>].top \in {ContentOf(l[pkg]), Folder, Missing}
      PROVE  NotOver(l, dirs')
  <2> SUFFICES ASSUME NEW p \in Packages, l[p] # Missing, ContentOf(l[p]) # Folder
               PROVE  dirs'[<<p, l[p].version>>].top \in {ContentOf(l[p]), Folder, Missing}
    BY DEF NotOver
  <2>1. CASE p = pkg /\ l[p].version = v
    BY <1>6, <2>1
  <2>2. CASE p # pkg \/ l[p].version # v
    <3>1. dirs'[<<p, l[p].version>>] = dirs[<<p, l[p].version>>]
      BY <1>2, <1>3, <2>2
    <3> QED
      BY <1>6, <3>1 DEF NotOver
  <2> QED
    BY <2>1, <2>2
<1> QED
  BY <1>4, <1>5, <1>6

LEMMA BeginExtractKeeps ==
  ASSUME IInv, NEW r \in Commands, BeginExtract(r)
  PROVE  IInv'
<1> DEFINE c == command[r]
           others == Extracting(Dir(r), {c.content})
           alone == others = {}
           d == [c EXCEPT !.pc = "extracting", !.intact = alone]
           new == [items |-> dirs[Dir(r)].items \cup {c.content},
                   whole |-> dirs[Dir(r)].whole \ {c.content}, top |-> c.content]
<1>1. Active(r) /\ c.pc = "extract"
  BY DEF BeginExtract, Active
<1>2. /\ Disturb(others, r, d)
      /\ UNCHANGED <<installed, lock, deployed, extracted, overlapped>>
      /\ damaged' = IF installed[c.pkg] # Missing /\ installed[c.pkg].version = c.version
                      THEN damaged \cup {c.pkg} ELSE damaged
  BY DEF BeginExtract, Pkg
<1>3. dirs' = [dirs EXCEPT ![Dir(r)] = new]
  BY DEF BeginExtract
<1>4. /\ c.kind # "remove" /\ c.version \in Versions /\ c.content \in Contents
      /\ c.pkg \in Packages /\ Dir(r) = <<c.pkg, c.version>> /\ Dir(r) \in Dirs
      /\ c.locks = EmptyMap
  BY <1>1, Facts DEF Placed, HasFetched, Dir, Dirs
<1>5. dirs \in [Dirs -> DirStates] /\ dirs[Dir(r)] \in DirStates
  BY <1>1, <1>4, Facts DEF FilesTyped
<1>6. /\ new \in DirStates /\ new.top = c.content
  BY <1>4, <1>5 DEF DirStates
<1>7. /\ dirs' \in [Dirs -> DirStates] /\ dirs'[Dir(r)] = new
      /\ \A x \in Dirs \ {Dir(r)} : dirs'[x] = dirs[x]
  <2> HIDE DEF new
  <2> QED
    BY <1>3, <1>4, <1>5, <1>6
<1> HIDE DEF new
<1>8. d \in Invocations
  <2>1. alone \in BOOLEAN /\ "extracting" \in Places
    BY DEF Places
  <2> HIDE DEF alone
  <2> QED
    BY <1>1, <2>1, Facts, Updated
<1>9. /\ d.pc = "extracting" /\ d.map = c.map /\ d.locks = c.locks /\ d.kind = c.kind
      /\ d.pkg = c.pkg /\ d.version = c.version /\ d.content = c.content /\ d.old = c.old
      /\ d.alone = c.alone /\ d.intact = alone
  BY <1>1, Facts DEF Invocations
<1>10. Moved(r) /\ command'[r] = d
  BY <1>2, <1>8, DisturbMoves
<1>11. c.alone => alone
  <2>1. c.alone => \A q \in Commands \ {r} : ~Active(q)
    BY <1>1, Facts DEF IInv, Alone
  <2> QED
    BY <1>1, <2>1 DEF Extracting, Active
<1> HIDE DEF d, alone
<1>12. c.alone => Sound(d, installed, lock, dirs', deployed, damaged')
  BY <1>4, <1>6, <1>7, <1>9, <1>11 DEF Sound, PutSound, Recording, Registering, Locking
<1>13. Placed(d)
  BY <1>1, <1>9, Facts DEF Placed, Begun, HasFetched, HasLoaded
<1>14. Known(d, extracted)
  BY <1>1, <1>9, Facts DEF Known, Recording
<1>15. damaged \in SUBSET Packages /\ damaged' \in SUBSET Packages /\ damaged \subseteq damaged'
  BY <1>1, <1>2, <1>4, Facts DEF FilesTyped
<1>16. FilesTyped' /\ EntriesKnown(installed', extracted') /\ LocksKnown(lock', extracted')
  BY <1>1, <1>2, <1>7, <1>15, Facts DEF FilesTyped
<1>17. ASSUME Serial, c.alone
       PROVE  /\ NotOver(lock', dirs')
              /\ AreThere(installed', Packages, dirs', damaged')
              /\ NotOver(d.locks, dirs')
              /\ AreThere(d.map, Packages \ {d.pkg}, dirs', damaged')
  <2>1. AreThere(c.map, Packages \ {c.pkg}, dirs, damaged) /\ NotOver(lock, dirs)
        /\ AreThere(installed, Packages, dirs, damaged)
    BY <1>1, <1>17 DEF Serial, Pkg
  <2>2. /\ c.map \in [Packages -> RegistryEntries] /\ installed \in [Packages -> RegistryEntries]
        /\ lock \in [Packages -> LockEntries]
    BY <1>1, Facts DEF Invocations, FilesTyped
  <2>3. \A x \in Dirs \ {<<c.pkg, c.version>>} : dirs'[x] = dirs[x]
    BY <1>4, <1>7
  <2>4. AreThere(c.map, Packages \ {c.pkg}, dirs', damaged')
    BY <1>4, <1>15, <2>1, <2>2, <2>3, OtherDirs
  <2>5. AreThere(installed, Packages, dirs', damaged')
    <3>1. installed[c.pkg] # Missing /\ installed[c.pkg].version = c.version => c.pkg \in damaged'
      BY <1>2
    <3> HIDE DEF c
    <3> QED
      BY <1>4, <1>15, <2>1, <2>2, <2>3, <3>1, OtherDirs
  <2>6. ~Mismatch(lock, c.pkg, c.version, c.content)
    BY <1>1, <1>4, <1>17, Facts DEF Sound, PutSound
  <2>7. lock[c.pkg] # Missing /\ lock[c.pkg].version = c.version /\ ContentOf(lock[c.pkg]) # Folder =>
          dirs'[<<c.pkg, c.version>>].top \in {ContentOf(lock[c.pkg]), Folder, Missing}
    BY <1>4, <1>6, <1>7, <2>6 DEF Mismatch, ContentOf
  <2>8. NotOver(lock, dirs')
    BY <1>4, <1>15, <2>1, <2>2, <2>3, <2>7, OtherDirs
  <2>9. NotOver(d.locks, dirs')
    BY <1>4, <1>9, EmptyMapFacts
  <2> QED
    BY <1>2, <1>9, <2>4, <2>5, <2>8, <2>9
<1> HIDE DEF c
<1>18. d.pc # "idle" /\ d.alone = command[r].alone
  BY <1>9 DEF c
<1> QED
  BY <1>1, <1>2, <1>10, <1>12, <1>13, <1>14, <1>16, <1>17, <1>18, StepKeeps DEF c


LEMMA FinishExtractKeeps ==
  ASSUME IInv, NEW r \in Commands, FinishExtract(r)
  PROVE  IInv'
<1> DEFINE c == command[r]
           next == IF c.kind = "update" THEN "artifacts" ELSE "truncateRegistry"
           d == [c EXCEPT !.pc = next, !.intact = TRUE]
           old == dirs[Dir(r)]
           whole == IF c.intact THEN old.whole \cup {c.content} ELSE old.whole
           new == [old EXCEPT !.items = old.items \cup {c.content}, !.whole = whole]
<1>1. Active(r) /\ c.pc = "extracting"
  BY DEF FinishExtract, Active
<1>2. /\ UNCHANGED <<installed, lock, deployed, damaged, overlapped>>
      /\ extracted' = extracted \cup {<<c.pkg, c.version, c.content>>}
  BY DEF FinishExtract, Pkg
<1>3. /\ c.kind # "remove" /\ c.version \in Versions /\ c.content \in Contents
      /\ c.pkg \in Packages /\ Dir(r) = <<c.pkg, c.version>> /\ Dir(r) \in Dirs
      /\ c.locks = EmptyMap
  BY <1>1, Facts DEF Placed, HasFetched, Dir, Dirs
<1>4. dirs \in [Dirs -> DirStates] /\ old \in DirStates
  BY <1>1, <1>3, Facts DEF FilesTyped
<1>5. /\ new.items = old.items \cup {c.content} /\ new.whole = whole /\ new.top = old.top
      /\ new \in DirStates
  <2>1. whole \in SUBSET Contents
    BY <1>3, <1>4 DEF DirStates
  <2> HIDE DEF whole, old
  <2> QED
    BY <1>3, <1>4, <2>1 DEF DirStates
<1>6. dirs' = [dirs EXCEPT ![Dir(r)] = new]
  <2>1. dirs' = [dirs EXCEPT ![Dir(r)].items = @ \cup {c.content},
                             ![Dir(r)].whole = IF c.intact THEN @ \cup {c.content} ELSE @]
    BY DEF FinishExtract
  <2> QED
    BY <1>3, <1>4, <2>1
<1> HIDE DEF new
<1>7. /\ dirs' \in [Dirs -> DirStates] /\ dirs'[Dir(r)] = new
      /\ \A x \in Dirs \ {Dir(r)} : dirs'[x] = dirs[x]
  BY <1>3, <1>4, <1>5, <1>6
<1>8. next \in {"artifacts", "truncateRegistry"}
  OBVIOUS
<1>9. command' = [command EXCEPT ![r] = d]
  <2>1. command' = [command EXCEPT ![r].pc = next, ![r].intact = TRUE]
    BY DEF FinishExtract
  <2> HIDE DEF next
  <2> QED
    BY <1>1, <2>1, Facts
<1> HIDE DEF next
<1>10. d \in Invocations
  <2>1. next \in Places
    BY <1>8 DEF Places
  <2> QED
    BY <1>1, <2>1, Facts, Updated
<1>11. /\ d.pc = next /\ d.map = c.map /\ d.locks = c.locks /\ d.kind = c.kind
       /\ d.pkg = c.pkg /\ d.version = c.version /\ d.content = c.content /\ d.old = c.old
       /\ d.alone = c.alone
  BY <1>1, Facts DEF Invocations
<1>12. Moved(r) /\ command'[r] = d
  BY <1>9, <1>10, MovedAlone
<1> HIDE DEF d
<1>13. c.alone => Sound(d, installed, lock, dirs', deployed, damaged)
  <2>1. c.alone => PutSound(c, installed, lock, dirs, deployed)
    BY <1>1, <1>3, Facts DEF Sound
  <2>2. c.alone => c.intact /\ old.top = c.content
    BY <1>1, <1>3, <2>1 DEF PutSound
  <2>3. c.alone => c.content \in dirs'[Dir(r)].whole /\ dirs'[Dir(r)].top = c.content
    BY <1>5, <1>7, <2>2
  <2>4. c.alone => PutSound(d, installed, lock, dirs', deployed)
    <3> HIDE DEF c
    <3> QED
      BY <1>3, <1>8, <1>11, <2>3 DEF PutSound, Recording, Registering, Locking
  <2> QED
    BY <1>3, <1>11, <2>4 DEF Sound
<1>14. Placed(d)
  BY <1>1, <1>3, <1>8, <1>11, Facts DEF Placed, Begun, HasFetched, HasLoaded
<1>15. EntriesKnown(installed, extracted') /\ LocksKnown(lock, extracted')
       /\ EntriesKnown(d.map, extracted') /\ LocksKnown(d.locks, extracted')
  <2>1. EntriesKnown(installed, extracted) /\ LocksKnown(lock, extracted)
        /\ EntriesKnown(c.map, extracted) /\ LocksKnown(c.locks, extracted)
    BY <1>1, Facts DEF Known
  <2>2. extracted \subseteq extracted'
    BY <1>2
  <2> QED
    BY <1>11, <2>1, <2>2 DEF EntriesKnown, LocksKnown
<1>16. Known(d, extracted')
  BY <1>2, <1>11, <1>15 DEF Known
<1>17. FilesTyped' /\ extracted \subseteq extracted'
  BY <1>1, <1>2, <1>3, <1>7, Facts DEF FilesTyped
<1>18. ASSUME Serial, c.alone
       PROVE  /\ NotOver(lock, dirs')
              /\ AreThere(installed, Packages, dirs', damaged)
              /\ NotOver(d.locks, dirs')
              /\ AreThere(d.map, Packages \ {d.pkg}, dirs', damaged)
  <2>1. AreThere(c.map, Packages \ {c.pkg}, dirs, damaged) /\ NotOver(lock, dirs)
        /\ AreThere(installed, Packages, dirs, damaged)
    BY <1>1, <1>18 DEF Serial, Pkg
  <2>2. ASSUME NEW x \in Dirs
        PROVE  dirs'[x].top = dirs[x].top /\ (dirs[x].whole # {} => dirs'[x].whole # {})
    <3>1. CASE x = Dir(r)
      BY <1>3, <1>5, <1>7, <3>1
    <3>2. CASE x # Dir(r)
      BY <1>7, <2>2, <3>2
    <3> QED
      BY <3>1, <3>2
  <2>3. /\ c.map \in [Packages -> RegistryEntries] /\ installed \in [Packages -> RegistryEntries]
        /\ lock \in [Packages -> LockEntries]
    BY <1>1, Facts DEF Invocations, FilesTyped
  <2>4. /\ \A p \in Packages : c.map[p] # Missing => <<p, c.map[p].version>> \in Dirs
        /\ \A p \in Packages : installed[p] # Missing => <<p, installed[p].version>> \in Dirs
        /\ \A p \in Packages : lock[p] # Missing => <<p, lock[p].version>> \in Dirs
    BY <2>3 DEF RegistryEntries, LockEntries, Dirs
  <2>5. NotOver(lock, dirs') /\ AreThere(installed, Packages, dirs', damaged)
        /\ AreThere(c.map, Packages \ {c.pkg}, dirs', damaged)
    BY <2>1, <2>2, <2>4 DEF NotOver, AreThere
  <2> QED
    BY <1>3, <1>11, <2>5, EmptyMapFacts
<1> HIDE DEF c
<1>19. d.pc # "idle" /\ d.alone = command[r].alone
  BY <1>8, <1>11 DEF c
<1> QED
  BY <1>1, <1>2, <1>12, <1>13, <1>14, <1>15, <1>16, <1>17, <1>18, <1>19, StepKeeps DEF c


\* What a deletion is about: never the version that update has just put there.
LEMMA DeletionFacts ==
  ASSUME IInv, NEW r \in Commands, Active(r), command[r].pc \in {"delete", "deleting"}
  PROVE  /\ command[r].kind \in {"update", "remove"}
         /\ command[r].old \in Versions /\ command[r].locks = EmptyMap
         /\ Old(r) = <<command[r].pkg, command[r].old>> /\ Old(r) \in Dirs
         /\ command[r].kind = "update" =>
              /\ command[r].version \in Versions /\ command[r].version # command[r].old
              /\ <<command[r].pkg, command[r].version>> \in
                   Dirs \ {<<command[r].pkg, command[r].old>>}
<1> DEFINE c == command[r]
<1>1. /\ c \in Invocations /\ Placed(c) /\ Begun(c) /\ c.pkg \in Packages
  BY Facts
<1> HIDE DEF c
<1>2. c.pc \in {"delete", "deleting"}
  BY DEF c
<1>3. c.kind \in {"update", "remove"}
  <2>1. c.kind # "install"
    BY <1>1, <1>2 DEF Placed
  <2> QED
    BY <1>1, <2>1 DEF Invocations
<1>4. c.old \in Versions
  <2>1. HasLoaded(c)
    BY <1>1, <1>2, <1>3 DEF HasLoaded
  <2> QED
    BY <1>1, <2>1 DEF Placed
<1>5. c.locks = EmptyMap
  BY <1>1, <1>2 DEF Placed
<1>6. Old(r) = <<c.pkg, c.old>>
  BY DEF Old, Pkg, c
<1>7. Old(r) \in Dirs
  BY <1>1, <1>4, <1>6 DEF Dirs
<1>8. ASSUME c.kind = "update"
      PROVE  /\ c.version \in Versions /\ c.version # c.old
             /\ <<c.pkg, c.version>> \in Dirs \ {<<c.pkg, c.old>>}
  <2>1. HasFetched(c)
    BY <1>1, <1>2, <1>8 DEF HasFetched
  <2>2. c.version \in Versions /\ c.version > c.old
    BY <1>1, <1>8, <2>1 DEF Placed
  <2>3. c.version \in Nat /\ c.old \in Nat
    BY <1>4, <2>2, VersionsAssumption
  <2>4. c.version # c.old
    BY <2>2, <2>3
  <2>5. <<c.pkg, c.version>> \in Dirs /\ <<c.pkg, c.version>> # <<c.pkg, c.old>>
    BY <1>1, <2>2, <2>4 DEF Dirs
  <2> QED
    BY <2>2, <2>4, <2>5
<1> QED
  BY <1>3, <1>4, <1>5, <1>6, <1>7, <1>8 DEF c

\* The directory that a command alone deletes is not one that the registry names,
\* but of a package that is being removed.
LEMMA OldIsNotNamed ==
  ASSUME IInv, NEW r \in Commands, Active(r), command[r].alone,
         command[r].pc \in {"delete", "deleting"},
         command[r].kind = "remove" => command[r].pkg \in damaged'
  PROVE  installed[command[r].pkg] # Missing /\ installed[command[r].pkg].version = command[r].old =>
           command[r].pkg \in damaged'
<1> DEFINE c == command[r]
<1>1. CASE c.kind = "remove"
  BY <1>1
<1>2. CASE c.kind # "remove"
  <2>1. c.version # c.old
    BY <1>2, DeletionFacts
  <2>2. Sound(c, installed, lock, dirs, deployed, damaged)
    BY Facts
  <2>3. installed[c.pkg] = Registered(c.version, c.content)
    BY <1>2, <2>2 DEF Sound, PutSound, Locking
  <2> HIDE DEF c
  <2>4. installed[c.pkg].version = c.version
    BY <2>3 DEF Registered
  <2> QED
    BY <2>1, <2>4 DEF c
<1> QED
  BY <1>1, <1>2

LEMMA BeginDeleteKeeps ==
  ASSUME IInv, NEW r \in Commands, BeginDelete(r)
  PROVE  IInv'
<1> DEFINE c == command[r]
           d == [c EXCEPT !.pc = "deleting"]
           new == [dirs[Old(r)] EXCEPT !.whole = {}]
<1>1. Active(r) /\ c.pc = "delete"
  BY DEF BeginDelete, Active
<1>2. /\ Disturb(Extracting(Old(r), Contents), r, d)
      /\ UNCHANGED <<installed, lock, deployed, extracted, overlapped>>
      /\ damaged' = IF c.kind = "remove" THEN damaged \cup {c.pkg} ELSE damaged
  BY DEF BeginDelete, Pkg
<1>3. /\ c.kind \in {"update", "remove"} /\ c.old \in Versions /\ c.pkg \in Packages
      /\ Old(r) = <<c.pkg, c.old>> /\ Old(r) \in Dirs /\ c.locks = EmptyMap
      /\ c.kind = "update" => <<c.pkg, c.version>> \in Dirs \ {<<c.pkg, c.old>>}
  BY <1>1, Facts, DeletionFacts
<1>4. dirs \in [Dirs -> DirStates] /\ dirs[Old(r)] \in DirStates
  BY <1>1, <1>3, Facts DEF FilesTyped
<1>5. new \in DirStates /\ new.top = dirs[Old(r)].top
  BY <1>4 DEF DirStates
<1>6. dirs' = [dirs EXCEPT ![Old(r)] = new]
  BY <1>3, <1>4 DEF BeginDelete
<1> HIDE DEF new
<1>7. /\ dirs' \in [Dirs -> DirStates] /\ dirs'[Old(r)].top = dirs[Old(r)].top
      /\ \A x \in Dirs \ {<<c.pkg, c.old>>} : dirs'[x] = dirs[x]
  BY <1>3, <1>4, <1>5, <1>6
<1>8. d \in Invocations /\ At(c, "deleting", d)
  BY <1>1, Facts, SMTT(60) DEF Invocations, At
<1>9. Moved(r) /\ command'[r] = d
  BY <1>2, <1>8, DisturbMoves
<1> HIDE DEF d
<1>10. damaged \in SUBSET Packages /\ damaged' \in SUBSET Packages /\ damaged \subseteq damaged'
       /\ (c.kind = "remove" => c.pkg \in damaged')
  BY <1>1, <1>2, <1>3, Facts DEF FilesTyped
<1>11. c.alone => Sound(d, installed, lock, dirs', deployed, damaged')
  <2>1. c.alone => Sound(c, installed, lock, dirs, deployed, damaged)
    BY <1>1, Facts
  <2>2. CASE c.kind = "remove"
    BY <1>8, <1>10, <2>2 DEF Sound, RemoveSound, At, Recording, Registering
  <2>3. CASE c.kind = "update"
    <3>1. <<c.pkg, c.version>> \in Dirs \ {<<c.pkg, c.old>>}
      BY <1>3, <2>3
    <3>2. dirs'[<<c.pkg, c.version>>] = dirs[<<c.pkg, c.version>>]
      BY <1>7, <3>1
    <3> QED
      BY <1>1, <1>8, <2>1, <2>3, <3>2 DEF Sound, PutSound, At, Recording, Registering, Locking
  <2> QED
    BY <1>3, <2>2, <2>3
<1>12. Placed(d)
  BY <1>1, <1>8, Facts DEF Placed, At, Begun, HasFetched, HasLoaded
<1>13. Known(d, extracted)
  BY <1>1, <1>8, Facts DEF Known, At, Recording
<1>14. FilesTyped' /\ EntriesKnown(installed', extracted') /\ LocksKnown(lock', extracted')
  BY <1>1, <1>2, <1>7, <1>10, Facts DEF FilesTyped
<1>15. ASSUME Serial, c.alone
       PROVE  /\ NotOver(lock', dirs')
              /\ AreThere(installed', Packages, dirs', damaged')
              /\ NotOver(d.locks, dirs')
              /\ AreThere(d.map, Packages \ {d.pkg}, dirs', damaged')
  <2>1. AreThere(c.map, Packages \ {c.pkg}, dirs, damaged) /\ NotOver(lock, dirs)
        /\ AreThere(installed, Packages, dirs, damaged)
    BY <1>1, <1>15 DEF Serial, Pkg
  <2>2. /\ c.map \in [Packages -> RegistryEntries] /\ installed \in [Packages -> RegistryEntries]
        /\ lock \in [Packages -> LockEntries]
    BY <1>1, Facts DEF Invocations, FilesTyped
  <2>3. AreThere(c.map, Packages \ {c.pkg}, dirs', damaged')
    BY <1>3, <1>7, <1>10, <2>1, <2>2, OtherDirs
  <2>4. AreThere(installed, Packages, dirs', damaged')
    <3>1. installed[c.pkg] # Missing /\ installed[c.pkg].version = c.old => c.pkg \in damaged'
      BY <1>1, <1>10, <1>15, OldIsNotNamed
    <3> HIDE DEF c
    <3> QED
      BY <1>3, <1>7, <1>10, <2>1, <2>2, <3>1, OtherDirs
  <2>5. lock[c.pkg] # Missing /\ lock[c.pkg].version = c.old /\ ContentOf(lock[c.pkg]) # Folder =>
          dirs'[<<c.pkg, c.old>>].top \in {ContentOf(lock[c.pkg]), Folder, Missing}
    BY <1>3, <1>7, <2>1 DEF NotOver
  <2>6. NotOver(lock, dirs')
    BY <1>3, <1>7, <1>10, <2>1, <2>2, <2>5, OtherDirs
  <2> QED
    BY <1>2, <1>3, <1>8, <2>3, <2>4, <2>6, EmptyMapFacts DEF At
<1> HIDE DEF c
<1>16. d.pc # "idle" /\ d.alone = command[r].alone
  BY <1>8 DEF c, At
<1> QED
  BY <1>1, <1>2, <1>9, <1>11, <1>12, <1>13, <1>14, <1>15, <1>16, StepKeeps DEF c

LEMMA FinishDeleteKeeps ==
  ASSUME IInv, NEW r \in Commands, FinishDelete(r)
  PROVE  IInv'
<1> DEFINE c == command[r]
           next == IF c.kind = "remove" THEN "truncateRegistry" ELSE "ok"
           d == [c EXCEPT !.pc = next]
<1>1. Active(r) /\ c.pc = "deleting"
  BY DEF FinishDelete, Active
<1>2. /\ Disturb(Extracting(Old(r), Contents), r, d)
      /\ dirs' = [dirs EXCEPT ![Old(r)] = NoDir]
      /\ UNCHANGED <<installed, lock, deployed, extracted, damaged, overlapped>>
  BY DEF FinishDelete, ghosts
<1>3. /\ c.kind \in {"update", "remove"} /\ c.old \in Versions /\ c.pkg \in Packages
      /\ Old(r) = <<c.pkg, c.old>> /\ Old(r) \in Dirs /\ c.locks = EmptyMap
      /\ c.kind = "update" => <<c.pkg, c.version>> \in Dirs \ {<<c.pkg, c.old>>}
  BY <1>1, Facts, DeletionFacts
<1>4. dirs \in [Dirs -> DirStates] /\ NoDir \in DirStates /\ NoDir.top = Missing
  BY <1>1, Facts DEF FilesTyped, NoDir, DirStates
<1>5. /\ dirs' \in [Dirs -> DirStates] /\ dirs'[Old(r)] = NoDir
      /\ \A x \in Dirs \ {<<c.pkg, c.old>>} : dirs'[x] = dirs[x]
  BY <1>2, <1>3, <1>4
<1>6. /\ c.kind = "remove" => next = "truncateRegistry"
      /\ c.kind = "update" => next = "ok"
  OBVIOUS
<1> HIDE DEF next
<1>7. d \in Invocations /\ At(c, next, d)
  <2>1. next \in {"truncateRegistry", "ok"}
    BY <1>3, <1>6
  <2> QED
    BY <1>1, <2>1, Facts, SMTT(60) DEF Invocations, At
<1>8. Moved(r) /\ command'[r] = d
  BY <1>2, <1>7, DisturbMoves
<1> HIDE DEF d
<1>9. damaged \in SUBSET Packages
  BY <1>1, Facts DEF FilesTyped
<1>10. c.alone => Sound(c, installed, lock, dirs, deployed, damaged)
  BY <1>1, Facts
<1>11. c.alone => Sound(d, installed, lock, dirs', deployed, damaged)
  <2>1. CASE c.kind = "remove"
    BY <1>3, <1>5, <1>6, <1>7, <2>1 DEF Sound, RemoveSound, At, Recording, Registering
  <2>2. CASE c.kind = "update"
    <3>1. <<c.pkg, c.version>> \in Dirs \ {<<c.pkg, c.old>>}
      BY <1>3, <2>2
    <3>2. dirs'[<<c.pkg, c.version>>] = dirs[<<c.pkg, c.version>>]
      BY <1>5, <3>1
    <3> QED
      BY <1>1, <1>6, <1>7, <1>10, <2>2, <3>2
         DEF Sound, PutSound, At, Recording, Registering, Locking
  <2> QED
    BY <1>3, <2>1, <2>2
<1>12. Placed(d)
  BY <1>1, <1>3, <1>6, <1>7, Facts DEF Placed, At, Begun, HasFetched, HasLoaded
<1>13. Known(d, extracted)
  BY <1>1, <1>3, <1>6, <1>7, Facts DEF Known, At, Recording
<1>14. FilesTyped' /\ EntriesKnown(installed', extracted') /\ LocksKnown(lock', extracted')
  BY <1>1, <1>2, <1>5, Facts DEF FilesTyped
<1>15. ASSUME Serial, c.alone
       PROVE  /\ NotOver(lock', dirs')
              /\ AreThere(installed', Packages, dirs', damaged')
              /\ NotOver(d.locks, dirs')
              /\ AreThere(d.map, Packages \ {d.pkg}, dirs', damaged')
  <2>1. AreThere(c.map, Packages \ {c.pkg}, dirs, damaged) /\ NotOver(lock, dirs)
        /\ AreThere(installed, Packages, dirs, damaged)
    BY <1>1, <1>15 DEF Serial, Pkg
  <2>2. /\ c.map \in [Packages -> RegistryEntries] /\ installed \in [Packages -> RegistryEntries]
        /\ lock \in [Packages -> LockEntries]
    BY <1>1, Facts DEF Invocations, FilesTyped
  <2>3. AreThere(c.map, Packages \ {c.pkg}, dirs', damaged)
    BY <1>3, <1>5, <1>9, <2>1, <2>2, OtherDirs
  <2>4. AreThere(installed, Packages, dirs', damaged)
    <3>1. c.kind = "remove" => c.pkg \in damaged'
      BY <1>1, <1>2, <1>10, <1>15 DEF Sound, RemoveSound
    <3>2. installed[c.pkg] # Missing /\ installed[c.pkg].version = c.old => c.pkg \in damaged
      BY <1>1, <1>2, <1>15, <3>1, OldIsNotNamed
    <3> HIDE DEF c
    <3> QED
      BY <1>3, <1>5, <1>9, <2>1, <2>2, <3>2, OtherDirs
  <2>5. NotOver(lock, dirs')
    <3>1. dirs'[<<c.pkg, c.old>>].top = Missing
      BY <1>3, <1>4, <1>5
    <3> HIDE DEF c
    <3> QED
      BY <1>3, <1>5, <1>9, <2>1, <2>2, <3>1, OtherDirs
  <2> QED
    BY <1>2, <1>3, <1>7, <2>3, <2>4, <2>5, EmptyMapFacts DEF At
<1> HIDE DEF c
<1>16. d.pc # "idle" /\ d.alone = command[r].alone
  BY <1>3, <1>6, <1>7 DEF c, At
<1> QED
  BY <1>1, <1>2, <1>8, <1>11, <1>12, <1>13, <1>14, <1>15, <1>16, StepKeeps DEF c


LEMMA FailOrKillKeeps ==
  ASSUME IInv, NEW r \in Commands, FailOrKill(r)
  PROVE  IInv'
BY GiveUpKeeps DEF FailOrKill, filesOfAikit, Active

-------------------------------------------------------------------------------
(* A command begins: from then on whoever runs beside it is not alone.       *)

LEMMA BeginKeeps ==
  ASSUME IInv, NEW r \in Commands, Begin(r)
  PROVE  IInv'
<1> DEFINE others == {q \in Commands \ {r} : Active(q)}
<1>1. PICK p \in Packages, kind \in {"install", "update", "remove"} :
        LET new == [NotStarted EXCEPT !.pc = IF kind = "install" THEN "fetch" ELSE "load",
                                      !.kind = kind, !.pkg = p, !.alone = others = {}]
        IN /\ command' = [q \in Commands |-> IF q = r THEN new
                                             ELSE [command[q] EXCEPT !.alone = FALSE]]
           /\ overlapped' = (overlapped \/ others # {})
  BY DEF Begin
<1> DEFINE place == IF kind = "install" THEN "fetch" ELSE "load"
           new == [NotStarted EXCEPT !.pc = place,
                                     !.kind = kind, !.pkg = p, !.alone = others = {}]
<1>2. command[r].pc = "idle"
  BY DEF Begin
<1>3. UNCHANGED <<installed, lock, dirs, deployed, extracted, damaged>>
  BY DEF Begin, filesOfAikit
<1>4. command \in [Commands -> Invocations] /\ FilesTyped
  BY DEF IInv, PackagesTypeOK, FilesTyped
<1>5. /\ new.pc = place /\ new.kind = kind /\ new.pkg = p
      /\ new.version = Missing /\ new.content = Missing /\ new.old = Missing
      /\ new.map = EmptyMap /\ new.locks = EmptyMap
      /\ new.alone = (others = {}) /\ new \in Invocations
  BY EmptyMapFacts DEF NotStarted, Invocations
<1>6. /\ kind = "install" => place = "fetch"
      /\ kind # "install" => place = "load"
  OBVIOUS
<1>7. command'[r] = new
  BY <1>1
<1>8. ASSUME NEW q \in Commands \ {r}
      PROVE  /\ command'[q] \in Invocations
             /\ command'[q].pc = command[q].pc /\ command'[q].kind = command[q].kind
             /\ command'[q].pkg = command[q].pkg /\ command'[q].version = command[q].version
             /\ command'[q].content = command[q].content /\ command'[q].old = command[q].old
             /\ command'[q].map = command[q].map /\ command'[q].locks = command[q].locks
             /\ command'[q].alone = FALSE
  <2>1. command'[q] = [command[q] EXCEPT !.alone = FALSE]
    BY <1>1
  <2>2. command[q] \in Invocations
    BY <1>4
  <2> DEFINE c == command[q]
             d == command'[q]
  <2>3. d = [c EXCEPT !.alone = FALSE] /\ c \in Invocations
    BY <2>1, <2>2
  <2> HIDE DEF c, d
  <2>4. /\ d \in Invocations
        /\ d.pc = c.pc /\ d.kind = c.kind /\ d.pkg = c.pkg /\ d.version = c.version
        /\ d.content = c.content /\ d.old = c.old /\ d.map = c.map /\ d.locks = c.locks
        /\ d.alone = FALSE
    BY <2>3 DEF Invocations
  <2> QED
    BY <2>4 DEF c, d
<1>9. overlapped' = (overlapped \/ others # {})
  BY <1>1
<1>10. PackagesTypeOK'
  <2>1. command' \in [Commands -> Invocations]
    <3>1. DOMAIN command' = Commands /\ command' = [q \in Commands |-> command'[q]]
      BY <1>1
    <3>2. \A q \in Commands : command'[q] \in Invocations
      BY <1>5, <1>7, <1>8
    <3> HIDE DEF new
    <3> QED
      BY <3>1, <3>2
  <2>2. overlapped' \in BOOLEAN
    BY <1>9 DEF IInv, PackagesTypeOK
  <2> QED
    BY <1>3, <1>4, <2>1, <2>2 DEF PackagesTypeOK, FilesTyped
<1> HIDE DEF new, place
<1>11. ASSUME NEW q \in Commands
       PROVE  Placed(command'[q]) /\ Known(command'[q], extracted')
  <2>1. CASE q = r
    <3>1. Placed(new)
      BY <1>5, <1>6 DEF Placed, HasFetched, HasLoaded, Begun
    <3>2. Known(new, extracted)
      BY <1>5, <1>6, EmptyMapFacts DEF Known, Recording
    <3> QED
      BY <1>3, <1>7, <2>1, <3>1, <3>2
  <2>2. CASE q # r
    <3>1. Placed(command[q]) /\ Known(command[q], extracted)
      BY DEF IInv
    <3>2. Placed(command'[q])
      BY <1>8, <2>2, <3>1 DEF Placed, HasFetched, HasLoaded, Begun
    <3>3. Known(command'[q], extracted')
      BY <1>3, <1>8, <2>2, <3>1 DEF Known
    <3> QED
      BY <3>2, <3>3
  <2> QED
    BY <2>1, <2>2
<1>12. \A q \in Commands \ {r} : Active(q)' <=> Active(q)
  BY <1>8 DEF Active
<1>13. ASSUME NEW q \in Commands
       PROVE  Alone(q)'
  <2>1. CASE q = r
    <3>1. command'[r].alone => \A x \in Commands \ {r} : ~Active(x)'
      BY <1>5, <1>7, <1>12
    <3>2. ~overlapped' => command'[r].alone
      BY <1>5, <1>7, <1>9
    <3> QED
      BY <2>1, <3>1, <3>2 DEF Alone
  <2>2. CASE q # r
    <3>1. ~command'[q].alone
      BY <1>8, <2>2
    <3>2. Active(q)' => overlapped'
      BY <1>9, <1>12, <2>2
    <3> QED
      BY <3>1, <3>2 DEF Alone
  <2> QED
    BY <2>1, <2>2
<1>14. ASSUME NEW q \in Commands, command'[q].alone
       PROVE  Sound(command'[q], installed', lock', dirs', deployed', damaged')
  <2>1. q = r
    BY <1>8, <1>14
  <2>2. Sound(new, installed, lock, dirs, deployed, damaged)
    <3>1. new.pc \in {"fetch", "load"}
      BY <1>5, <1>6
    <3> QED
      BY <3>1 DEF Sound, PutSound, RemoveSound, Recording, Registering, Locking
  <2> QED
    BY <1>3, <1>7, <2>1, <2>2
<1>15. ~overlapped' => Serial'
  <2> SUFFICES ASSUME ~overlapped'
               PROVE  Serial'
    OBVIOUS
  <2>1. Serial /\ others = {}
    BY <1>9 DEF IInv
  <2>2. NotOver(lock', dirs') /\ AreThere(installed', Packages, dirs', damaged')
    BY <1>3, <2>1 DEF Serial
  <2>3. \A q \in Commands \ {r} : ~Active(q)'
    BY <1>12, <2>1
  <2>4. NotOver(new.locks, dirs') /\ AreThere(new.map, Packages \ {p}, dirs', damaged')
    BY <1>5, EmptyMapFacts
  <2> QED
    BY <1>5, <1>7, <2>2, <2>3, <2>4 DEF Serial, Pkg
<1> QED
  <2>1. EntriesKnown(installed', extracted') /\ LocksKnown(lock', extracted')
    BY <1>3 DEF IInv
  <2> QED
    BY <1>10, <1>11, <1>13, <1>14, <1>15, <2>1 DEF IInv

-------------------------------------------------------------------------------
(* The invariant, and what follows from it.                                  *)

LEMMA StartsWell == PackagesInit => IInv
<1> SUFFICES ASSUME PackagesInit
             PROVE  IInv
  OBVIOUS
<1>1. PICK have \in SUBSET Packages, v \in Versions, x \in Contents :
        /\ installed = [p \in Packages |-> IF p \in have THEN Registered(v, x) ELSE Missing]
        /\ lock = [p \in Packages |-> IF p \in have THEN Locked(v, x) ELSE Missing]
        /\ dirs = [e \in Dirs |-> IF e[1] \in have /\ e[2] = v THEN Filled(x) ELSE NoDir]
        /\ deployed = [p \in Packages |-> IF p \in have THEN x ELSE Missing]
        /\ extracted = {<<p, v, x>> : p \in have}
  BY DEF PackagesInit
<1>2. command = [r \in Commands |-> NotStarted] /\ damaged = {} /\ overlapped = FALSE
  BY DEF PackagesInit
<1>3. Registered(v, x) \in RegistryEntries /\ Registered(v, x).version = v
  BY DEF Registered, RegistryEntries
<1>4. /\ Locked(v, x) \in LockEntries /\ Locked(v, x).version = v
      /\ ContentOf(Locked(v, x)) = x
  BY LockedFacts
<1>5. Filled(x) \in DirStates /\ NoDir \in DirStates
      /\ Filled(x).top = x /\ Filled(x).whole # {} /\ NoDir.top = Missing
  BY DEF Filled, NoDir, DirStates
<1>6. /\ NotStarted \in Invocations /\ NotStarted.pc = "idle"
      /\ NotStarted.map = EmptyMap /\ NotStarted.locks = EmptyMap
  BY EmptyMapFacts DEF NotStarted, Invocations
<1>7. PackagesTypeOK
  <2>1. installed \in [Packages -> RegistryEntries] /\ lock \in [Packages -> LockEntries]
    BY <1>1, <1>3, <1>4 DEF RegistryEntries, LockEntries
  <2>2. dirs \in [Dirs -> DirStates]
    BY <1>1, <1>5
  <2>3. deployed \in [Packages -> Contents \cup {Missing}]
    BY <1>1
  <2>4. extracted \subseteq Packages \X Versions \X Contents
    BY <1>1
  <2> QED
    BY <1>2, <1>6, <2>1, <2>2, <2>3, <2>4 DEF PackagesTypeOK
<1>8. ASSUME NEW p \in Packages, p \in have
      PROVE  <<p, v, x>> \in extracted /\ dirs[<<p, v>>] = Filled(x)
  BY <1>1, <1>8 DEF Dirs
<1>9. EntriesKnown(installed, extracted) /\ LocksKnown(lock, extracted)
  BY <1>1, <1>3, <1>4, <1>8 DEF EntriesKnown, LocksKnown
<1>10. NotOver(lock, dirs) /\ AreThere(installed, Packages, dirs, damaged)
  BY <1>1, <1>3, <1>4, <1>5, <1>8 DEF NotOver, AreThere
<1>11. Placed(NotStarted) /\ Known(NotStarted, extracted) /\ ~Begun(NotStarted)
  BY <1>6, EmptyMapFacts DEF Placed, Known, Begun, HasFetched, HasLoaded, Recording
<1>12. \A r \in Commands : ~Active(r) /\ ~Begun(command[r])
  BY <1>2, <1>6 DEF Active, Begun
<1> QED
  BY <1>2, <1>7, <1>9, <1>10, <1>11, <1>12 DEF IInv, Alone, Serial

LEMMA StutteringKeeps ==
  ASSUME IInv, UNCHANGED packageVars
  PROVE  IInv'
BY DEF packageVars, IInv, PackagesTypeOK, Alone, Active, Serial, Pkg

LEMMA StepsKeep == IInv /\ [PackagesNext]_packageVars => IInv'
<1> SUFFICES ASSUME IInv, [PackagesNext]_packageVars
             PROVE  IInv'
  OBVIOUS
<1>1. CASE UNCHANGED packageVars
  BY <1>1, StutteringKeeps
<1>2. ASSUME NEW r \in Commands, CommandStep(r)
      PROVE  IInv'
  <2>1. CASE Begin(r)
    BY <2>1, BeginKeeps
  <2>2. CASE FailOrKill(r)
    BY <2>2, FailOrKillKeeps
  <2>3. CASE Fetch(r)
    BY <2>3, FetchKeeps
  <2>4. CASE Load(r)
    BY <2>4, LoadKeeps
  <2>5. CASE CheckLock(r)
    BY <2>5, CheckLockKeeps
  <2>6. CASE BeginExtract(r)
    BY <2>6, BeginExtractKeeps
  <2>7. CASE FinishExtract(r)
    BY <2>7, FinishExtractKeeps
  <2>8. CASE BeginDelete(r)
    BY <2>8, BeginDeleteKeeps
  <2>9. CASE FinishDelete(r)
    BY <2>9, FinishDeleteKeeps
  <2>10. CASE DeleteFails(r)
    BY <2>10, DeleteFailsKeeps
  <2>11. CASE TruncateRegistry(r)
    BY <2>11, TruncateRegistryKeeps
  <2>12. CASE WriteRegistry(r)
    BY <2>12, WriteRegistryKeeps
  <2>13. CASE LoadLock(r)
    BY <2>13, LoadLockKeeps
  <2>14. CASE TruncateLock(r)
    BY <2>14, TruncateLockKeeps
  <2>15. CASE WriteLock(r)
    BY <2>15, WriteLockKeeps
  <2>16. CASE CopyArtifacts(r)
    BY <2>16, CopyArtifactsKeeps
  <2>17. CASE Deploy(r)
    BY <2>17, DeployKeeps
  <2>18. CASE Decline(r)
    BY <2>18, DeclineKeeps
  <2>19. CASE Undeploy(r)
    BY <2>19, UndeployKeeps
  <2>20. CASE DeployWarns(r)
    BY <2>20, DeployWarnsKeeps
  <2>21. CASE DeployFails(r)
    BY <2>21, DeployFailsKeeps
  <2> QED
    BY <1>2, <2>1, <2>2, <2>3, <2>4, <2>5, <2>6, <2>7, <2>8, <2>9, <2>10, <2>11, <2>12,
       <2>13, <2>14, <2>15, <2>16, <2>17, <2>18, <2>19, <2>20, <2>21 DEF CommandStep
<1> QED
  BY <1>1, <1>2 DEF PackagesNext

\* The inductive invariant holds from the start and through every step of every
\* command, kills, failures and overlaps included.
THEOREM PackagesInductive == PackagesSpec => []IInv
<1>1. PackagesInit => IInv
  BY StartsWell
<1>2. IInv /\ [PackagesNext]_packageVars => IInv'
  BY StepsKeep
<1> QED
  BY <1>1, <1>2, PTL DEF PackagesSpec

\* The two files, the directories and every command's locals are always of their
\* types: what is read as a version or a checksum is one.
THEOREM PackagesTypeCorrect == PackagesSpec => []PackagesTypeOK
<1>1. IInv => PackagesTypeOK
  BY DEF IInv
<1> QED
  BY <1>1, PackagesInductive, PTL

\* No reader of packages.lock ever finds a version and checksum that were not
\* completely extracted, and commands one at a time, killed anywhere, never put
\* another archive over a locked one (install.rs, lock.rs).
THEOREM LockAlwaysTellsTruth == PackagesSpec => []LockTellsTruth
<1>1. IInv => LockTellsTruth
  <2> SUFFICES ASSUME IInv, NEW p \in Packages, lock[p] # Missing
               PROVE  /\ <<p, lock[p].version, ContentOf(lock[p])>> \in extracted
                      /\ ~overlapped /\ ContentOf(lock[p]) # Folder =>
                           dirs[<<p, lock[p].version>>].top \in {ContentOf(lock[p]), Folder, Missing}
    BY DEF LockTellsTruth, ContentOf
  <2>1. <<p, lock[p].version, ContentOf(lock[p])>> \in extracted
    BY DEF IInv, LocksKnown
  <2>2. ~overlapped => NotOver(lock, dirs)
    BY DEF IInv, Serial
  <2> QED
    BY <2>1, <2>2 DEF NotOver
<1> QED
  BY <1>1, PackagesInductive, PTL

\* Likewise registry.toml: what it names was extracted, and with commands one at a
\* time it is there, but after a remove or a reinstallation that was cut short
\* (models/registry.rs).
THEOREM RegistryAlwaysTellsTruth == PackagesSpec => []RegistryTellsTruth
<1>1. IInv => RegistryTellsTruth
  <2>1. IInv => EntriesKnown(installed, extracted)
    BY DEF IInv
  <2>2. IInv /\ ~overlapped => AreThere(installed, Packages, dirs, damaged)
    BY DEF IInv, Serial
  <2> QED
    BY <2>1, <2>2 DEF RegistryTellsTruth, EntriesKnown, AreThere
<1> QED
  BY <1>1, PackagesInductive, PTL

\* What a command that ran alone reports as done is so, whatever the killed and
\* the overlapping commands before it left behind (execute_install,
\* execute_update_with_client, execute_remove).
THEOREM SuccessIsAlwaysTrue == PackagesSpec => []SuccessIsTrue
<1>1. IInv => SuccessIsTrue
  <2> SUFFICES ASSUME IInv, NEW r \in Commands,
                      command[r].pc \in {"ok", "warned", "bare"}, command[r].alone
               PROVE  LET p == Pkg(r) IN
                      IF command[r].kind = "remove"
                        THEN installed[p] = Missing /\ lock[p] = Missing /\ dirs[Old(r)] = NoDir
                      ELSE /\ Agree(p, command[r].version, command[r].content)
                           /\ command[r].kind = "install" /\ command[r].pc = "ok" =>
                                \/ deployed[p] = command[r].content
                                \/ dirs[Dir(r)].items # {command[r].content}
    BY DEF SuccessIsTrue
  <2>1. Begun(command[r])
    BY DEF Begun
  <2>2. Sound(command[r], installed, lock, dirs, deployed, damaged)
    BY <2>1 DEF IInv
  <2>3. Placed(command[r])
    BY DEF IInv
  <2>4. CASE command[r].kind = "remove"
    <3>1. command[r].pc = "ok"
      BY <2>3, <2>4 DEF Placed
    <3> QED
      BY <2>2, <2>4, <3>1 DEF Sound, RemoveSound, Pkg, Old
  <2>5. CASE command[r].kind # "remove"
    BY <2>2, <2>5 DEF Sound, PutSound, Locking, Agree, Pkg, Dir
  <2> QED
    BY <2>4, <2>5
<1> QED
  BY <1>1, PackagesInductive, PTL

===============================================================================
