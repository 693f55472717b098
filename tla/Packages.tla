------------------------------- MODULE Packages -------------------------------
(***************************************************************************)
(* `aikit install`, `update` and `remove` (cli/commands/install.rs): what   *)
(* they do to registry.toml, packages.lock, the package directories and the *)
(* commands generated for the agents.  Each command is a process of its     *)
(* own; nothing keeps two from running at once, and one may be killed or    *)
(* get an error at any step.  Both files are read whole, changed in memory  *)
(* and written in place: opening truncates, and what does not parse counts  *)
(* as empty (models/registry.rs, core/lock.rs).                             *)
(***************************************************************************)
EXTENDS Integers, FiniteSets

CONSTANTS Packages,
          Versions, \* that their manifests declare
          Archives, \* contents that refs point to, told apart by checksum
          Folder,   \* the content of a local folder: it has no checksum
          Missing,     \* no entry, no checksum, nothing
          Commands  \* invocations of aikit

ASSUME VersionsAssumption == Versions \subseteq Nat /\ Missing \notin Versions
ASSUME ContentsAssumption == Missing \notin Archives /\ Folder \notin Archives \cup {Missing}
ASSUME EntriesAssumption ==
  /\ Missing \notin [version : Versions, local : BOOLEAN]
  /\ Missing \notin [version : Versions, checksum : Archives \cup {Missing}]

Contents == Archives \cup {Folder}
Dirs == Packages \X Versions

VARIABLES
  installed, \* registry.toml: the version of each package and where it came from
  lock,      \* packages.lock: the version and checksum of each package
  dirs,      \* packages/{name}-{version}
  deployed,  \* the content that all agent commands of a package were generated from
  command,   \* each command's place and locals
  extracted, \* ghost: extractions that ran to their end
  damaged,   \* ghost: packages whose registered directory is being replaced
             \* or removed, or was left so
  overlapped \* ghost: two commands have run at once

packageVars == <<installed, lock, dirs, deployed, command, extracted, damaged, overlapped>>

EmptyMap == [p \in Packages |-> Missing]

\* items: the contents in a directory, each archive in a folder of its own that
\* is named for its commit; whole: those that are there completely; top: the
\* content that was put there last.
NoDir == [items |-> {}, whole |-> {}, top |-> Missing]
Filled(c) == [items |-> {c}, whole |-> {c}, top |-> c]

\* What update learns from the source in the registry, and the lock's checksum.
Registered(v, c) == [version |-> v, local |-> c = Folder]
Locked(v, c) == [version |-> v, checksum |-> IF c = Folder THEN Missing ELSE c]

\* map, locks: the two files as the command read them.  old: the version that
\* the registry had.  alone: ghost, no other command ran or began since it began.
\* intact: ghost, nobody else deletes or writes what it extracts.
NotStarted ==
  [pc |-> "idle", kind |-> "install", pkg |-> Missing, version |-> Missing, content |-> Missing,
   old |-> Missing, map |-> EmptyMap, locks |-> EmptyMap, alone |-> TRUE, intact |-> TRUE]

PackagesInit ==
  /\ \E have \in SUBSET Packages, v \in Versions, c \in Contents :
       /\ installed = [p \in Packages |-> IF p \in have THEN Registered(v, c) ELSE Missing]
       /\ lock = [p \in Packages |-> IF p \in have THEN Locked(v, c) ELSE Missing]
       /\ dirs = [d \in Dirs |-> IF d[1] \in have /\ d[2] = v THEN Filled(c) ELSE NoDir]
       /\ deployed = [p \in Packages |-> IF p \in have THEN c ELSE Missing]
       /\ extracted = {<<p, v, c>> : p \in have}
  /\ command = [r \in Commands |-> NotStarted]
  /\ damaged = {}
  /\ overlapped = FALSE

filesOfAikit == <<installed, lock, dirs, deployed>>
ghosts == <<extracted, damaged, overlapped>>

Active(r) == command[r].pc \notin {"idle", "ok", "warned", "bare", "over"}
Pkg(r) == command[r].pkg
Dir(r) == <<command[r].pkg, command[r].version>>
Goto(r, pc) == command' = [command EXCEPT ![r].pc = pc]

\* It ends without having done what it was asked to.
GiveUp(r) ==
  command' = [command EXCEPT ![r] = [NotStarted EXCEPT !.pc = "over", !.pkg = Pkg(r)]]

Begin(r) ==
  /\ command[r].pc = "idle"
  /\ \E p \in Packages, kind \in {"install", "update", "remove"} :
       LET others == {q \in Commands \ {r} : Active(q)}
           new == [NotStarted EXCEPT !.pc = IF kind = "install" THEN "fetch" ELSE "load",
                                     !.kind = kind, !.pkg = p, !.alone = others = {}]
       IN /\ command' = [q \in Commands |-> IF q = r THEN new
                                            ELSE [command[q] EXCEPT !.alone = FALSE]]
          /\ overlapped' = (overlapped \/ others # {})
  /\ UNCHANGED <<filesOfAikit, extracted, damaged>>

\* An error at any step but the tolerated ones, or a kill: what is on disk stays.
FailOrKill(r) ==
  /\ Active(r)
  /\ GiveUp(r)
  /\ UNCHANGED <<filesOfAikit, ghosts>>

-------------------------------------------------------------------------------
(* Deciding what to do.                                                      *)

Newer(v, old) == v > old

\* The manifest and the archive are fetched one after the other, and the ref may
\* move in between, so that any archive may come with any version.  update gives
\* up, as in FailOrKill, unless the version is newer.
Fetch(r) ==
  /\ command[r].pc = "fetch"
  /\ \E v \in Versions, c \in Contents :
       /\ command[r].kind = "update" => c # Folder /\ Newer(v, command[r].old)
       /\ command' = [command EXCEPT
            ![r].pc = IF command[r].kind = "install" THEN "load" ELSE "check",
            ![r].version = v, ![r].content = c]
  /\ UNCHANGED <<filesOfAikit, ghosts>>

\* The registry as it is now serves until the command saves it.
Load(r) ==
  /\ command[r].pc = "load"
  /\ LET entry == installed[Pkg(r)]
         kind == command[r].kind
         next == CASE kind = "install" -> "check"
                   [] kind = "update" -> "fetch"
                   [] kind = "remove" -> "delete"
     IN IF \/ kind # "install" /\ entry = Missing
           \/ kind = "update" /\ entry # Missing /\ entry.local
          THEN GiveUp(r)
          ELSE command' = [command EXCEPT ![r].pc = next, ![r].map = installed,
                 ![r].old = IF entry = Missing THEN Missing ELSE entry.version]
  /\ UNCHANGED <<filesOfAikit, ghosts>>

\* verify_checksum: the same version locked with another checksum.
Unverified(locks, p, v, c) == FALSE \* mutated form
Mismatch(locks, p, v, c) ==
  /\ locks[p] # Missing /\ c # Folder
  /\ locks[p].version = v
  /\ locks[p].checksum \notin {Missing, c}

\* Before anything is extracted.
CheckLock(r) ==
  /\ command[r].pc = "check"
  /\ IF Mismatch(lock, Pkg(r), command[r].version, command[r].content)
       THEN GiveUp(r) ELSE Goto(r, "extract")
  /\ UNCHANGED <<filesOfAikit, ghosts>>

-------------------------------------------------------------------------------
(* The package directory.                                                    *)

\* Commands that extract some of the contents into directory d.
Extracting(d, contents) ==
  {q \in Commands : command[q].pc = "extracting" /\ Dir(q) = d /\ command[q].content \in contents}

\* Command r moves on; what others extract is no longer theirs alone.
Disturb(others, r, new) ==
  command' = [q \in Commands |->
                IF q = r THEN new
                ELSE [command[q] EXCEPT !.intact = @ /\ q \notin others]]

\* install_package, copy_package_files, extract_zip: into the directory of the
\* version, over whatever is there.
BeginExtract(r) ==
  /\ command[r].pc = "extract"
  /\ LET others == Extracting(Dir(r), {command[r].content})
     IN Disturb(others, r, [command[r] EXCEPT !.pc = "extracting", !.intact = others = {}])
  /\ dirs' = [dirs EXCEPT ![Dir(r)] =
                [items |-> @.items \cup {command[r].content},
                 whole |-> @.whole \ {command[r].content}, top |-> command[r].content]]
  /\ damaged' = IF installed[Pkg(r)] # Missing /\ installed[Pkg(r)].version = command[r].version
                  THEN damaged \cup {Pkg(r)} ELSE damaged
  /\ UNCHANGED <<installed, lock, deployed, extracted, overlapped>>

FinishExtract(r) ==
  /\ command[r].pc = "extracting"
  /\ command' = [command EXCEPT
       ![r].pc = IF command[r].kind = "update" THEN "artifacts" ELSE "truncateRegistry",
       ![r].intact = TRUE]
  /\ dirs' = [dirs EXCEPT ![Dir(r)].items = @ \cup {command[r].content},
                          ![Dir(r)].whole = IF command[r].intact
                                              THEN @ \cup {command[r].content} ELSE @]
  /\ extracted' = extracted \cup {<<Pkg(r), command[r].version, command[r].content>>}
  /\ UNCHANGED <<installed, lock, deployed, damaged, overlapped>>

Latest(r) == <<Pkg(r), IF command[r].kind = "update" THEN command[r].version \* mutated form
                       ELSE command[r].old>>
Old(r) == <<Pkg(r), command[r].old>>

\* remove_package, of the version the registry had: by remove; and by update when
\* all else is done.  There may be nothing to delete.
BeginDelete(r) ==
  /\ command[r].pc = "delete"
  /\ Disturb(Extracting(Old(r), Contents), r, [command[r] EXCEPT !.pc = "deleting"])
  /\ dirs' = [dirs EXCEPT ![Old(r)].whole = {}]
  /\ damaged' = IF command[r].kind = "remove" THEN damaged \cup {Pkg(r)} ELSE damaged
  /\ UNCHANGED <<installed, lock, deployed, extracted, overlapped>>

FinishDelete(r) ==
  /\ command[r].pc = "deleting"
  /\ LET next == IF command[r].kind = "remove" THEN "truncateRegistry" ELSE "ok"
     IN Disturb(Extracting(Old(r), Contents), r, [command[r] EXCEPT !.pc = next])
  /\ dirs' = [dirs EXCEPT ![Old(r)] = NoDir]
  /\ UNCHANGED <<installed, lock, deployed, ghosts>>

\* update only warns when its deletion fails.
DeleteFails(r) ==
  /\ command[r].pc \in {"delete", "deleting"}
  /\ command[r].kind = "update"
  /\ Goto(r, "ok")
  /\ UNCHANGED <<filesOfAikit, ghosts>>

-------------------------------------------------------------------------------
(* registry.toml and packages.lock.                                          *)

TruncateRegistry(r) ==
  /\ command[r].pc = "truncateRegistry"
  /\ installed' = EmptyMap
  /\ Goto(r, "writeRegistry")
  /\ UNCHANGED <<lock, dirs, deployed, ghosts>>

\* add_package, or remove_package, on the map that was read.
NewEntry(r) ==
  IF command[r].kind = "remove" THEN Missing
  ELSE Registered(command[r].version, command[r].content)

WriteRegistry(r) ==
  /\ command[r].pc = "writeRegistry"
  /\ installed' = [command[r].map EXCEPT ![Pkg(r)] = NewEntry(r)]
  /\ damaged' = damaged \ {Pkg(r)}
  /\ command' = [command EXCEPT ![r].pc = "lock", ![r].map = EmptyMap]
  /\ UNCHANGED <<lock, dirs, deployed, extracted, overlapped>>

\* LockManager::new, and for install and update the checksum once more.
LoadLock(r) ==
  /\ command[r].pc = "lock"
  /\ IF command[r].kind = "remove" /\ lock[Pkg(r)] = Missing THEN Goto(r, "undeploy")
     ELSE IF command[r].kind # "remove"
             /\ Mismatch(lock, Pkg(r), command[r].version, command[r].content) THEN GiveUp(r)
     ELSE command' = [command EXCEPT ![r].pc = "truncateLock", ![r].locks = lock]
  /\ UNCHANGED <<filesOfAikit, ghosts>>

TruncateLock(r) ==
  /\ command[r].pc = "truncateLock"
  /\ lock' = EmptyMap
  /\ Goto(r, "writeLock")
  /\ UNCHANGED <<installed, dirs, deployed, ghosts>>

Unchanged(r) == command[r].locks[Pkg(r)] \* mutated form
NewLock(r) ==
  IF command[r].kind = "remove" THEN Missing
  ELSE Locked(command[r].version, command[r].content)

WriteLock(r) ==
  /\ command[r].pc = "writeLock"
  /\ lock' = [command[r].locks EXCEPT ![Pkg(r)] = NewLock(r)]
  /\ command' = [command EXCEPT
       ![r].pc = CASE command[r].kind = "install" -> "deploy"
                   [] command[r].kind = "update" -> "delete"
                   [] command[r].kind = "remove" -> "undeploy",
       ![r].locks = EmptyMap]
  /\ UNCHANGED <<installed, dirs, deployed, ghosts>>

-------------------------------------------------------------------------------
(* What the agents see.                                                      *)

\* installed_package_root: a folder's manifest is at the top, an archive's in its
\* one child; with two children there is no root to be found.
Root(dir) ==
  IF Folder \in dir.items THEN Folder
  ELSE IF \E c \in Archives : dir.items = {c} THEN dir.top ELSE Missing

\* update: the artifacts are copied afresh, the commands stay as they are.
CopyArtifacts(r) ==
  /\ command[r].pc = "artifacts"
  /\ Goto(r, "truncateRegistry")
  /\ UNCHANGED <<filesOfAikit, ghosts>>

\* generate_agent_commands and the deployment of subagents, skills and artifacts.
Deploy(r) ==
  /\ command[r].pc = "deploy"
  /\ LET root == Root(dirs[Dir(r)]) IN
       root # Missing /\ deployed' = [deployed EXCEPT ![Pkg(r)] = root]
  /\ Goto(r, "ok")
  /\ UNCHANGED <<installed, lock, dirs, ghosts>>

\* The commands are written one by one, to the end or not.
PartlyWritten(r) ==
  {deployed} \cup {[deployed EXCEPT ![Pkg(r)] = x] : x \in {Missing, Root(dirs[Dir(r)])}}

\* Each of these but the artifacts may fail, as all do without a root: install
\* warns and reports success.
DeployWarns(r) ==
  /\ command[r].pc = "deploy"
  /\ deployed' \in PartlyWritten(r)
  /\ Goto(r, "warned")
  /\ UNCHANGED <<installed, lock, dirs, ghosts>>

\* The artifacts cannot be copied, or a kill.
DeployFails(r) ==
  /\ command[r].pc = "deploy"
  /\ deployed' \in PartlyWritten(r)
  /\ GiveUp(r)
  /\ UNCHANGED <<installed, lock, dirs, ghosts>>

\* The user was asked whether to reinstall and declined, or selected no agent.
Decline(r) ==
  /\ \/ command[r].pc = "check" /\ command[r].kind = "install" /\ command[r].old # Missing
        /\ GiveUp(r)
     \/ command[r].pc = "deploy" /\ Goto(r, "bare")
  /\ UNCHANGED <<filesOfAikit, ghosts>>

\* remove_agent_commands looks below the current directory, which need not be
\* that of the project.
Undeploy(r) ==
  /\ command[r].pc = "undeploy"
  /\ deployed' \in {deployed, [deployed EXCEPT ![Pkg(r)] = Missing]}
  /\ Goto(r, "ok")
  /\ UNCHANGED <<installed, lock, dirs, ghosts>>

CommandStep(r) ==
  \/ Begin(r) \/ FailOrKill(r) \/ Fetch(r) \/ Load(r) \/ CheckLock(r)
  \/ BeginExtract(r) \/ FinishExtract(r)
  \/ BeginDelete(r) \/ FinishDelete(r) \/ DeleteFails(r)
  \/ TruncateRegistry(r) \/ WriteRegistry(r)
  \/ LoadLock(r) \/ TruncateLock(r) \/ WriteLock(r)
  \/ CopyArtifacts(r) \/ Deploy(r) \/ DeployWarns(r) \/ DeployFails(r)
  \/ Decline(r) \/ Undeploy(r)

PackagesNext == \E r \in Commands : CommandStep(r)
PackagesSpec == PackagesInit /\ [][PackagesNext]_packageVars

-------------------------------------------------------------------------------
(* Properties.                                                               *)

RegistryEntries == [version : Versions, local : BOOLEAN] \cup {Missing}
LockEntries == [version : Versions, checksum : Archives \cup {Missing}] \cup {Missing}
DirStates == [items : SUBSET Contents, whole : SUBSET Contents, top : Contents \cup {Missing}]
Invocations ==
  [pc : {"idle", "fetch", "load", "check", "extract", "extracting", "artifacts",
         "truncateRegistry", "writeRegistry", "lock", "truncateLock", "writeLock",
         "delete", "deleting", "deploy", "undeploy", "ok", "warned", "bare", "over"},
   kind : {"install", "update", "remove"}, pkg : Packages \cup {Missing},
   version : Versions \cup {Missing}, content : Contents \cup {Missing},
   old : Versions \cup {Missing}, map : [Packages -> RegistryEntries],
   locks : [Packages -> LockEntries], alone : BOOLEAN, intact : BOOLEAN]

PackagesTypeOK ==
  /\ installed \in [Packages -> RegistryEntries]
  /\ lock \in [Packages -> LockEntries]
  /\ dirs \in [Dirs -> DirStates]
  /\ deployed \in [Packages -> Contents \cup {Missing}]
  /\ command \in [Commands -> Invocations]
  /\ extracted \subseteq Packages \X Versions \X Contents
  /\ damaged \subseteq Packages
  /\ overlapped \in BOOLEAN

Agree(p, v, c) ==
  /\ installed[p] = Registered(v, c) /\ lock[p] = Locked(v, c)
  /\ c \in dirs[<<p, v>>].whole

\* What a command that succeeds reports is true, whatever the commands before it
\* left behind, as long as no other ran meanwhile (or since).  After install and
\* update the registry, the lock and the package directory agree on the version
\* and the content, and the agent commands of an install that did not warn come
\* from that content unless the directory holds another one; after remove all
\* three are gone (execute_install, execute_update_with_client, execute_remove).
SuccessIsTrue ==
  \A r \in Commands : command[r].pc \in {"ok", "warned", "bare"} /\ command[r].alone =>
     LET p == Pkg(r) IN
     IF command[r].kind = "remove"
       THEN installed[p] = Missing /\ lock[p] = Missing /\ dirs[Old(r)] = NoDir
     ELSE /\ Agree(p, command[r].version, command[r].content)
          /\ command[r].kind = "install" /\ command[r].pc = "ok" =>
               \/ deployed[p] = command[r].content
               \/ dirs[Dir(r)].items # {command[r].content}


\* Whoever reads packages.lock, at whatever moment, finds no version and checksum
\* that were not completely extracted; and as long as commands run one at a time,
\* being killed or failing anywhere, no other archive is ever put over a locked
\* one (the checksum is verified before the extraction and recorded after it:
\* install.rs, lock.rs:12-16).
LockTellsTruth ==
  \A p \in Packages : lock[p] # Missing =>
    LET v == lock[p].version
        c == IF lock[p].checksum = Missing THEN Folder ELSE lock[p].checksum
    IN /\ <<p, v, c>> \in extracted
       /\ ~overlapped /\ c # Folder => dirs[<<p, v>>].top \in {c, Folder, Missing}

\* Likewise the registry never names a version that was not completely extracted;
\* and as long as commands run one at a time, wherever they were killed, the
\* version that it names is there, unless a remove or a reinstallation of that
\* very version was cut short: an update may be killed anywhere.
RegistryTellsTruth ==
  \A p \in Packages : installed[p] # Missing =>
    /\ \E c \in Contents : <<p, installed[p].version, c>> \in extracted
    /\ ~overlapped /\ p \notin damaged => dirs[<<p, installed[p].version>>].whole # {}
===============================================================================
