----------------------------- MODULE MCRegistries -----------------------------
(* State that several actors read, change and put back: the registry of the   *)
(* server's runs; the package files of the command line; the rows and the     *)
(* watermark that captures of an OpenCode database leave.  They share         *)
(* nothing, so a behaviour has one of them.                                   *)
EXTENDS RunSession, Packages, OpenCode

CONSTANTS s1, s2, r1, r2, a1, a2, x1, x2, d1, d2, d3, q1, q2

TwoSessions == {s1, s2}
OneSession  == {s1}
TwoRuns     == {r1, r2}

\* A tool part and an answer of an OpenCode session, a prompt and its text.
PartAnswerPrompt == {<<"part", 1>>, <<"answer", 2>>, <<"prompt", 3>>, <<"text", 3>>}

VARIABLE host

mcVars == <<vars, packageVars, openCodeVars, host>>

MCInit ==
  /\ Init /\ PackagesInit /\ OpenCodeInit
  /\ host \in {"server", "command line", "capture"}
  /\ host # "command line" => installed = EmptyMap
  /\ \A d \in Dirs : dirs[d] # NoDir => d[2] = 1 /\ dirs[d].top # a2
  /\ host # "capture" => ~foreign

\* Commands, packages and archives are alike: d1 may as well be the first, and about
\* x1, and what is installed at the beginning is not a2.  Two
\* commands run at once, or three, about one package, one after the other.
Turn(r) ==
  /\ r = d2 => command[d1].pc # "idle"
  /\ r = d3 => ~overlapped /\ ~Active(d1) /\ ~Active(d2)
               /\ command[d1].pc # "idle" /\ command[d2].pkg = x1
Subject(r, p) == r # d2 => p = x1

MCBegin(r) == Turn(r) /\ Begin(r) /\ Subject(r, command'[r].pkg)

MCPackagesNext ==
  \E r \in Commands : IF command[r].pc = "idle" THEN MCBegin(r) ELSE CommandStep(r)

\* A scan and the watcher at once, or, with a mirror between, one after the other.
MCOpenCodeNext ==
  /\ OpenCodeNext
  /\ foreign => Cardinality({r \in Readers : Now(r, "idle")'}) + 1 >= Cardinality(Readers)

MCNext ==
  \/ host = "server" /\ Next /\ UNCHANGED <<packageVars, openCodeVars, host>>
  \/ host = "command line" /\ MCPackagesNext /\ UNCHANGED <<vars, openCodeVars, host>>
  \/ host = "capture" /\ MCOpenCodeNext /\ UNCHANGED <<vars, packageVars, host>>

MCSpec == MCInit /\ [][MCNext]_mcVars
===============================================================================
