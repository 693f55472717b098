-------------------------------- MODULE MCEdits --------------------------------
(* Two steps, or a step and a slow update, of up to three trajectories, with   *)
(* one resume, on a skill without a protected region and on one that has one.  *)
(* The edits take every operation through every check: anchors that match word *)
(* for word, up to blanks, not at all, inside the protected region, at its     *)
(* begin, and across it.  One of them writes a marker.                         *)
EXTENDS Edits

An(op, target, content, impact) ==
  [op |-> op, target |-> target, content |-> content, impact |-> impact]

MCSeeds == {<<"a", "sp", "b">>, <<"a", "nl", "nl", "b", Begin, "g", End>>}

MCReflectPatches ==
  {<<An("Append", NoText, <<"c">>, 1)>>,
   <<An("Replace", <<"b", Begin>>, <<"c">>, 2)>>,
   <<An("Delete", <<"a", "sp", "b">>, NoText, 2), An("Delete", <<"a">>, NoText, 1)>>}

MCMergedPatches ==
  {<<An("InsertAfter", <<"a", "sp">>, <<"c">>, 1), An("Replace", <<"c">>, <<"b">>, 2)>>,
   <<An("Delete", <<Begin>>, NoText, 2), An("Replace", <<"g">>, <<"c">>, 2),
     An("Append", NoText, <<End>>, 2)>>,
   <<An("Replace", NoText, <<"c">>, 1), An("InsertAfter", <<"nl">>, NoText, 1),
     An("InsertAfter", <<"b">>, <<"c">>, 1)>>}

MCGuidances == {<<"g">>, <<"h", "nl">>}

\* No step is begun any more.
EditsOver ==
  /\ group_size = 2 /\ skill = Seeded(<<>>) /\ original = skill /\ best = skill
  /\ at = "between" /\ level = <<>> /\ next_level = <<>> /\ pool = <<>>
  /\ update = NoUpdate /\ budget = 1 /\ rounds = MaxRounds /\ reloads = MaxReloads
===============================================================================
