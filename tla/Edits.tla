--------------------------------- MODULE Edits ---------------------------------
(***************************************************************************)
(* The edit substrate of aikit-textgrad (edit.rs) and what the training    *)
(* loop does with it to the text of a skill: the patches of a step are     *)
(* merged level by level (step.rs), ranked and applied within the budget   *)
(* of the epoch, the gate keeps or drops the candidate, and the slow       *)
(* update (epoch.rs) rewrites the protected region at the tail.            *)
(*                                                                         *)
(* A text is a sequence of tokens: words, two kinds of blank, and the two  *)
(* markers of the protected region.  Positions are offsets: the number of  *)
(* tokens before.                                                          *)
(***************************************************************************)
EXTENDS Integers, Sequences, FiniteSets, SequencesExt, FiniteSetsExt

CONSTANTS Seeds,          \* the initial SKILL.md texts considered
          GroupSizes,     \* the RunConfig.aggregate_group_size values considered
          Budgets,        \* what compute_lr may give for an epoch
          ReflectPatches, \* what reflection on one trajectory may propose
          MergedPatches,  \* what the optimizer may make of a group of patches
          Guidances,      \* the protected regions a slow update may write
          MaxTrajectories, MaxRounds, MaxReloads \* bounds: cases of a step;
                          \* steps and slow updates together; resumes

Blanks == {"sp", "nl"}
Begin  == "PROTECTED_BEGIN"
End    == "PROTECTED_END"
NoText   == <<"no text">> \* a target or content that is absent

ASSUME GroupAssumption  == GroupSizes \subseteq Nat \ {0} \* validate_config
ASSUME BudgetAssumption == Budgets \subseteq Nat \ {0}    \* max(1, ..)
ASSUME TextAssumption   == \A t \in Seeds \cup Guidances : t \in Seq(ToSet(t))
ASSUME PatchAssumption  ==
  \A p \in ReflectPatches \cup MergedPatches :
     /\ p \in Seq(ToSet(p))
     /\ \A e \in ToSet(p) : /\ e.op \in {"Append", "InsertAfter", "Replace", "Delete"}
                            /\ e.target \in Seq(ToSet(e.target))
                            /\ e.content \in Seq(ToSet(e.content))
ASSUME EditBounds == MaxTrajectories \in Nat /\ MaxRounds \in Nat /\ MaxReloads \in Nat

VARIABLES
  group_size, \* RunConfig.aggregate_group_size
  at,         \* "between" steps, in "aggregate", at the "gate", or "hung"
  level,      \* patches still to be merged in this round of aggregate
  next_level, \* those merged already
  pool,       \* the ranked pool of the step
  update,     \* what apply_budgeted made of it
  budget,     \* lr of the step's epoch
  skill,      \* artifact.text(), with what it should protect
  original,   \* the same, before the step's edits
  best,       \* best_{stem}.md
  rounds, reloads

editVars == <<group_size, at, level, next_level, pool, update, budget, skill,
              original, best, rounds, reloads>>

-------------------------------------------------------------------------------
(* Finding anchors.                                                          *)

Offsets(text, part) ==
  {i \in 0 .. Len(text) - Len(part) : SubSeq(text, i + 1, i + Len(part)) = part}
Occurs(text, part) == Offsets(text, part) # {}
Find(text, part) == Min(Offsets(text, part))

\* editable_end: the start of the protected region, or the end of the text.
EditableEnd(text) == IF Occurs(text, <<Begin>>) THEN Find(text, <<Begin>>)
                                                 ELSE Len(text)

\* normalize_ws: of each run of blanks the first stands for all.
Follows(text, i) == i > 1 /\ text[i - 1] \in Blanks /\ text[i] \in Blanks
Kept(text) ==
  LET kept[i \in 0 .. Len(text)] ==
        IF i = 0 THEN <<>>
        ELSE kept[i - 1] \o (IF Follows(text, i) THEN <<>> ELSE <<i>>)
  IN  kept[Len(text)]
Normalized(text) ==
  LET kept == Kept(text)
  IN  [k \in DOMAIN kept |-> IF text[kept[k]] \in Blanks THEN "sp" ELSE text[kept[k]]]

\* Up to blanks: the range ends where the next kept token of the text starts.
LooseAnchors(text, starts, normalized, wanted) ==
  LET first == Find(normalized, wanted)
      after == first + Len(wanted) + 1
  IN  IF ~Occurs(normalized, wanted) THEN {}
      ELSE {[start |-> starts[first + 1] - 1,
             end   |-> IF after <= Len(starts) THEN starts[after] - 1 ELSE Len(text)]}

\* resolve_anchor, as the set of at most one range: an exact match, else one
\* up to blanks.
Anchors(text, target) ==
  CASE target = <<>> -> {}
    [] target # <<>> /\ Occurs(text, target) ->
         {[start |-> Find(text, target), end |-> Find(text, target) + Len(target)]}
    [] target # <<>> /\ ~Occurs(text, target) ->
         UNION {LooseAnchors(text, starts, normalized, wanted) :
                  starts \in {Kept(text)}, normalized \in {Normalized(text)},
                  wanted \in {Normalized(target)}}

-------------------------------------------------------------------------------
(* Applying edits.                                                           *)

Splice(text, from, to, content) ==
  SubSeq(text, 1, from) \o content \o SubSeq(text, to + 1, Len(text))

InsideOnly(anchor, text) == anchor.start > EditableEnd(text) \* mutated form
Refused(anchor, text) == anchor.start >= EditableEnd(text)

\* Why apply_one_edit skips an edit, in the order of its checks.
Skip(text, edit) ==
  IF edit.op # "Append" /\ edit.target = NoText THEN "MissingTarget"
  ELSE IF edit.op # "Delete" /\ edit.content = NoText THEN "MissingContent"
  ELSE IF edit.op = "Append" THEN "no"
  ELSE IF Anchors(text, edit.target) = {} THEN "AnchorNotFound"
  ELSE IF \E a \in Anchors(text, edit.target) : Refused(a, text) THEN "TargetsProtected"
  ELSE "no"

\* What apply_one_edit makes of a text when it does not skip the edit.
Edited(text, edit) ==
  IF edit.op = "Append"
    THEN Splice(text, EditableEnd(text), EditableEnd(text), edit.content)
    ELSE LET a == CHOOSE x \in Anchors(text, edit.target) : TRUE
         IN  CASE edit.op = "InsertAfter" -> Splice(text, a.end, a.end, edit.content)
               [] edit.op = "Replace"     -> Splice(text, a.start, a.end, edit.content)
               [] edit.op = "Delete"      -> Splice(text, a.start, a.end, <<>>)

HasMarker(text) == {Begin, End} \cap ToSet(text) # {}

\* Ghost: the edit writes a marker, or its anchor begins before the protected
\* region and reaches into it.
Breaks(text, edit) ==
  \/ edit.op # "Delete" /\ HasMarker(edit.content)
  \/ /\ edit.op # "Append"
     /\ \E a \in Anchors(text, edit.target) :
           a.start < EditableEnd(text) /\ EditableEnd(text) < a.end

\* The budget is spent on edits that were applied.
CountsSkips(walk, limit) == Len(walk.chosen) + Len(walk.skipped) >= limit \* mutated form
Spent(walk, limit) == Len(walk.chosen) >= limit

NewWalk(text) == [text |-> text, chosen |-> <<>>, skipped |-> <<>>, broken |-> FALSE]

\* Edit i in the walk of apply_budgeted.
WalkOn(walk, edits, i, limit) ==
  CASE Spent(walk, limit) -> walk
    [] ~Spent(walk, limit) /\ Skip(walk.text, edits[i]) = "no" ->
         [text    |-> Edited(walk.text, edits[i]),
          chosen  |-> Append(walk.chosen, i),
          skipped |-> walk.skipped,
          broken  |-> walk.broken \/ Breaks(walk.text, edits[i])]
    [] ~Spent(walk, limit) /\ Skip(walk.text, edits[i]) # "no" ->
         [walk EXCEPT !.skipped = Append(@, <<i, Skip(walk.text, edits[i])>>)]

\* The walk after each number of edits, and after all of them.
Walks(text, edits, limit) ==
  LET walks[i \in 0 .. Len(edits)] ==
        IF i = 0 THEN NewWalk(text) ELSE WalkOn(walks[i - 1], edits, i, limit)
  IN  walks
Walk(text, edits, limit) == Walks(text, edits, limit)[Len(edits)]

\* apply_patch: every edit, on the result of the one before.
ApplyPatch(text, patch) == Walk(text, patch, Len(patch) + 1)

\* apply_budgeted: the report comes from applying the chosen edits once more.
ApplyBudgeted(text, edits, limit) ==
  LET walk == Walk(text, edits, limit)
  IN  [chosen |-> walk.chosen, intra_patch_skips |-> walk.skipped,
       report |-> ApplyPatch(text, [k \in DOMAIN walk.chosen |-> edits[walk.chosen[k]]])]

\* select_ranked_pool: highest impact first, ties in declaration order, so that
\* an edit goes behind those before it that have no less impact.
Rank(ranked, edit) == Cardinality({k \in DOMAIN ranked : ranked[k].impact >= edit.impact}) + 1
Ranked(edits) ==
  LET ranked[i \in 0 .. Len(edits)] ==
        IF i = 0 THEN <<>>
        ELSE InsertAt(ranked[i - 1], Rank(ranked[i - 1], edits[i]), edits[i])
  IN  ranked[Len(edits)]

-------------------------------------------------------------------------------
(* The protected region.                                                     *)

\* ensure_protected_region, for the seed of a run.
EnsureProtectedRegion(text) ==
  IF Occurs(text, <<Begin>>) THEN text
  ELSE text \o (IF text # <<>> /\ Last(text) # "nl" THEN <<"nl">> ELSE <<>>)
            \o <<Begin, "nl", "nl", End>>

ProtectedContent(text) ==
  LET from == EditableEnd(text) + 1
      to   == IF Occurs(text, <<End>>) THEN Find(text, <<End>>) ELSE Len(text)
  IN  SubSeq(text, from + 1, to)

\* replace_protected_content: a text without both markers stays as it is.
ReplaceProtected(text, content) ==
  IF Occurs(text, <<Begin>>) /\ Occurs(text, <<End>>)
    THEN Splice(text, Find(text, <<Begin>>), Find(text, <<End>>) + 1,
                <<Begin>> \o content \o <<End>>)
    ELSE text

-------------------------------------------------------------------------------
(* Steps and slow updates.                                                   *)

NoUpdate == [chosen |-> <<>>, intra_patch_skips |-> <<>>, report |-> <<>>]

\* A skill is its text, the guidance its protected region was last given, and
\* whether the region was broken: by the seed, an edit or a guidance.
Marked(text) == /\ Occurs(text, <<Begin>>) /\ Occurs(text, <<End>>)
                /\ Find(text, <<Begin>>) < Find(text, <<End>>)
Seeded(seed) == LET text == EnsureProtectedRegion(seed)
                IN  [text |-> text, guidance |-> ProtectedContent(text),
                     broken |-> ~Marked(text)]

EditInit ==
  /\ group_size \in GroupSizes
  /\ \E seed \in Seeds : skill = Seeded(seed)
  /\ original = skill
  /\ best = skill
  /\ at = "between"
  /\ level = <<>> /\ next_level = <<>> /\ pool = <<>>
  /\ update = NoUpdate
  /\ budget \in Budgets
  /\ rounds = 0 /\ reloads = 0

\* Rollouts and reflect: one patch for each trajectory.
Reflect ==
  /\ at = "between"
  /\ rounds < MaxRounds
  /\ \E n \in 1 .. MaxTrajectories : \E patches \in [1 .. n -> ReflectPatches] :
        level' = patches
  /\ budget' \in Budgets
  /\ original' = skill
  /\ at' = "aggregate"
  /\ rounds' = rounds + 1
  /\ UNCHANGED <<group_size, next_level, pool, update, skill, best, reloads>>

\* merge_patch_group: a group of one is kept; the optimizer merges others, or
\* fails, and then they are put one after the other.
MergedInto(group) ==
  IF Len(group) = 1 THEN {Head(group)}
                    ELSE {FlattenSeq(group)} \cup (MergedPatches \ {<<>>})

\* One group of `level`, in the loop of aggregate over its chunks.
ChunkLen(patches) == Min({group_size, Len(patches)})

MergeGroup ==
  /\ at = "aggregate"
  /\ level # <<>>
  /\ next_level # <<>> \/ Len(level) > 1
  /\ \E merged \in MergedInto(SubSeq(level, 1, ChunkLen(level))) :
        next_level' = Append(next_level, merged)
  /\ level' = SubSeq(level, ChunkLen(level) + 1, Len(level))
  /\ UNCHANGED <<group_size, at, pool, update, budget, skill, original, best,
                 rounds, reloads>>

\* The optimizer that merges a group has no time limit: it may never answer.
HangOnMerge ==
  /\ at = "aggregate"
  /\ next_level # <<>> \/ Len(level) > 1
  /\ ChunkLen(level) > 1
  /\ at' = "hung"
  /\ UNCHANGED <<group_size, level, next_level, pool, update, budget, skill,
                 original, best, rounds, reloads>>

\* The next round of aggregate's outer loop.
NextLevel ==
  /\ at = "aggregate"
  /\ level = <<>>
  /\ level' = next_level
  /\ next_level' = <<>>
  /\ UNCHANGED <<group_size, at, pool, update, budget, skill, original, best,
                 rounds, reloads>>

\* The loop of aggregate ends when one patch is left.
Aggregated == Len(level) = 1 /\ next_level = <<>>

\* Rank it and apply it; the artifact carries the candidate while the gate
\* scores it.
Update ==
  /\ at = "aggregate"
  /\ Aggregated
  /\ LET ranked  == Ranked(level[1])
         applied == ApplyBudgeted(skill.text, ranked, budget)
     IN  /\ pool' = ranked
         /\ update' = applied
         /\ skill' = [skill EXCEPT !.text = applied.report.text,
                                   !.broken = @ \/ applied.report.broken]
  /\ level' = <<>>
  /\ at' = "gate"
  /\ UNCHANGED <<group_size, next_level, budget, original, best, rounds, reloads>>

\* The gate accepts, and best_{stem}.md is overwritten, or it restores the text.
Judge ==
  /\ at = "gate"
  /\ \/ best' = skill /\ UNCHANGED skill
     \/ skill' = original /\ UNCHANGED best
  /\ at' = "between"
  /\ pool' = <<>>
  /\ update' = NoUpdate
  /\ UNCHANGED <<group_size, level, next_level, budget, original, rounds, reloads>>

\* run_slow_update, when its pipeline answers and the answer is accepted
\* (otherwise the text is what it was).  best_{stem}.md is not written.
SlowUpdateRegion ==
  /\ at = "between"
  /\ rounds < MaxRounds
  /\ \E content \in Guidances :
        skill' = [skill EXCEPT !.text = ReplaceProtected(@, content),
                               !.guidance = content,
                               !.broken = @ \/ HasMarker(content)]
  /\ rounds' = rounds + 1
  /\ UNCHANGED <<group_size, at, level, next_level, pool, update, budget,
                 original, best, reloads>>

\* A crash anywhere, then resume_training: the text of best_{stem}.md.
Reload ==
  /\ reloads < MaxReloads
  /\ skill' = best
  /\ at' = "between"
  /\ level' = <<>> /\ next_level' = <<>> /\ pool' = <<>>
  /\ update' = NoUpdate
  /\ reloads' = reloads + 1
  /\ UNCHANGED <<group_size, budget, original, best, rounds>>

Aggregate == MergeGroup \/ NextLevel
EditNext == Reflect \/ Aggregate \/ HangOnMerge \/ Update \/ Judge \/ SlowUpdateRegion \/ Reload

EditSpec == EditInit /\ [][EditNext]_editVars

-------------------------------------------------------------------------------
(* Properties.                                                               *)

\* The slow update's guidance stands (CONTEXT.md, "Protected region"): whatever
\* edits are applied, kept, dropped or reloaded, the protected region holds what
\* the last slow update accepted into this text wrote (or the seed), unless the
\* seed has no region, a marker was written into the text, or an edit was applied
\* whose anchor begins before the region and reaches into it.
GuidanceStands ==
  ~skill.broken => ProtectedContent(skill.text) = skill.guidance

\* apply_budgeted and CONTEXT.md, "Dry-run apply": the budget counts the edits that
\* took effect; it is filled with them or the pool is dry, and the report of the
\* second application agrees with that.  Of a pool with edits that hit the protected
\* region it only says the bound and the agreement: by CONTEXT.md those are never
\* backfilled, and the code backfills them like all others.
BudgetFilled ==
  at = "gate" =>
     LET skips == ToSet(update.intra_patch_skips)
         tried == ToSet(update.chosen) \cup {s[1] : s \in skips}
         hits  == {s \in skips : s[2] = "TargetsProtected"}
     IN  /\ Len(update.chosen) <= budget
         /\ hits = {} => Len(update.chosen) = budget \/ tried = DOMAIN pool
         /\ update.report.skipped = <<>>
         /\ Len(update.report.chosen) = Len(update.chosen)

===============================================================================
