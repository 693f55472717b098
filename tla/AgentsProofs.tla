----------------------------- MODULE AgentsProofs -----------------------------
(***************************************************************************)
(* What a run of the built-in agent asks the LLM for, what it saves and     *)
(* what the index names, for any number of runs, sessions and directories,  *)
(* and any bounds.                                                          *)
(***************************************************************************)
EXTENDS AgentRun, TLAPS

-------------------------------------------------------------------------------
(* Conversations that grow.                                                  *)

LEMMA AppendFacts ==
  ASSUME NEW c \in Seq(Turns), NEW t \in Turns
  PROVE  /\ Append(c, t) \in Seq(Turns)
         /\ Len(Append(c, t)) = Len(c) + 1
         /\ DOMAIN Append(c, t) = 1 .. Len(c) + 1 /\ DOMAIN c = 1 .. Len(c)
         /\ \A i \in 1 .. Len(c) : Append(c, t)[i] = c[i]
         /\ Append(c, t)[Len(c) + 1] = t
         /\ Len(c) \in Nat
OBVIOUS

LEMMA ConcatFacts ==
  ASSUME NEW s \in Seq(Turns), NEW t \in Seq(Turns)
  PROVE  /\ s \o t \in Seq(Turns)
         /\ Len(s \o t) = Len(s) + Len(t) /\ DOMAIN (s \o t) = 1 .. Len(s) + Len(t)
         /\ \A i \in 1 .. Len(s) : (s \o t)[i] = s[i]
         /\ \A i \in 1 .. Len(t) : (s \o t)[Len(s) + i] = t[i]
         /\ Len(s) \in Nat /\ Len(t) \in Nat
OBVIOUS

LEMMA TurnFacts ==
  /\ \A text : UserTurn(text).role = "user" /\ UserTurn(text).calls = {}
  /\ \A text, calls : /\ AssistantTurn(text, calls).role = "assistant"
                      /\ AssistantTurn(text, calls).calls = calls
                      /\ AssistantTurn(text, calls).text = text
                      /\ AssistantTurn(text, calls).results = {}
  /\ \A results : /\ ToolTurn(results).role = "tool" /\ ToolTurn(results).calls = {}
                  /\ ToolTurn(results).results = results
BY DEF UserTurn, AssistantTurn, ToolTurn, Turn

LEMMA TurnTypes ==
  /\ \A text \in Texts : UserTurn(text) \in Turns
  /\ \A text \in Texts, calls \in SUBSET ToolCalls : AssistantTurn(text, calls) \in Turns
  /\ \A results \in SUBSET CallIds : ToolTurn(results) \in Turns
  /\ Summary \in Turns
<1>1. NoText \in Texts /\ <<"summary", 0>> \in Texts
  BY DEF NoText, Texts
<1> QED
  BY <1>1 DEF UserTurn, AssistantTurn, ToolTurn, Turn, Turns, Summary

\* The ids of calls.
LEMMA IdFacts ==
  ASSUME NEW calls \in SUBSET ToolCalls
  PROVE  /\ IdsOf(calls) \in SUBSET CallIds
         /\ IdsOf(calls) = {} <=> calls = {}
         /\ \A call \in ToolCalls : call.id \in CallIds
         /\ \A call : IdsOf(calls \cup {call}) = IdsOf(calls) \cup {call.id}
BY DEF IdsOf, ToolCalls

\* The latest turn of a role after one more turn.
LEMMA LatestAppend ==
  ASSUME NEW c \in Seq(Turns), NEW t \in Turns, NEW role
  PROVE  Latest(Append(c, t), role) = IF t.role = role THEN {t} ELSE Latest(c, role)
<1> DEFINE d == Append(c, t)
<1>1. CASE t.role = role
  <2>1. Len(c) + 1 \in Spoken(d, role)
    BY <1>1, AppendFacts DEF Spoken
  <2>2. LastOf(Spoken(d, role)) = {Len(c) + 1}
    BY <2>1, AppendFacts DEF LastOf, Spoken
  <2> QED
    BY <2>2, <1>1, AppendFacts DEF Latest
<1>2. CASE t.role # role
  <2>1. Spoken(d, role) = Spoken(c, role)
    BY <1>2, AppendFacts DEF Spoken
  <2>2. \A i \in LastOf(Spoken(c, role)) : d[i] = c[i]
    BY AppendFacts DEF LastOf, Spoken
  <2> QED
    BY <2>1, <2>2, <1>2 DEF Latest
<1> QED
  BY <1>1, <1>2

\* A turn without calls that is not a results turn.
LEMMA AppendPlain ==
  ASSUME NEW c \in Seq(Turns), NEW t \in Turns,
         WellFormed(c), t.role # "tool", t.calls = {}
  PROVE  WellFormed(Append(c, t))
<1> DEFINE d == Append(c, t)
<1>1. ToolTurnsFollowCalls(d)
  <2> SUFFICES ASSUME NEW i \in Spoken(d, "tool")
               PROVE  /\ d[i].results # {}
                      /\ i > 1 /\ d[i - 1].role = "assistant" /\ IdsOf(d[i - 1].calls) = d[i].results
    BY DEF ToolTurnsFollowCalls
  <2>1. i \in 1 .. Len(c) /\ i \in Spoken(c, "tool") /\ d[i] = c[i]
    BY AppendFacts DEF Spoken
  <2>2. c[i].results # {} /\ i > 1 /\ c[i - 1].role = "assistant" /\ IdsOf(c[i - 1].calls) = c[i].results
    BY <2>1 DEF WellFormed, ToolTurnsFollowCalls
  <2>3. d[i - 1] = c[i - 1]
    BY <2>1, <2>2, AppendFacts
  <2> QED
    BY <2>1, <2>2, <2>3
<1>2. CallsAreAnswered(d)
  <2> SUFFICES ASSUME NEW i \in DOMAIN d, d[i].calls # {}
               PROVE  i < Len(d) /\ d[i + 1].role = "tool"
    BY DEF CallsAreAnswered
  <2>1. i \in 1 .. Len(c) /\ d[i] = c[i]
    BY AppendFacts
  <2>2. i < Len(c) /\ c[i + 1].role = "tool"
    BY <2>1, AppendFacts DEF WellFormed, CallsAreAnswered
  <2> QED
    BY <2>1, <2>2, AppendFacts
<1> QED
  BY <1>1, <1>2 DEF WellFormed

\* Calls and their results.
LEMMA AppendCalls ==
  ASSUME NEW c \in Seq(Turns), NEW text \in Texts, NEW calls \in SUBSET ToolCalls,
         WellFormed(c), calls # {}
  PROVE  WellFormed(Append(Append(c, AssistantTurn(text, calls)), ToolTurn(IdsOf(calls))))
<1> DEFINE ids == IdsOf(calls)
           a == AssistantTurn(text, calls)
           b == ToolTurn(ids)
           d == Append(Append(c, a), b)
<1>0. ids \in SUBSET CallIds /\ ids # {}
  BY IdFacts
<1>1. a \in Turns /\ b \in Turns /\ Append(c, a) \in Seq(Turns)
  BY <1>0, TurnTypes, AppendFacts
<1>2. /\ DOMAIN d = 1 .. Len(c) + 2 /\ Len(d) = Len(c) + 2 /\ Len(c) \in Nat
      /\ \A i \in 1 .. Len(c) : d[i] = c[i]
      /\ d[Len(c) + 1] = a /\ d[Len(c) + 2] = b
  BY <1>1, AppendFacts
<1>3. /\ a.role = "assistant" /\ IdsOf(a.calls) = ids
      /\ b.role = "tool" /\ b.calls = {} /\ b.results = ids
  BY TurnFacts
<1> HIDE DEF a, b, d, ids
<1>4. ToolTurnsFollowCalls(d)
  <2> SUFFICES ASSUME NEW i \in Spoken(d, "tool")
               PROVE  /\ d[i].results # {}
                      /\ i > 1 /\ d[i - 1].role = "assistant" /\ IdsOf(d[i - 1].calls) = d[i].results
    BY DEF ToolTurnsFollowCalls
  <2>0. i \in 1 .. Len(c) + 2 /\ d[i].role = "tool"
    BY <1>2 DEF Spoken
  <2>1. CASE i \in 1 .. Len(c)
    <3>1. i \in Spoken(c, "tool") /\ d[i] = c[i]
      BY <2>0, <2>1, <1>2, AppendFacts DEF Spoken
    <3>2. c[i].results # {} /\ i > 1 /\ c[i - 1].role = "assistant" /\ IdsOf(c[i - 1].calls) = c[i].results
      BY <3>1 DEF WellFormed, ToolTurnsFollowCalls
    <3>3. d[i - 1] = c[i - 1]
      BY <2>1, <3>2, <1>2
    <3> QED
      BY <3>1, <3>2, <3>3
  <2>2. CASE i = Len(c) + 1
    BY <2>0, <2>2, <1>2, <1>3
  <2>3. CASE i = Len(c) + 2
    BY <2>3, <1>0, <1>2, <1>3
  <2> QED
    BY <2>0, <2>1, <2>2, <2>3, <1>2
<1>5. CallsAreAnswered(d)
  <2> SUFFICES ASSUME NEW i \in DOMAIN d, d[i].calls # {}
               PROVE  i < Len(d) /\ d[i + 1].role = "tool"
    BY DEF CallsAreAnswered
  <2>1. CASE i \in 1 .. Len(c)
    <3>1. i < Len(c) /\ c[i + 1].role = "tool"
      BY <2>1, <1>2, AppendFacts DEF WellFormed, CallsAreAnswered
    <3> QED
      BY <2>1, <3>1, <1>2
  <2>2. CASE i = Len(c) + 1
    BY <2>2, <1>2, <1>3
  <2>3. CASE i = Len(c) + 2
    BY <2>3, <1>2, <1>3
  <2> QED
    BY <2>1, <2>2, <2>3, <1>2
<1> QED
  BY <1>4, <1>5 DEF WellFormed, a, b, d, ids

-------------------------------------------------------------------------------
(* Compression.                                                              *)

\* Where the kept part begins: nowhere after the latest prompt or the latest
\* results, and not at a results turn.
LEMMA PreserveFromFacts ==
  ASSUME NEW c \in Seq(Turns), WellFormed(c), NEW from \in PreserveFrom(c)
  PROVE  /\ from \in 1 .. Len(c) + 1
         /\ from <= Len(c) => c[from].role # "tool"
         /\ \A role \in {"user", "tool"} : \A i \in LastOf(Spoken(c, role)) : from <= i
<1>1. Len(c) \in Nat /\ DOMAIN c = 1 .. Len(c)
  OBVIOUS
<1>2. Preserved(c) \subseteq 1 .. Len(c) /\ \A i \in Preserved(c) : c[i].role \in {"user", "assistant"}
  BY <1>1 DEF Preserved, ToolBoundary, Calling, Spoken, LastOf
<1>3. /\ Preserved(c) = {} => from = Len(c) + 1
      /\ Preserved(c) # {} => from \in Preserved(c)
      /\ \A i \in Preserved(c) : from <= i
  BY DEF PreserveFrom
<1>4. from \in 1 .. Len(c) + 1 /\ (from <= Len(c) => c[from].role # "tool")
  BY <1>1, <1>2, <1>3
<1>5. ASSUME NEW i \in LastOf(Spoken(c, "user"))
      PROVE  from <= i
  BY <1>3 DEF Preserved
<1>6. ASSUME NEW t \in LastOf(Spoken(c, "tool"))
      PROVE  from <= t
  <2>1. t \in 1 .. Len(c) /\ t \in Spoken(c, "tool")
    BY <1>1 DEF LastOf, Spoken
  <2>2. /\ c[t].results # {} /\ t > 1 /\ c[t - 1].role = "assistant"
        /\ IdsOf(c[t - 1].calls) = c[t].results
    BY <2>1 DEF WellFormed, ToolTurnsFollowCalls
  <2>3. t - 1 \in 1 .. Len(c) /\ t - 1 < t
    BY <2>1, <2>2, <1>1
  <2>4. t - 1 \in Calling(c)
    <3>1. c[t - 1].calls # {}
      BY <2>2 DEF IdsOf
    <3> QED
      BY <3>1, <2>2, <2>3, <1>1 DEF Calling, Spoken
  <2>5. \A u \in LastOf(Spoken(c, "tool")) : u = t
    BY <1>1, <2>1 DEF LastOf, Spoken
  <2>6. t - 1 \in ToolBoundary(c)
    <3> DEFINE B == {i \in Calling(c) : \E u \in LastOf(Spoken(c, "tool")) : i < u}
    <3>1. t - 1 \in B
      BY <2>3, <2>4
    <3>2. \A j \in B : j <= t - 1
      BY <2>5, <1>1, <2>1 DEF Calling, Spoken
    <3> QED
      BY <3>1, <3>2 DEF ToolBoundary, LastOf
  <2>7. from <= t - 1
    BY <2>6, <1>3 DEF Preserved
  <2> QED
    BY <2>7, <2>1, <1>4, <1>1
<1> QED
  BY <1>4, <1>5, <1>6

\* The compressed conversation, index by index.
LEMMA CompressedFacts ==
  ASSUME NEW c \in Seq(Turns), NEW from \in 2 .. Len(c) + 1
  PROVE  LET d == Compressed(c, from) IN
         /\ d \in Seq(Turns)
         /\ Len(d) = Len(c) - from + 2 /\ DOMAIN d = 1 .. Len(c) - from + 2
         /\ d[1] = Summary
         /\ \A j \in 2 .. Len(d) : d[j] = c[j + from - 2]
<1> DEFINE tail == SubSeq(c, from, Len(c))
<1>1. Summary \in Turns
  BY TurnTypes
<1>2. /\ tail \in Seq(Turns) /\ Len(tail) = Len(c) - from + 1
      /\ \A j \in 1 .. Len(tail) : tail[j] = c[from + j - 1]
  OBVIOUS
<1>3. Compressed(c, from) = <<Summary>> \o tail
  BY DEF Compressed
<1> HIDE DEF tail
<1>4. <<Summary>> \in Seq(Turns) /\ Len(<<Summary>>) = 1 /\ <<Summary>>[1] = Summary
  BY <1>1
<1> DEFINE head == <<Summary>>
           d == head \o tail
<1> HIDE DEF head
<1>5. /\ d \in Seq(Turns) /\ Len(d) = 1 + Len(tail)
      /\ d[1] = Summary
      /\ \A j \in 2 .. 1 + Len(tail) : d[j] = tail[j - 1]
  <2>1. head \in Seq(Turns) /\ Len(head) = 1 /\ head[1] = Summary
    BY <1>4 DEF head
  <2>2. d \in Seq(Turns) /\ Len(d) = 1 + Len(tail) /\ d[1] = Summary /\ Len(tail) \in Nat
    BY <2>1, <1>2, ConcatFacts
  <2>3. \A i \in 1 .. Len(tail) : d[Len(head) + i] = tail[i]
    BY <2>1, <1>2, ConcatFacts
  <2>4. ASSUME NEW j \in 2 .. 1 + Len(tail)
        PROVE  d[j] = tail[j - 1]
    <3>1. j - 1 \in 1 .. Len(tail) /\ Len(head) + (j - 1) = j
      BY <2>1, <2>2
    <3>2. d[Len(head) + (j - 1)] = tail[j - 1]
      BY <3>1, <2>3
    <3> QED
      BY <3>1, <3>2
  <2> QED
    BY <2>2, <2>4
<1>6. DOMAIN d = 1 .. Len(d)
  BY <1>5
<1>7. ASSUME NEW j \in 2 .. Len(d)
      PROVE  d[j] = c[j + from - 2]
  <2>1. d[j] = tail[j - 1] /\ j - 1 \in 1 .. Len(tail)
    BY <1>5, <1>2
  <2>2. tail[j - 1] = c[from + (j - 1) - 1]
    BY <2>1, <1>2
  <2> QED
    BY <2>1, <2>2
<1> QED
  BY <1>2, <1>3, <1>5, <1>6, <1>7 DEF head

\* Compression keeps a conversation well formed, and its latest prompt and results.
LEMMA CompressedKeeps ==
  ASSUME NEW c \in Seq(Turns), WellFormed(c), NEW from \in PreserveFrom(c)
  PROVE  /\ Compressed(c, from) \in Seq(Turns)
         /\ WellFormed(Compressed(c, from))
         /\ \A role \in {"user", "tool"} : Latest(Compressed(c, from), role) = Latest(c, role)
<1>1. CASE from = 1
  BY <1>1 DEF Compressed
<1>2. CASE from # 1
  <2> DEFINE d == Compressed(c, from)
             at(j) == j + from - 2
  <2>1. from \in 2 .. Len(c) + 1 /\ Len(c) \in Nat /\ DOMAIN c = 1 .. Len(c)
    BY <1>2, PreserveFromFacts
  <2>2. /\ d \in Seq(Turns)
        /\ Len(d) = Len(c) - from + 2 /\ DOMAIN d = 1 .. Len(d)
        /\ d[1] = Summary
        /\ \A j \in 2 .. Len(d) : d[j] = c[at(j)]
    BY <2>1, CompressedFacts
  <2>3. Summary.role = "assistant" /\ Summary.calls = {}
    BY TurnFacts DEF Summary
  <2> HIDE DEF d
  <2>3a. /\ Len(d) \in Nat
        /\ \A j \in DOMAIN d : j = 1 \/ j \in 2 .. Len(d)
    <3>1. Len(d) \in Nat /\ DOMAIN d = 1 .. Len(d)
      BY <2>1, <2>2
    <3> QED
      BY <3>1
  <2>3b. /\ \A j \in DOMAIN d : d[j].calls # {} => j \in 2 .. Len(d)
        /\ \A role \in {"user", "tool"} : \A j \in Spoken(d, role) :
             j \in 2 .. Len(d) /\ d[j].role = role
    <3>1. d[1].role = "assistant" /\ d[1].calls = {}
      BY <2>2, <2>3
    <3> QED
      BY <3>1, <2>3a DEF Spoken
  <2>4. \A j \in 2 .. Len(d) : at(j) \in from .. Len(c)
    BY <2>1, <2>2
  <2>5. ToolTurnsFollowCalls(d)
    <3> SUFFICES ASSUME NEW j \in Spoken(d, "tool")
                 PROVE  /\ d[j].results # {}
                        /\ j > 1 /\ d[j - 1].role = "assistant" /\ IdsOf(d[j - 1].calls) = d[j].results
      BY DEF ToolTurnsFollowCalls
    <3>1. j \in 2 .. Len(d) /\ d[j] = c[at(j)] /\ d[j].role = "tool"
      BY <2>2, <2>3b
    <3>2. at(j) \in Spoken(c, "tool")
      BY <3>1, <2>1, <2>4 DEF Spoken
    <3>3. /\ c[at(j)].results # {} /\ at(j) > 1 /\ c[at(j) - 1].role = "assistant"
          /\ IdsOf(c[at(j) - 1].calls) = c[at(j)].results
      BY <3>2 DEF WellFormed, ToolTurnsFollowCalls
    <3>4. at(j) # from
      BY <3>1, <2>1, <2>4, PreserveFromFacts
    <3>5. j - 1 \in 2 .. Len(d) /\ at(j - 1) = at(j) - 1
      BY <3>1, <3>4, <2>1, <2>2
    <3> QED
      BY <3>1, <3>3, <3>5, <2>2
  <2>6. CallsAreAnswered(d)
    <3> SUFFICES ASSUME NEW j \in DOMAIN d, d[j].calls # {}
                 PROVE  j < Len(d) /\ d[j + 1].role = "tool"
      BY DEF CallsAreAnswered
    <3>1. j \in 2 .. Len(d) /\ d[j] = c[at(j)]
      BY <2>3b, <2>2
    <3>2. at(j) < Len(c) /\ c[at(j) + 1].role = "tool"
      BY <3>1, <2>1, <2>4 DEF WellFormed, CallsAreAnswered
    <3>3. j + 1 \in 2 .. Len(d) /\ at(j + 1) = at(j) + 1
      <4>1. Len(d) = Len(c) - from + 2 /\ j \in 2 .. Len(d) /\ j + from - 2 < Len(c)
        BY <3>1, <3>2, <2>2
      <4> QED
        BY <4>1, <2>1
    <3> QED
      BY <3>2, <3>3, <2>2
  <2>7. ASSUME NEW role \in {"user", "tool"}
        PROVE  Latest(d, role) = Latest(c, role)
    <3>1. ASSUME NEW i \in LastOf(Spoken(c, role))
          PROVE  \E j \in LastOf(Spoken(d, role)) : d[j] = c[i]
      <4>1. i \in from .. Len(c) /\ c[i].role = role
        BY <2>1, PreserveFromFacts DEF LastOf, Spoken
      <4> DEFINE j == i - from + 2
      <4>2. j \in 2 .. Len(d) /\ at(j) = i
        BY <4>1, <2>1, <2>2
      <4>3. j \in Spoken(d, role) /\ d[j] = c[i]
        BY <4>1, <4>2, <2>2 DEF Spoken
      <4>4. ASSUME NEW k \in Spoken(d, role)
            PROVE  k <= j
        <5>1. k \in 2 .. Len(d) /\ d[k] = c[at(k)] /\ d[k].role = role
          BY <2>3b, <2>2
        <5>2. at(k) \in Spoken(c, role)
          BY <5>1, <2>1, <2>4 DEF Spoken
        <5>3. at(k) <= i
          BY <5>2 DEF LastOf
        <5> QED
          BY <5>1, <5>3, <4>1, <2>1
      <4> QED
        BY <4>3, <4>4 DEF LastOf
    <3>2. ASSUME NEW j \in LastOf(Spoken(d, role))
          PROVE  \E i \in LastOf(Spoken(c, role)) : c[i] = d[j]
      <4>1. j \in 2 .. Len(d) /\ d[j] = c[at(j)] /\ d[j].role = role
        BY <2>3b, <2>2 DEF LastOf
      <4>2. at(j) \in Spoken(c, role)
        BY <4>1, <2>1, <2>4 DEF Spoken
      <4>3. ASSUME NEW k \in Spoken(c, role)
            PROVE  k <= at(j)
        <5>0. k \in 1 .. Len(c) /\ c[k].role = role
          BY <2>1 DEF Spoken
        <5>1. CASE k < from
          BY <5>0, <5>1, <4>1, <2>1, <2>4
        <5>2. CASE k >= from
          <6> DEFINE l == k - from + 2
          <6>1. l \in 2 .. Len(d) /\ at(l) = k
            BY <5>0, <5>2, <2>1, <2>2
          <6>2. l \in Spoken(d, role)
            BY <6>1, <5>0, <2>2 DEF Spoken
          <6>3. l <= j
            BY <6>2 DEF LastOf
          <6> QED
            BY <6>1, <6>3, <4>1, <2>1
        <5> QED
          BY <5>0, <5>1, <5>2, <2>1
      <4> QED
        BY <4>1, <4>2, <4>3 DEF LastOf
    <3> QED
      BY <3>1, <3>2 DEF Latest
  <2> QED
    BY <2>2, <2>5, <2>6, <2>7 DEF WellFormed, d
<1> QED
  BY <1>1, <1>2

-------------------------------------------------------------------------------
(* A loop.                                                                   *)

\* c is what is left, after compressions, of the conversation that began with prior
\* and went on with said.
Matches(prior, said, c) ==
  /\ said # <<>>
  /\ WellFormed(c) /\ WellFormed(prior \o said)
  /\ \A role \in {"user", "tool"} : Latest(c, role) = Latest(prior \o said, role)

\* Turns as they are stored: calls with the arguments of their events.
StoredCalls(calls) == {StoredCall(call) : call \in calls}
StoredForm(c) == [i \in DOMAIN c |-> StoredTurn(c[i])]

\* Between two steps everything said is rebuilt.
Settled(f) ==
  /\ Matches(f.prior, f.said, f.conv)
  /\ f.built = Built(StoredForm(f.said), <<>>, {}, {})

\* While the calls of a response run: begun of them are in the events, and ran
\* of the results.
First(calls, n) == {calls[k] : k \in 1 .. n}
Answering(f, s, c, text, begun) ==
  LET turn == AssistantTurn(text, TagSet(f.calls)) IN
  /\ Matches(f.prior, s, c)
  /\ f.said = Append(s, turn) /\ f.conv = Append(c, turn)
  /\ f.built = Built(StoredForm(s), <<AssistantTurn(text, {})>>,
                     StoredCalls(First(f.calls, begun)), IdsOf(First(f.calls, f.ran)))

Busy(f, begun) ==
  /\ begun <= Len(f.calls)
  /\ \E s \in Seq(Turns), c \in Seq(Turns), text \in Texts : Answering(f, s, c, text, begun)

FrameOK(f) ==
  /\ f \in Frames
  /\ WellFormed(f.prior)
  /\ f.at \in {"budget", "ask", "done"} => Settled(f)
  /\ f.at = "tools" => Busy(f, f.ran)
  /\ f.at = "waiting" => Busy(f, f.ran + 1)

LEMMA StoredFormFacts ==
  /\ \A call \in ToolCalls : StoredCall(call) \in ToolCalls /\ StoredCall(call).id = call.id
  /\ \A calls \in SUBSET ToolCalls :
       /\ StoredCalls(calls) \in SUBSET ToolCalls
       /\ StoredCalls(calls) = {} <=> calls = {}
       /\ IdsOf(StoredCalls(calls)) = IdsOf(calls)
       /\ \A call : StoredCalls(calls \cup {call}) = StoredCalls(calls) \cup {StoredCall(call)}
  /\ \A t \in Turns :
       /\ StoredTurn(t) \in Turns /\ StoredTurn(t).role = t.role
       /\ StoredTurn(t).results = t.results /\ StoredTurn(t).calls = StoredCalls(t.calls)
<1>1. ASSUME NEW call \in ToolCalls
      PROVE  StoredCall(call) \in ToolCalls /\ StoredCall(call).id = call.id
  <2>1. call.id \in CallIds /\ call.arguments \in Arguments
    BY DEF ToolCalls
  <2>2. Parsed(call.arguments) \in Arguments
    BY <2>1 DEF Parsed, Arguments
  <2> QED
    BY <2>1, <2>2 DEF StoredCall, ToolCall, ToolCalls
<1>2. ASSUME NEW calls \in SUBSET ToolCalls
      PROVE  /\ StoredCalls(calls) \in SUBSET ToolCalls
             /\ StoredCalls(calls) = {} <=> calls = {}
             /\ IdsOf(StoredCalls(calls)) = IdsOf(calls)
             /\ \A call : StoredCalls(calls \cup {call}) = StoredCalls(calls) \cup {StoredCall(call)}
  BY <1>1 DEF StoredCalls, IdsOf
<1>3. ASSUME NEW t \in Turns
      PROVE  /\ StoredTurn(t) \in Turns /\ StoredTurn(t).role = t.role
             /\ StoredTurn(t).results = t.results /\ StoredTurn(t).calls = StoredCalls(t.calls)
  <2> DEFINE calls == StoredCalls(t.calls)
  <2>1. calls \in SUBSET ToolCalls
    BY <1>2 DEF Turns
  <2>2. StoredTurn(t) = [t EXCEPT !.calls = calls]
    BY DEF StoredTurn, StoredCalls
  <2> HIDE DEF calls
  <2>3. /\ StoredTurn(t) \in Turns /\ StoredTurn(t).role = t.role
        /\ StoredTurn(t).results = t.results /\ StoredTurn(t).calls = calls
    BY <2>1, <2>2 DEF Turns
  <2> QED
    BY <2>3 DEF calls
<1> QED
  BY <1>1, <1>2, <1>3

\* The turns run_loop and the adapter make, as they are stored.
LEMMA StoredTurnFacts ==
  /\ \A text \in Texts : StoredTurn(UserTurn(text)) = UserTurn(text)
  /\ \A text \in Texts, calls \in SUBSET ToolCalls :
       StoredTurn(AssistantTurn(text, calls)) = AssistantTurn(text, StoredCalls(calls))
  /\ \A results \in SUBSET CallIds : StoredTurn(ToolTurn(results)) = ToolTurn(results)
<1>1. StoredCalls({}) = {}
  BY DEF StoredCalls
<1>2. ASSUME NEW role, NEW text, NEW calls, NEW results
      PROVE  StoredTurn(Turn(role, text, calls, results))
               = Turn(role, text, StoredCalls(calls), results)
  BY DEF StoredTurn, StoredCalls, Turn
<1> QED
  BY <1>1, <1>2 DEF UserTurn, AssistantTurn, ToolTurn

LEMMA StoredFormSeq ==
  ASSUME NEW c \in Seq(Turns)
  PROVE  /\ StoredForm(c) \in Seq(Turns) /\ Len(StoredForm(c)) = Len(c)
         /\ DOMAIN StoredForm(c) = 1 .. Len(c) /\ DOMAIN c = 1 .. Len(c) /\ Len(c) \in Nat
         /\ \A i \in 1 .. Len(c) : StoredForm(c)[i] = StoredTurn(c[i])
<1>1. Len(c) \in Nat /\ DOMAIN c = 1 .. Len(c) /\ \A i \in 1 .. Len(c) : c[i] \in Turns
  OBVIOUS
<1>2. \A i \in 1 .. Len(c) : StoredTurn(c[i]) \in Turns
  BY <1>1, StoredFormFacts
<1> QED
  BY <1>1, <1>2 DEF StoredForm

LEMMA StoredFormAppend ==
  ASSUME NEW c \in Seq(Turns), NEW t \in Turns
  PROVE  StoredForm(Append(c, t)) = Append(StoredForm(c), StoredTurn(t))
<1> DEFINE d == Append(c, t)
           x == StoredForm(d)
           y == Append(StoredForm(c), StoredTurn(t))
<1>1. /\ d \in Seq(Turns) /\ Len(d) = Len(c) + 1 /\ Len(c) \in Nat
      /\ \A i \in 1 .. Len(c) : d[i] = c[i]
      /\ d[Len(c) + 1] = t
  BY AppendFacts
<1> HIDE DEF d
<1>2. /\ x \in Seq(Turns) /\ Len(x) = Len(c) + 1
      /\ \A i \in 1 .. Len(c) + 1 : x[i] = StoredTurn(d[i])
  BY <1>1, StoredFormSeq
<1>3. /\ StoredForm(c) \in Seq(Turns) /\ Len(StoredForm(c)) = Len(c)
      /\ StoredTurn(t) \in Turns
      /\ \A i \in 1 .. Len(c) : StoredForm(c)[i] = StoredTurn(c[i])
  BY StoredFormSeq, StoredFormFacts
<1>4. /\ y \in Seq(Turns) /\ Len(y) = Len(c) + 1
      /\ \A i \in 1 .. Len(c) : y[i] = StoredForm(c)[i]
      /\ y[Len(c) + 1] = StoredTurn(t)
  BY <1>3, AppendFacts
<1> HIDE DEF x, y
<1>5. \A i \in 1 .. Len(c) + 1 : x[i] = y[i]
  BY <1>1, <1>2, <1>3, <1>4
<1>6. x = y
  BY <1>1, <1>2, <1>4, <1>5
<1> QED
  BY <1>6 DEF x, y, d

\* The stored turns of a loop follow those of its session as well as its own do.
LEMMA StoredWellFormed ==
  ASSUME NEW prior \in Seq(Turns), NEW s \in Seq(Turns), WellFormed(prior \o s)
  PROVE  prior \o StoredForm(s) \in Seq(Turns) /\ WellFormed(prior \o StoredForm(s))
<1> DEFINE c == prior \o s
           d == prior \o StoredForm(s)
           n == Len(prior)
<1>1. /\ c \in Seq(Turns) /\ Len(c) = n + Len(s) /\ DOMAIN c = 1 .. n + Len(s)
      /\ \A i \in 1 .. n : c[i] = prior[i]
      /\ \A i \in 1 .. Len(s) : c[n + i] = s[i]
      /\ n \in Nat /\ Len(s) \in Nat
  BY ConcatFacts
<1>2. /\ StoredForm(s) \in Seq(Turns) /\ Len(StoredForm(s)) = Len(s)
      /\ \A i \in 1 .. Len(s) : StoredForm(s)[i] = StoredTurn(s[i]) /\ s[i] \in Turns
  BY StoredFormSeq
<1>3. /\ d \in Seq(Turns) /\ Len(d) = n + Len(s) /\ DOMAIN d = 1 .. n + Len(s)
      /\ \A i \in 1 .. n : d[i] = prior[i]
      /\ \A i \in 1 .. Len(s) : d[n + i] = StoredForm(s)[i]
  <2> DEFINE x == StoredForm(s)
  <2>1. x \in Seq(Turns) /\ Len(x) = Len(s)
    BY <1>2
  <2> HIDE DEF x
  <2>2. /\ prior \o x \in Seq(Turns) /\ Len(prior \o x) = n + Len(s)
        /\ DOMAIN (prior \o x) = 1 .. n + Len(s)
        /\ \A i \in 1 .. n : (prior \o x)[i] = prior[i]
        /\ \A i \in 1 .. Len(s) : (prior \o x)[n + i] = x[i]
    <3>1. /\ prior \o x \in Seq(Turns) /\ Len(prior \o x) = n + Len(x)
          /\ DOMAIN (prior \o x) = 1 .. n + Len(x)
          /\ \A i \in 1 .. n : (prior \o x)[i] = prior[i]
          /\ \A i \in 1 .. Len(x) : (prior \o x)[n + i] = x[i]
      BY <2>1, ConcatFacts
    <3> QED
      BY <3>1, <2>1
  <2> QED
    BY <2>2 DEF x
<1> HIDE DEF c, d, n
<1>4. ASSUME NEW i \in 1 .. n + Len(s)
      PROVE  /\ d[i].role = c[i].role /\ d[i].results = c[i].results
             /\ IdsOf(d[i].calls) = IdsOf(c[i].calls)
             /\ d[i].calls = {} <=> c[i].calls = {}
  <2>1. CASE i <= n
    BY <2>1, <1>1, <1>3
  <2>2. CASE i > n
    <3> DEFINE k == i - n
    <3>1. k \in 1 .. Len(s) /\ i = n + k
      BY <2>2, <1>1
    <3>2. d[i] = StoredTurn(s[k]) /\ c[i] = s[k] /\ s[k] \in Turns
      BY <3>1, <1>1, <1>2, <1>3
    <3>3. s[k].calls \in SUBSET ToolCalls
      BY <3>2 DEF Turns
    <3> QED
      BY <3>2, <3>3, StoredFormFacts
  <2> QED
    BY <2>1, <2>2, <1>1
<1>5. ToolTurnsFollowCalls(c) /\ CallsAreAnswered(c)
  BY DEF WellFormed, c
<1>6. ToolTurnsFollowCalls(d)
  <2> SUFFICES ASSUME NEW i \in Spoken(d, "tool")
               PROVE  /\ d[i].results # {}
                      /\ i > 1 /\ d[i - 1].role = "assistant" /\ IdsOf(d[i - 1].calls) = d[i].results
    BY DEF ToolTurnsFollowCalls
  <2>1. i \in 1 .. n + Len(s) /\ i \in Spoken(c, "tool")
    BY <1>1, <1>3, <1>4 DEF Spoken
  <2>2. /\ c[i].results # {} /\ i > 1 /\ c[i - 1].role = "assistant"
        /\ IdsOf(c[i - 1].calls) = c[i].results
    BY <2>1, <1>5 DEF ToolTurnsFollowCalls
  <2>3. i - 1 \in 1 .. n + Len(s)
    BY <2>1, <2>2, <1>1
  <2> QED
    BY <2>1, <2>2, <2>3, <1>4
<1>7. CallsAreAnswered(d)
  <2> SUFFICES ASSUME NEW i \in DOMAIN d, d[i].calls # {}
               PROVE  i < Len(d) /\ d[i + 1].role = "tool"
    BY DEF CallsAreAnswered
  <2>1. i \in DOMAIN c /\ c[i].calls # {}
    BY <1>1, <1>3, <1>4
  <2>2. i < Len(c) /\ c[i + 1].role = "tool"
    BY <2>1, <1>5 DEF CallsAreAnswered
  <2>3. i + 1 \in 1 .. n + Len(s)
    BY <2>1, <2>2, <1>1
  <2> QED
    BY <2>2, <2>3, <1>1, <1>3, <1>4
<1> QED
  BY <1>3, <1>6, <1>7 DEF WellFormed, d

LEMMA ConcatAppend ==
  ASSUME NEW s \in Seq(Turns), NEW c \in Seq(Turns), NEW t \in Turns
  PROVE  s \o Append(c, t) = Append(s \o c, t)
OBVIOUS

LEMMA LatestBoth ==
  ASSUME NEW c \in Seq(Turns), NEW d \in Seq(Turns), NEW t \in Turns, NEW role,
         Latest(c, role) = Latest(d, role)
  PROVE  Latest(Append(c, t), role) = Latest(Append(d, t), role)
<1>1. Latest(Append(c, t), role) = IF t.role = role THEN {t} ELSE Latest(c, role)
  BY LatestAppend
<1>2. Latest(Append(d, t), role) = IF t.role = role THEN {t} ELSE Latest(d, role)
  BY LatestAppend
<1> QED
  BY <1>1, <1>2

\* The same turn at the end of both.
LEMMA MatchesAppend ==
  ASSUME NEW prior \in Seq(Turns), NEW s \in Seq(Turns), NEW c \in Seq(Turns), NEW t \in Turns,
         Matches(prior, s, c), t.role # "tool", t.calls = {}
  PROVE  Matches(prior, Append(s, t), Append(c, t))
<1>1. prior \o s \in Seq(Turns) /\ prior \o Append(s, t) = Append(prior \o s, t)
  BY ConcatFacts, ConcatAppend
<1>2. WellFormed(Append(c, t)) /\ WellFormed(Append(prior \o s, t))
  BY <1>1, AppendPlain DEF Matches
<1>3. ASSUME NEW role \in {"user", "tool"}
      PROVE  Latest(Append(c, t), role) = Latest(Append(prior \o s, t), role)
  <2> DEFINE d == prior \o s
  <2>1. Latest(c, role) = Latest(d, role) /\ d \in Seq(Turns)
    BY <1>1 DEF Matches
  <2> HIDE DEF d
  <2>2. Latest(Append(c, t), role) = Latest(Append(d, t), role)
    BY <2>1, LatestBoth
  <2> QED
    BY <2>2 DEF d
<1>4. Append(s, t) # <<>>
  BY AppendFacts
<1> QED
  BY <1>1, <1>2, <1>3, <1>4 DEF Matches

\* The same calls and results at the end of both.
LEMMA MatchesAppendCalls ==
  ASSUME NEW prior \in Seq(Turns), NEW s \in Seq(Turns), NEW c \in Seq(Turns),
         NEW text \in Texts, NEW calls \in SUBSET ToolCalls, calls # {},
         Matches(prior, s, c)
  PROVE  Matches(prior, Append(Append(s, AssistantTurn(text, calls)), ToolTurn(IdsOf(calls))),
                        Append(Append(c, AssistantTurn(text, calls)), ToolTurn(IdsOf(calls))))
<1> DEFINE a == AssistantTurn(text, calls)
           t == ToolTurn(IdsOf(calls))
           d == prior \o s
<1>1. a \in Turns /\ t \in Turns
  BY IdFacts, TurnTypes
<1> HIDE DEF a, t
<1>2. /\ d \in Seq(Turns) /\ Append(s, a) \in Seq(Turns)
      /\ Append(c, a) \in Seq(Turns) /\ Append(d, a) \in Seq(Turns)
  BY <1>1, ConcatFacts, AppendFacts
<1>3. prior \o Append(Append(s, a), t) = Append(Append(d, a), t)
  <2>1. prior \o Append(s, a) = Append(d, a)
    BY <1>1, ConcatAppend
  <2>2. prior \o Append(Append(s, a), t) = Append(prior \o Append(s, a), t)
    BY <1>1, <1>2, ConcatAppend
  <2> QED
    BY <2>1, <2>2
<1>4. WellFormed(Append(Append(c, a), t)) /\ WellFormed(Append(Append(d, a), t))
  BY <1>2, AppendCalls DEF Matches, a, t
<1>5. ASSUME NEW role \in {"user", "tool"}
      PROVE  Latest(Append(Append(c, a), t), role) = Latest(Append(Append(d, a), t), role)
  <2>1. Latest(c, role) = Latest(d, role)
    BY DEF Matches
  <2> HIDE DEF d
  <2>2. Latest(Append(c, a), role) = Latest(Append(d, a), role)
    BY <2>1, <1>1, <1>2, LatestBoth
  <2> DEFINE x == Append(c, a)
             y == Append(d, a)
  <2>3. x \in Seq(Turns) /\ y \in Seq(Turns) /\ Latest(x, role) = Latest(y, role)
    BY <2>2, <1>2
  <2> HIDE DEF x, y
  <2>4. Latest(Append(x, t), role) = Latest(Append(y, t), role)
    BY <2>3, <1>1, LatestBoth
  <2> QED
    BY <2>4 DEF x, y
<1>6. Append(Append(s, a), t) # <<>>
  BY <1>1, <1>2, AppendFacts
<1> QED
  BY <1>3, <1>4, <1>5, <1>6 DEF Matches, a, t

LEMMA LoopOK ==
  ASSUME NEW prior \in Seq(Turns), WellFormed(prior), NEW prompt \in Texts,
         NEW max \in Nat, NEW left \in 0 .. MaxDepth
  PROVE  FrameOK(Loop(prior, prompt, max, left))
<1> DEFINE f == Loop(prior, prompt, max, left)
           u == UserTurn(prompt)
<1>1. u \in Turns /\ u.role = "user" /\ u.calls = {}
  BY TurnTypes, TurnFacts
<1> HIDE DEF u
<1>2. /\ <<u>> \in Seq(Turns) /\ <<u>> # <<>> /\ Append(prior, u) \in Seq(Turns)
      /\ prior \o <<u>> = Append(prior, u)
  BY <1>1
<1>3. WellFormed(Append(prior, u))
  BY <1>1, AppendPlain
<1>3a. StoredForm(<<u>>) = <<u>>
  <2>1. StoredTurn(u) = u
    BY StoredTurnFacts DEF u
  <2> QED
    BY <2>1 DEF StoredForm
<1>4. /\ f.at = IF max = 0 THEN "done" ELSE "budget"
      /\ f.conv = Append(prior, u) /\ f.prior = prior /\ f.said = <<u>>
      /\ f.built = Built(StoredForm(<<u>>), <<>>, {}, {})
  BY <1>3a DEF Loop, Rebuilt, u, Built
<1>5. Settled(f)
  BY <1>2, <1>3, <1>4 DEF Settled, Matches
<1>6. f \in Frames
  <2>1. Built(<<u>>, <<>>, {}, {}) \in Building
    BY <1>2 DEF Building, Built
  <2> QED
    BY <2>1, <1>2 DEF Loop, Frames, Rebuilt, u, Built
<1> QED
  BY <1>4, <1>5, <1>6 DEF FrameOK

LEMMA BudgetSteps ==
  ASSUME NEW f, FrameOK(f), f.at = "budget"
  PROVE  /\ FrameOK([f EXCEPT !.at = "ask"])
         /\ \A from \in PreserveFrom(f.conv) :
              FrameOK([f EXCEPT !.at = "ask", !.conv = Compressed(@, from)])
<1>1. f \in Frames /\ WellFormed(f.prior) /\ Settled(f)
  BY DEF FrameOK
<1>2. f.conv \in Seq(Turns) /\ f.prior \in Seq(Turns) /\ f.said \in Seq(Turns)
  BY <1>1 DEF Frames
<1>3. FrameOK([f EXCEPT !.at = "ask"])
  <2> DEFINE g == [f EXCEPT !.at = "ask"]
  <2>1. /\ g \in Frames /\ g.at = "ask" /\ g.prior = f.prior /\ g.said = f.said
        /\ g.conv = f.conv /\ g.built = f.built
    BY <1>1 DEF Frames
  <2> HIDE DEF g
  <2>2. Settled(g)
    BY <1>1, <2>1 DEF Settled
  <2> QED
    BY <1>1, <2>1, <2>2 DEF FrameOK, g
<1>4. ASSUME NEW from \in PreserveFrom(f.conv)
      PROVE  FrameOK([f EXCEPT !.at = "ask", !.conv = Compressed(@, from)])
  <2> DEFINE c == Compressed(f.conv, from)
             g == [f EXCEPT !.at = "ask", !.conv = c]
  <2>1. /\ c \in Seq(Turns) /\ WellFormed(c)
        /\ \A role \in {"user", "tool"} : Latest(c, role) = Latest(f.conv, role)
    BY <1>1, <1>2, CompressedKeeps DEF Settled, Matches
  <2> HIDE DEF c
  <2>2. /\ g \in Frames /\ g.at = "ask" /\ g.prior = f.prior /\ g.said = f.said
        /\ g.conv = c /\ g.built = f.built
    BY <1>1, <2>1 DEF Frames
  <2> HIDE DEF g
  <2>3. Settled(g)
    BY <1>1, <2>1, <2>2 DEF Settled, Matches
  <2>4. FrameOK(g)
    BY <1>1, <2>2, <2>3 DEF FrameOK
  <2> QED
    BY <2>4 DEF g, c
<1> QED
  BY <1>3, <1>4

LEMMA FailStep ==
  ASSUME NEW f, FrameOK(f)
  PROVE  FrameOK([f EXCEPT !.at = "error"])
<1> DEFINE g == [f EXCEPT !.at = "error"]
<1>1. f \in Frames /\ WellFormed(f.prior)
  BY DEF FrameOK
<1>2. g \in Frames /\ g.at = "error" /\ g.prior = f.prior
  BY <1>1 DEF Frames
<1> HIDE DEF g
<1>3. FrameOK(g)
  BY <1>1, <1>2 DEF FrameOK
<1> QED
  BY <1>3 DEF g

LEMMA CallFacts ==
  ASSUME NEW calls \in Seq(ToolCalls)
  PROVE  /\ Len(calls) \in Nat
         /\ First(calls, 0) = {} /\ First(calls, Len(calls)) = TagSet(calls)
         /\ TagSet(calls) \in SUBSET ToolCalls
         /\ TagSet(calls) = {} <=> calls = <<>>
         /\ \A n \in 0 .. Len(calls) : First(calls, n) \in SUBSET ToolCalls
         /\ \A n \in 0 .. Len(calls) - 1 :
              First(calls, n) \cup {calls[n + 1]} = First(calls, n + 1)
<1>1. Len(calls) \in Nat /\ DOMAIN calls = 1 .. Len(calls)
  OBVIOUS
<1>2. \A k \in 1 .. Len(calls) : calls[k] \in ToolCalls
  OBVIOUS
<1>3. First(calls, 0) = {} /\ First(calls, Len(calls)) = TagSet(calls)
  BY <1>1 DEF First, TagSet
<1>4. TagSet(calls) \in SUBSET ToolCalls
  BY <1>1, <1>2 DEF TagSet
<1>5. TagSet(calls) = {} <=> calls = <<>>
  <2>1. CASE calls = <<>>
    BY <2>1 DEF TagSet
  <2>2. CASE calls # <<>>
    <3>1. 1 \in 1 .. Len(calls)
      BY <2>2, <1>1
    <3> QED
      BY <2>2, <3>1, <1>1 DEF TagSet
  <2> QED
    BY <2>1, <2>2
<1>6. \A n \in 0 .. Len(calls) : First(calls, n) \in SUBSET ToolCalls
  BY <1>1, <1>2 DEF First
<1>7. ASSUME NEW n \in 0 .. Len(calls) - 1
      PROVE  First(calls, n) \cup {calls[n + 1]} = First(calls, n + 1)
  <2>1. 1 .. n + 1 = (1 .. n) \cup {n + 1}
    BY <1>1
  <2> QED
    BY <2>1 DEF First
<1> QED
  BY <1>1, <1>3, <1>4, <1>5, <1>6, <1>7

Answered(frame, r, n, forms, stop) ==
  [AddTurn(frame, AssistantTurn(<<r, frame.step + 1>>, TagSet(CallTags(r, forms, frame.step))))
     EXCEPT !.at = "tools", !.calls = CallTags(r, forms, frame.step), !.ran = 0,
            !.stop = stop /\ n = 0, !.built = OnTextFinal(@, <<r, frame.step + 1>>)]

LEMMA BuiltFacts ==
  ASSUME NEW s, NEW open, NEW calls, NEW results
  PROVE  /\ Built(s, open, calls, results).turns = s
         /\ Built(s, open, calls, results).open = open
         /\ Built(s, open, calls, results).calls = calls
         /\ Built(s, open, calls, results).results = results
BY DEF Built

LEMMA RebuiltText ==
  ASSUME NEW s, NEW text
  PROVE  OnTextFinal(Built(s, <<>>, {}, {}), text)
           = Built(s, <<AssistantTurn(text, {})>>, {}, {})
<1> DEFINE b == Built(s, <<>>, {}, {})
<1>1. b.results = {} /\ b.turns = s
  BY BuiltFacts
<1> HIDE DEF b
<1>2. FlushResults(b) = b
  BY <1>1 DEF FlushResults
<1>3. OnTextFinal(b, text) = Built(s, <<AssistantTurn(text, {})>>, {}, {})
  BY <1>1, <1>2 DEF OnTextFinal
<1> QED
  BY <1>3 DEF b

LEMMA RespondStep ==
  ASSUME NEW f, FrameOK(f), f.at = "ask",
         NEW r \in Runs, NEW n \in Nat, NEW forms \in [1 .. n -> Forms], NEW stop \in BOOLEAN
  PROVE  FrameOK(Answered(f, r, n, forms, stop))
<1> DEFINE calls == CallTags(r, forms, f.step)
           text == <<r, f.step + 1>>
           turn == AssistantTurn(text, TagSet(calls))
           halt == stop /\ n = 0
           stored == StoredForm(f.said)
           built == Built(stored, <<AssistantTurn(text, {})>>, {}, {})
           g == [f EXCEPT !.conv = Append(@, turn), !.said = Append(@, turn), !.at = "tools",
                          !.calls = calls, !.ran = 0, !.stop = halt, !.built = built]
<1>1. f \in Frames /\ WellFormed(f.prior) /\ Settled(f)
  BY DEF FrameOK
<1>2. /\ f.conv \in Seq(Turns) /\ f.prior \in Seq(Turns) /\ f.said \in Seq(Turns)
      /\ f.step \in Nat
  BY <1>1 DEF Frames
<1>3. /\ Matches(f.prior, f.said, f.conv)
      /\ f.built = Built(stored, <<>>, {}, {})
  BY <1>1 DEF Settled
<1>4. text \in Texts /\ calls \in Seq(ToolCalls) /\ halt \in BOOLEAN
  <2>1. r \in Ids /\ f.step + 1 \in Nat
    BY <1>2 DEF Ids
  <2>2. \A k \in 1 .. n : ToolCall(<<r, f.step + 1, k>>, forms[k]) \in ToolCalls
    BY <2>1, BoundsAssumption DEF CallIds, ToolCall, ToolCalls
  <2> QED
    BY <2>1, <2>2 DEF Texts, CallTags
<1>5. OnTextFinal(f.built, text) = built
  BY <1>3, RebuiltText
<1>6. Answered(f, r, n, forms, stop) = g
  BY <1>1, <1>5 DEF Answered, AddTurn, Frames
<1> HIDE DEF text, calls, halt, stored
<1>6a. stored \in Seq(Turns)
  BY <1>2, StoredFormSeq DEF stored
<1>7. /\ turn \in Turns /\ AssistantTurn(text, {}) \in Turns
      /\ Append(f.conv, turn) \in Seq(Turns) /\ Append(f.said, turn) \in Seq(Turns)
  <2>1. TagSet(calls) \in SUBSET ToolCalls /\ {} \in SUBSET ToolCalls
    BY <1>4, CallFacts
  <2>2. turn \in Turns /\ AssistantTurn(text, {}) \in Turns
    BY <2>1, <1>4, TurnTypes
  <2> QED
    BY <2>2, <1>2, AppendFacts
<1>8. built \in Building
  BY <1>7, <1>6a DEF Building, Built
<1>9. built = Built(stored, <<AssistantTurn(text, {})>>,
                    StoredCalls(First(calls, 0)), IdsOf(First(calls, 0)))
  <2>1. StoredCalls(First(calls, 0)) = {} /\ IdsOf(First(calls, 0)) = {}
    BY <1>4, CallFacts DEF StoredCalls, IdsOf
  <2> QED
    BY <2>1
<1>10. turn = AssistantTurn(text, TagSet(calls))
  OBVIOUS
<1> HIDE DEF turn, built
<1>11. /\ g \in Frames /\ g.at = "tools" /\ g.prior = f.prior
       /\ g.conv = Append(f.conv, turn) /\ g.said = Append(f.said, turn)
       /\ g.calls = calls /\ g.ran = 0 /\ g.built = built
  BY <1>1, <1>4, <1>7, <1>8 DEF Frames
<1> HIDE DEF g
<1>12. Answering(g, f.said, f.conv, text, 0)
  BY <1>3, <1>9, <1>10, <1>11 DEF Answering, stored
<1>13. Busy(g, g.ran)
  BY <1>12, <1>11, <1>2, <1>4 DEF Busy
<1>14. FrameOK(g)
  BY <1>13, <1>11, <1>1 DEF FrameOK
<1> QED
  BY <1>14, <1>6

\* The next call, and the next result, of a rebuilt turn.
LEMMA RebuiltCall ==
  ASSUME NEW s, NEW open, NEW calls, NEW results, NEW call
  PROVE  OnToolUse(Built(s, open, calls, results), call)
           = Built(s, open, calls \cup {StoredCall(call)}, results)
<1> DEFINE b == Built(s, open, calls, results)
<1>1. b.turns = s /\ b.open = open /\ b.calls = calls /\ b.results = results
  BY BuiltFacts
<1> HIDE DEF b
<1>2. OnToolUse(b, call) = Built(s, open, calls \cup {StoredCall(call)}, results)
  BY <1>1 DEF OnToolUse
<1> QED
  BY <1>2 DEF b

LEMMA RebuiltResult ==
  ASSUME NEW s, NEW open, NEW calls, NEW results, NEW call
  PROVE  OnToolResult(Built(s, open, calls, results), call)
           = Built(s, open, calls, results \cup {call.id})
<1> DEFINE b == Built(s, open, calls, results)
<1>1. b.turns = s /\ b.open = open /\ b.calls = calls /\ b.results = results
  BY BuiltFacts
<1> HIDE DEF b
<1>2. OnToolResult(b, call) = Built(s, open, calls, results \cup {call.id})
  BY <1>1 DEF OnToolResult
<1> QED
  BY <1>2 DEF b

\* A call begins, and is done at once or waits for a sub-agent.
LEMMA CallBegins ==
  ASSUME NEW f, FrameOK(f), f.at = "tools", f.ran < Len(f.calls)
  PROVE  FrameOK([ToolBegins(f) EXCEPT !.at = "waiting"])
<1> DEFINE built == OnToolUse(f.built, f.calls[f.ran + 1])
           g == [f EXCEPT !.built = built, !.at = "waiting"]
<1>1. f \in Frames /\ WellFormed(f.prior) /\ Busy(f, f.ran)
  BY DEF FrameOK
<1>2. f.calls \in Seq(ToolCalls) /\ f.ran \in Nat /\ f.built \in Building
  BY <1>1 DEF Frames
<1>3. PICK s \in Seq(Turns), c \in Seq(Turns), text \in Texts :
         Answering(f, s, c, text, f.ran)
  BY <1>1 DEF Busy
<1>4. f.ran \in 0 .. Len(f.calls) - 1 /\ Len(f.calls) \in Nat
  BY <1>2
<1>5. f.built = Built(StoredForm(s), <<AssistantTurn(text, {})>>,
                      StoredCalls(First(f.calls, f.ran)), IdsOf(First(f.calls, f.ran)))
  BY <1>3 DEF Answering
<1>6. built = Built(StoredForm(s), <<AssistantTurn(text, {})>>,
                    StoredCalls(First(f.calls, f.ran + 1)), IdsOf(First(f.calls, f.ran)))
  <2> DEFINE o == <<AssistantTurn(text, {})>>
             had == First(f.calls, f.ran)
             k == f.calls[f.ran + 1]
             bb == f.built
  <2>1. had \cup {k} = First(f.calls, f.ran + 1) /\ had \in SUBSET ToolCalls
    BY <1>2, <1>4, CallFacts
  <2>2. bb = Built(StoredForm(s), o, StoredCalls(had), IdsOf(had))
    BY <1>5
  <2> HIDE DEF o, had, k, bb
  <2>3. OnToolUse(bb, k) = Built(StoredForm(s), o, StoredCalls(had) \cup {StoredCall(k)}, IdsOf(had))
    BY <2>2, RebuiltCall
  <2>4. StoredCalls(had \cup {k}) = StoredCalls(had) \cup {StoredCall(k)}
    BY <2>1, StoredFormFacts
  <2> QED
    BY <2>1, <2>3, <2>4 DEF o, had, k, bb
<1>7. [ToolBegins(f) EXCEPT !.at = "waiting"] = g
  BY DEF ToolBegins, NextCall
<1>8. built \in Building
  <2> DEFINE k == f.calls[f.ran + 1]
  <2>0. k \in ToolCalls
    BY <1>2, <1>4
  <2> HIDE DEF k
  <2>1. StoredCall(k) \in ToolCalls /\ k.id \in CallIds
    BY <2>0, StoredFormFacts DEF ToolCalls
  <2> QED
    BY <2>1, <1>2 DEF Building, Built, OnToolUse, OnToolResult, k
<1> HIDE DEF built
<1>9. /\ g \in Frames /\ g.at = "waiting" /\ g.prior = f.prior /\ g.conv = f.conv
      /\ g.said = f.said /\ g.calls = f.calls /\ g.ran = f.ran /\ g.built = built
  BY <1>1, <1>8 DEF Frames
<1> HIDE DEF g
<1>10. Answering(g, s, c, text, f.ran + 1)
  BY <1>3, <1>6, <1>9 DEF Answering
<1>11. Busy(g, g.ran + 1)
  BY <1>10, <1>9, <1>4 DEF Busy
<1>12. FrameOK(g)
  BY <1>11, <1>9, <1>1 DEF FrameOK
<1> QED
  BY <1>12, <1>7

LEMMA CallEnds ==
  ASSUME NEW f, FrameOK(f), f.at = "waiting"
  PROVE  FrameOK(ToolDone(f))
<1> DEFINE built == OnToolResult(f.built, f.calls[f.ran + 1])
           g == [f EXCEPT !.at = "tools", !.ran = f.ran + 1, !.built = built]
<1>1. f \in Frames /\ WellFormed(f.prior) /\ Busy(f, f.ran + 1)
  BY DEF FrameOK
<1>2. f.calls \in Seq(ToolCalls) /\ f.ran \in Nat /\ f.built \in Building
  BY <1>1 DEF Frames
<1>3. PICK s \in Seq(Turns), c \in Seq(Turns), text \in Texts :
         Answering(f, s, c, text, f.ran + 1)
  BY <1>1 DEF Busy
<1>4. f.ran \in 0 .. Len(f.calls) - 1 /\ Len(f.calls) \in Nat /\ f.ran + 1 <= Len(f.calls)
  BY <1>1, <1>2 DEF Busy
<1>5. f.built = Built(StoredForm(s), <<AssistantTurn(text, {})>>,
                      StoredCalls(First(f.calls, f.ran + 1)), IdsOf(First(f.calls, f.ran)))
  BY <1>3 DEF Answering
<1>6. built = Built(StoredForm(s), <<AssistantTurn(text, {})>>,
                    StoredCalls(First(f.calls, f.ran + 1)), IdsOf(First(f.calls, f.ran + 1)))
  <2> DEFINE o == <<AssistantTurn(text, {})>>
             had == First(f.calls, f.ran)
             has == First(f.calls, f.ran + 1)
             k == f.calls[f.ran + 1]
             bb == f.built
  <2>1. had \cup {k} = has /\ had \in SUBSET ToolCalls
    <3>1. f.ran \in 0 .. Len(f.calls)
      BY <1>4
    <3> QED
      BY <3>1, <1>2, <1>4, CallFacts
  <2>2. bb = Built(StoredForm(s), o, StoredCalls(has), IdsOf(had))
    BY <1>5
  <2> HIDE DEF o, had, has, k, bb
  <2>3. OnToolResult(bb, k) = Built(StoredForm(s), o, StoredCalls(has), IdsOf(had) \cup {k.id})
    BY <2>2, RebuiltResult
  <2>4. IdsOf(had) \cup {k.id} = IdsOf(has)
    BY <2>1, IdFacts
  <2> QED
    BY <2>3, <2>4 DEF o, had, has, k, bb
<1>7. ToolDone(f) = g
  BY <1>1 DEF ToolDone, NextCall, Frames
<1>8. built \in Building
  <2> DEFINE k == f.calls[f.ran + 1]
  <2>0. k \in ToolCalls
    BY <1>2, <1>4
  <2> HIDE DEF k
  <2>1. StoredCall(k) \in ToolCalls /\ k.id \in CallIds
    BY <2>0, StoredFormFacts DEF ToolCalls
  <2> QED
    BY <2>1, <1>2 DEF Building, Built, OnToolUse, OnToolResult, k
<1> HIDE DEF built
<1>9. /\ g \in Frames /\ g.at = "tools" /\ g.prior = f.prior /\ g.conv = f.conv
      /\ g.said = f.said /\ g.calls = f.calls /\ g.ran = f.ran + 1 /\ g.built = built
  <2>1. f.ran + 1 \in Nat
    BY <1>2
  <2> DEFINE next == f.ran + 1
  <2> HIDE DEF next
  <2>2. next \in Nat /\ g = [f EXCEPT !.at = "tools", !.ran = next, !.built = built]
    BY <2>1 DEF next
  <2>3. g \in Frames /\ g.ran = next /\ g.built = built /\ g.at = "tools"
    BY <2>2, <1>1, <1>8 DEF Frames
  <2>4. g.prior = f.prior /\ g.conv = f.conv /\ g.said = f.said /\ g.calls = f.calls
    BY <2>2, <1>1 DEF Frames
  <2> QED
    BY <2>3, <2>4 DEF next
<1> HIDE DEF g
<1>10. Answering(g, s, c, text, g.ran)
  BY <1>3, <1>6, <1>9 DEF Answering
<1>11. Busy(g, g.ran)
  BY <1>10, <1>9, <1>4 DEF Busy
<1>12. FrameOK(g)
  BY <1>11, <1>9, <1>1 DEF FrameOK
<1> QED
  BY <1>12, <1>7

\* StepFinish, without calls and after them.
LEMMA RebuiltPlainStep ==
  ASSUME NEW s \in Seq(Turns), NEW t \in Turns
  PROVE  OnStepFinish(Built(s, <<t>>, {}, {})) = Built(Append(s, t), <<>>, {}, {})
<1> DEFINE b == Built(s, <<t>>, {}, {})
<1>1. b.calls = {} /\ b.results = {} /\ b.turns = s /\ b.open = <<t>>
  BY BuiltFacts
<1> HIDE DEF b
<1>2. OnStepFinish(b) = Built(s \o <<t>>, <<>>, {}, {})
  BY <1>1 DEF OnStepFinish, CloseTurn
<1>3. s \o <<t>> = Append(s, t)
  OBVIOUS
<1> QED
  BY <1>2, <1>3 DEF b

LEMMA RebuiltToolStep ==
  ASSUME NEW s \in Seq(Turns), NEW text \in Texts, NEW calls \in SUBSET ToolCalls, calls # {},
         NEW ids \in SUBSET CallIds, ids # {}
  PROVE  OnStepFinish(Built(s, <<AssistantTurn(text, {})>>, calls, ids))
           = Built(Append(Append(s, AssistantTurn(text, calls)), ToolTurn(ids)), <<>>, {}, {})
<1> DEFINE a == AssistantTurn(text, {})
           c == AssistantTurn(text, calls)
           t == ToolTurn(ids)
           x == Append(Append(s, c), t)
           b == Built(s, <<a>>, calls, ids)
           d == Built(s, <<c>>, {}, ids)
           e == Built(x, <<>>, {}, {})
<1>1. a.text = text /\ c \in Turns /\ t \in Turns
  BY TurnFacts, TurnTypes
<1>2. /\ b.calls = calls /\ b.results = ids /\ b.turns = s
      /\ b.open # <<>> /\ b.open[1].text = text
  BY <1>1, BuiltFacts
<1>3. d.results = ids /\ d.turns = s /\ d.open = <<c>> /\ d.calls = {}
  BY BuiltFacts
<1>4. s \o <<c>> \o <<t>> = x /\ x \o <<>> = x
  BY <1>1
<1> HIDE DEF a, b, x
<1>5. e.results = {} /\ e.turns = x /\ e.open = <<>> /\ e.calls = {}
  BY BuiltFacts
<1>6. WithCalls(b) = d
  BY <1>2 DEF WithCalls
<1> HIDE DEF c, d
<1>7. FlushResults(d) = e
  BY <1>3, <1>4 DEF FlushResults
<1> HIDE DEF e
<1>8. CloseTurn(e) = Built(x, <<>>, {}, {})
  BY <1>4, <1>5 DEF CloseTurn
<1>9. OnStepFinish(b) = CloseTurn(FlushResults(WithCalls(b)))
  BY <1>2 DEF OnStepFinish
<1> QED
  BY <1>6, <1>7, <1>8, <1>9 DEF a, b, c, x

Finished(frame, next) ==
  LET answered == IF frame.calls = <<>> THEN frame
                  ELSE AddTurn(frame, ToolTurn(IdsOf(TagSet(frame.calls))))
  IN [answered EXCEPT !.at = next, !.step = @ + 1, !.calls = <<>>,
                      !.ran = 0, !.stop = FALSE, !.built = OnStepFinish(@)]

LEMMA FinishStep ==
  ASSUME NEW f, FrameOK(f), f.at = "tools", f.ran = Len(f.calls),
         NEW next \in {"done", "error", "budget"}
  PROVE  FrameOK(Finished(f, next)) /\ Finished(f, next).at = next
         /\ Finished(f, next).left = f.left
<1>1. f \in Frames /\ WellFormed(f.prior) /\ Busy(f, f.ran)
  BY DEF FrameOK
<1>2. /\ f.calls \in Seq(ToolCalls) /\ f.prior \in Seq(Turns) /\ f.step \in Nat
      /\ f.conv \in Seq(Turns) /\ f.said \in Seq(Turns)
  BY <1>1 DEF Frames
<1>3. PICK s \in Seq(Turns), c \in Seq(Turns), text \in Texts :
         Answering(f, s, c, text, f.ran)
  BY <1>1 DEF Busy
<1> DEFINE tags == TagSet(f.calls)
           turn == AssistantTurn(text, tags)
           answer == ToolTurn(IdsOf(tags))
           stored == StoredForm(s)
           storedTurn == AssistantTurn(text, StoredCalls(tags))
           said == IF f.calls = <<>> THEN f.said ELSE Append(f.said, answer)
           conv == IF f.calls = <<>> THEN f.conv ELSE Append(f.conv, answer)
           built == OnStepFinish(f.built)
           step == f.step + 1
           g == [f EXCEPT !.conv = conv, !.said = said, !.at = next, !.step = step,
                          !.calls = <<>>, !.ran = 0, !.stop = FALSE, !.built = built]
<1>4. /\ tags \in SUBSET ToolCalls /\ (tags = {} <=> f.calls = <<>>)
      /\ First(f.calls, f.ran) = tags
  BY <1>2, CallFacts
<1>4a. /\ IdsOf(tags) \in SUBSET CallIds /\ (tags = {} <=> IdsOf(tags) = {})
       /\ StoredCalls(tags) \in SUBSET ToolCalls /\ (tags = {} <=> StoredCalls(tags) = {})
  BY <1>4, IdFacts, StoredFormFacts
<1>5. turn \in Turns /\ answer \in Turns /\ AssistantTurn(text, {}) \in Turns
  BY <1>4, <1>4a, TurnTypes
<1>5a. /\ StoredTurn(turn) = storedTurn /\ StoredTurn(answer) = answer
       /\ stored \in Seq(Turns) /\ storedTurn \in Turns
  BY <1>4, <1>4a, StoredTurnFacts, StoredFormSeq, TurnTypes
<1>6. /\ Matches(f.prior, s, c)
      /\ f.said = Append(s, turn) /\ f.conv = Append(c, turn)
      /\ f.built = Built(stored, <<AssistantTurn(text, {})>>, StoredCalls(tags), IdsOf(tags))
  BY <1>3, <1>4 DEF Answering
<1>7. /\ Matches(f.prior, said, conv) /\ built = Built(StoredForm(said), <<>>, {}, {})
      /\ said \in Seq(Turns) /\ conv \in Seq(Turns)
  <2>1. CASE f.calls = <<>>
    <3>1. tags = {} /\ said = Append(s, turn) /\ conv = Append(c, turn)
      BY <2>1, <1>4, <1>6
    <3>2. turn.role = "assistant" /\ turn.calls = {}
      BY <3>1, TurnFacts
    <3>3. storedTurn = AssistantTurn(text, {}) /\ StoredCalls(tags) = {} /\ IdsOf(tags) = {}
      BY <3>1, <1>4a
    <3> HIDE DEF turn, tags, said, conv, stored, storedTurn
    <3>4. Matches(f.prior, Append(s, turn), Append(c, turn))
      BY <3>2, <1>2, <1>5, <1>6, MatchesAppend
    <3>5. built = Built(Append(stored, storedTurn), <<>>, {}, {})
      BY <3>3, <1>5a, <1>6, RebuiltPlainStep
    <3>5a. StoredForm(Append(s, turn)) = Append(stored, storedTurn)
      BY <1>5, <1>5a, StoredFormAppend DEF stored
    <3>6. Append(s, turn) \in Seq(Turns) /\ Append(c, turn) \in Seq(Turns)
      BY <1>5, AppendFacts
    <3> QED
      BY <3>1, <3>4, <3>5, <3>5a, <3>6
  <2>2. CASE f.calls # <<>>
    <3>1. /\ said = Append(Append(s, turn), answer) /\ conv = Append(Append(c, turn), answer)
          /\ tags # {}
      BY <2>2, <1>4, <1>6
    <3> HIDE DEF tags, said, conv, stored
    <3>2. Matches(f.prior, Append(Append(s, turn), answer), Append(Append(c, turn), answer))
      BY <3>1, <1>2, <1>4, <1>6, MatchesAppendCalls
    <3>3. built = Built(Append(Append(stored, storedTurn), answer), <<>>, {}, {})
      <4> DEFINE calls == StoredCalls(tags)
                 ids == IdsOf(tags)
      <4>1. /\ calls \in SUBSET ToolCalls /\ calls # {} /\ ids \in SUBSET CallIds /\ ids # {}
            /\ stored \in Seq(Turns)
            /\ f.built = Built(stored, <<AssistantTurn(text, {})>>, calls, ids)
        BY <3>1, <1>4a, <1>5a, <1>6
      <4> HIDE DEF calls, ids
      <4>2. OnStepFinish(Built(stored, <<AssistantTurn(text, {})>>, calls, ids))
              = Built(Append(Append(stored, AssistantTurn(text, calls)), ToolTurn(ids)), <<>>, {}, {})
        BY <4>1, RebuiltToolStep
      <4> QED
        BY <4>1, <4>2 DEF calls, ids
    <3>4. Append(s, turn) \in Seq(Turns) /\ Append(c, turn) \in Seq(Turns)
      BY <1>5, AppendFacts
    <3> HIDE DEF turn, answer, storedTurn
    <3>4a. StoredForm(Append(Append(s, turn), answer)) = Append(Append(stored, storedTurn), answer)
      <4>1. StoredForm(Append(s, turn)) = Append(stored, storedTurn)
        BY <1>5, <1>5a, StoredFormAppend DEF stored
      <4> QED
        BY <4>1, <3>4, <1>5, <1>5a, StoredFormAppend
    <3>5. /\ Append(Append(s, turn), answer) \in Seq(Turns)
          /\ Append(Append(c, turn), answer) \in Seq(Turns)
      BY <3>4, <1>5, AppendFacts
    <3> QED
      BY <3>1, <3>2, <3>3, <3>4a, <3>5
  <2> QED
    BY <2>1, <2>2
<1>8. Finished(f, next) = g
  <2>1. CASE f.calls = <<>>
    BY <2>1, <1>1 DEF Finished, Frames
  <2>2. CASE f.calls # <<>>
    BY <2>2, <1>1 DEF Finished, AddTurn, Frames
  <2> QED
    BY <2>1, <2>2
<1>9. built \in Building /\ step \in Nat
  <2>1. Built(StoredForm(said), <<>>, {}, {}) \in Building
    <3> HIDE DEF said
    <3>1. StoredForm(said) \in Seq(Turns)
      BY <1>7, StoredFormSeq
    <3> QED
      BY <3>1 DEF Building, Built
  <2> QED
    BY <2>1, <1>2, <1>7
<1> HIDE DEF built, said, conv, step
<1>10. g \in Frames
  <2> DEFINE none == <<>>
  <2>1. none \in Seq(ToolCalls) /\ g = [f EXCEPT !.conv = conv, !.said = said, !.at = next,
                                     !.step = step, !.calls = none, !.ran = 0,
                                     !.stop = FALSE, !.built = built]
    OBVIOUS
  <2> HIDE DEF none, g
  <2> QED
    BY <2>1, <1>1, <1>7, <1>9 DEF Frames
<1>11. /\ g.at = next /\ g.prior = f.prior /\ g.conv = conv
       /\ g.said = said /\ g.built = built /\ g.left = f.left
  BY <1>1 DEF Frames
<1> HIDE DEF g
<1>12. Settled(g)
  BY <1>7, <1>11 DEF Settled
<1>13. FrameOK(g)
  BY <1>1, <1>10, <1>11, <1>12 DEF FrameOK
<1> QED
  BY <1>8, <1>11, <1>13

-------------------------------------------------------------------------------
(* The loops of a run, one above the other.                                  *)

StackOK(fs) ==
  /\ fs \in Seq(Frames)
  /\ \A k \in 1 .. Len(fs) : FrameOK(fs[k])
  /\ \A k \in 1 .. Len(fs) : fs[k].left + k <= MaxDepth + 1
  /\ \A k \in 1 .. Len(fs) : fs[k].at = "waiting" <=> k < Len(fs)

LEMMA FrameTypes ==
  ASSUME NEW f, FrameOK(f)
  PROVE  f \in Frames /\ f.left \in 0 .. MaxDepth /\ f.left \in Nat
BY BoundsAssumption DEF FrameOK, Frames

LEMMA StackTop ==
  ASSUME NEW fs, StackOK(fs), fs # <<>>
  PROVE  /\ Len(fs) \in Nat /\ Len(fs) >= 1 /\ DOMAIN fs = 1 .. Len(fs)
         /\ FrameOK(fs[Len(fs)]) /\ fs[Len(fs)].at # "waiting"
<1>1. fs \in Seq(Frames) /\ Len(fs) \in 1 .. Len(fs) /\ Len(fs) \in Nat /\ Len(fs) >= 1
  BY DEF StackOK
<1>2. FrameOK(fs[Len(fs)]) /\ (fs[Len(fs)].at = "waiting" <=> Len(fs) < Len(fs))
  BY <1>1 DEF StackOK
<1> QED
  BY <1>1, <1>2

Put(fs, n, g) == [fs EXCEPT ![n] = g]

LEMMA OneReplaced ==
  ASSUME NEW fs \in Seq(Frames), NEW n \in 1 .. Len(fs), NEW g \in Frames
  PROVE  /\ Put(fs, n, g) \in Seq(Frames)
         /\ Len(Put(fs, n, g)) = Len(fs)
         /\ Put(fs, n, g) # <<>>
         /\ Put(fs, n, g)[n] = g
         /\ \A k \in 1 .. Len(fs) : k # n => Put(fs, n, g)[k] = fs[k]
BY DEF Put

LEMMA StackReplace ==
  ASSUME NEW fs, StackOK(fs), fs # <<>>,
         NEW g, FrameOK(g), g.left = fs[Len(fs)].left, g.at # "waiting"
  PROVE  StackOK([fs EXCEPT ![Len(fs)] = g]) /\ [fs EXCEPT ![Len(fs)] = g] # <<>>
<1> DEFINE n == Len(fs)
           gs == Put(fs, n, g)
<1>1. n \in Nat /\ n >= 1 /\ fs \in Seq(Frames) /\ DOMAIN fs = 1 .. n /\ g \in Frames
  BY StackTop, FrameTypes DEF StackOK
<1>1a. n \in 1 .. Len(fs)
  BY <1>1
<1>2. gs \in Seq(Frames) /\ Len(gs) = n /\ gs # <<>>
  BY <1>1, <1>1a, OneReplaced
<1>3. gs[n] = g /\ \A k \in 1 .. n : k # n => gs[k] = fs[k]
  BY <1>1, <1>1a, OneReplaced
<1>4. /\ \A k \in 1 .. n : FrameOK(fs[k]) /\ fs[k].left + k <= MaxDepth + 1
      /\ \A k \in 1 .. n : fs[k].at = "waiting" <=> k < n
  BY DEF StackOK
<1> HIDE DEF gs, n
<1>5. g.left = fs[n].left
  BY DEF n
<1>6. \A k \in 1 .. n : FrameOK(gs[k])
  BY <1>3, <1>4
<1>7. \A k \in 1 .. n : gs[k].left + k <= MaxDepth + 1
  BY <1>1, <1>3, <1>4, <1>5
<1>8. \A k \in 1 .. n : gs[k].at = "waiting" <=> k < n
  BY <1>1, <1>3, <1>4
<1> QED
  BY <1>2, <1>6, <1>7, <1>8 DEF StackOK, Put, gs, n

LEMMA StackPush ==
  ASSUME NEW fs, StackOK(fs), fs # <<>>,
         NEW p, FrameOK(p), p.left = fs[Len(fs)].left, p.at = "waiting",
         NEW g, FrameOK(g), g.left + 1 <= p.left, g.at # "waiting"
  PROVE  /\ StackOK(Append([fs EXCEPT ![Len(fs)] = p], g))
         /\ Append([fs EXCEPT ![Len(fs)] = p], g) # <<>>
<1> DEFINE n == Len(fs)
           hs == Put(fs, n, p)
           gs == Append(hs, g)
<1>1. /\ n \in Nat /\ n >= 1 /\ fs \in Seq(Frames) /\ DOMAIN fs = 1 .. n
      /\ g \in Frames /\ p \in Frames /\ g.left \in Nat /\ p.left \in Nat
  BY StackTop, FrameTypes DEF StackOK
<1>1a. n \in 1 .. Len(fs)
  BY <1>1
<1>2. hs \in Seq(Frames) /\ Len(hs) = n
  BY <1>1, <1>1a, OneReplaced
<1>3. hs[n] = p /\ \A k \in 1 .. n : k # n => hs[k] = fs[k]
  BY <1>1, <1>1a, OneReplaced
<1> HIDE DEF hs
<1>4. gs \in Seq(Frames) /\ Len(gs) = n + 1 /\ gs # <<>>
  BY <1>1, <1>2
<1>5. gs[n + 1] = g /\ \A k \in 1 .. n : gs[k] = hs[k]
  BY <1>1, <1>2
<1>6. /\ \A k \in 1 .. n : FrameOK(fs[k]) /\ fs[k].left + k <= MaxDepth + 1
      /\ \A k \in 1 .. n : fs[k].at = "waiting" <=> k < n
  BY DEF StackOK
<1> HIDE DEF gs, n
<1>7. p.left = fs[n].left
  BY DEF n
<1>8. \A k \in 1 .. n + 1 : k = n + 1 \/ k = n \/ (k \in 1 .. n /\ k # n /\ k < n)
  BY <1>1
<1>9. \A k \in 1 .. n + 1 : FrameOK(gs[k])
  BY <1>1, <1>3, <1>5, <1>6, <1>8
<1>10. \A k \in 1 .. n + 1 : gs[k].left + k <= MaxDepth + 1
  <2>1. g.left + (n + 1) <= MaxDepth + 1
    <3>1. p.left + n <= MaxDepth + 1
      BY <1>1, <1>6, <1>7
    <3> QED
      BY <3>1, <1>1, BoundsAssumption
  <2>2. gs[n].left + n <= MaxDepth + 1
    BY <1>1, <1>3, <1>5, <1>6, <1>7
  <2> QED
    BY <2>1, <2>2, <1>3, <1>5, <1>6, <1>8
<1>11. \A k \in 1 .. n + 1 : gs[k].at = "waiting" <=> k < n + 1
  <2>1. gs[n].at = "waiting" /\ gs[n + 1].at # "waiting"
    BY <1>1, <1>3, <1>5
  <2>2. \A k \in 1 .. n : k # n => gs[k].at = "waiting"
    BY <1>1, <1>3, <1>5, <1>6
  <2> QED
    BY <2>1, <2>2, <1>1, <1>8
<1> QED
  BY <1>4, <1>9, <1>10, <1>11 DEF StackOK, Put, gs, hs, n

LEMMA StackPop ==
  ASSUME NEW fs, StackOK(fs), Len(fs) > 1,
         NEW g, FrameOK(g), g.left = fs[Len(fs) - 1].left, g.at # "waiting"
  PROVE  LET n == Len(fs) - 1 IN
         /\ StackOK([SubSeq(fs, 1, n) EXCEPT ![n] = g])
         /\ [SubSeq(fs, 1, n) EXCEPT ![n] = g] # <<>>
<1> DEFINE n == Len(fs) - 1
           hs == SubSeq(fs, 1, n)
           gs == Put(hs, n, g)
<1>1. /\ n \in Nat /\ n >= 1 /\ Len(fs) = n + 1 /\ fs \in Seq(Frames) /\ g \in Frames
  BY FrameTypes DEF StackOK
<1>2. hs \in Seq(Frames) /\ Len(hs) = n /\ DOMAIN hs = 1 .. n /\ \A k \in 1 .. n : hs[k] = fs[k]
  BY <1>1
<1> HIDE DEF hs
<1>2a. n \in 1 .. Len(hs)
  BY <1>1, <1>2
<1>3. gs \in Seq(Frames) /\ Len(gs) = n /\ gs # <<>>
  BY <1>1, <1>2, <1>2a, OneReplaced
<1>4. gs[n] = g /\ \A k \in 1 .. n : k # n => gs[k] = fs[k]
  <2>1. gs[n] = g /\ \A k \in 1 .. Len(hs) : k # n => gs[k] = hs[k]
    BY <1>1, <1>2, <1>2a, OneReplaced
  <2> QED
    BY <2>1, <1>2
<1>5. \A k \in 1 .. n : /\ FrameOK(fs[k]) /\ fs[k].left + k <= MaxDepth + 1
                        /\ fs[k].at = "waiting"
  BY <1>1 DEF StackOK
<1>6. g.left = fs[n].left
  OBVIOUS
<1> HIDE DEF gs, n
<1>7. \A k \in 1 .. n : FrameOK(gs[k])
  BY <1>4, <1>5
<1>8. \A k \in 1 .. n : gs[k].left + k <= MaxDepth + 1
  BY <1>1, <1>4, <1>5, <1>6
<1>9. \A k \in 1 .. n : gs[k].at = "waiting" <=> k < n
  BY <1>1, <1>4, <1>5
<1> QED
  BY <1>3, <1>7, <1>8, <1>9 DEF StackOK, Put, gs, hs, n

-------------------------------------------------------------------------------
(* The steps of a run in its loops.                                          *)

\* The names that a run's open file may have.
Opened(q) ==
  CASE q.pc \in {"saveOpen", "saveWrite", "saveRename"} -> {TmpName(q.sid), SessionName(q.sid)}
    [] q.pc \in {"indexOpen", "indexWrite", "indexRename"} -> {IndexTmpName(q.sid), IndexName}
    [] OTHER -> {}

RunOK(q) ==
  /\ q \in RunStates
  /\ StackOK(q.frames) /\ (q.pc = "loop" <=> q.frames # <<>>)
  /\ WellFormed(q.turns)
  /\ q.pc \in {"saveOpen", "saveWrite", "saveRename"} => q.turns # <<>>
  /\ q.pc \notin {"idle", "over"} => q.sid \in Ids /\ q.cwd \in Cwds
  /\ q.pc = "idle" => q.sid = NoSession
  /\ q.fd \subseteq Opened(q)

\* A step of run r that stays away from the files.
Moves(r, q) ==
  /\ runs' = [runs EXCEPT ![r] = q]
  /\ RunOK(q)
  /\ runs[r].sid \in Ids => q.sid = runs[r].sid
  /\ q.fd = {} /\ q.map \in {runs[r].map, EmptyIndex}
  /\ q.pc \in {"loop", "over", "saveOpen"}

RunsOK == runs \in [Runs -> RunStates] /\ \A r \in Runs : RunOK(runs[r])

LEMMA EmptyFacts ==
  /\ EmptyIndex \in Maps /\ {} \in SUBSET Names
  /\ <<>> \in Seq(Frames) /\ <<>> \in Seq(Turns) /\ WellFormed(<<>>) /\ StackOK(<<>>)
<1>1. EmptyIndex \in Maps
  BY DEF EmptyIndex, Maps
<1>2. WellFormed(<<>>)
  BY DEF WellFormed, ToolTurnsFollowCalls, CallsAreAnswered, Spoken
<1>3. StackOK(<<>>)
  BY DEF StackOK
<1> QED
  BY <1>1, <1>2, <1>3

LEMMA OutsideOK ==
  ASSUME NEW pc \in {"idle", "over"}, NEW sid \in Ids \cup {NoSession},
         pc = "idle" => sid = NoSession
  PROVE  /\ RunOK(Outside(pc, sid)) /\ Outside(pc, sid).pc = pc /\ Outside(pc, sid).sid = sid
         /\ Outside(pc, sid).fd = {} /\ Outside(pc, sid).map = EmptyIndex
<1> DEFINE empty == EmptyIndex
           none == <<>>
           q == [pc |-> pc, cwd |-> NoSession, sid |-> sid, frames |-> none,
                 turns |-> none, map |-> empty, fd |-> {}]
<1>1. Outside(pc, sid) = q
  BY DEF Outside
<1>2. /\ empty \in Maps /\ none \in Seq(Frames) /\ none \in Seq(Turns)
      /\ WellFormed(none) /\ StackOK(none) /\ none = <<>>
  BY EmptyFacts
<1> HIDE DEF empty, none
<1>3. q \in RunStates
  BY <1>2 DEF RunStates
<1>4. RunOK(q)
  BY <1>2, <1>3 DEF RunOK
<1> QED
  BY <1>1, <1>4 DEF empty

LEMMA OverOK ==
  ASSUME NEW r \in Runs, RunsOK
  PROVE  /\ RunOK(Over(r)) /\ Over(r).pc = "over" /\ Over(r).sid = runs[r].sid
         /\ Over(r).fd = {} /\ Over(r).map = EmptyIndex
<1>1. runs[r].sid \in Ids \cup {NoSession}
  BY DEF RunsOK, RunStates
<1> QED
  BY <1>1, OutsideOK DEF Over

LEMMA TopFacts ==
  ASSUME NEW r \in Runs, RunsOK, runs[r].pc = "loop"
  PROVE  /\ runs[r] \in RunStates /\ StackOK(runs[r].frames) /\ runs[r].frames # <<>>
         /\ FrameOK(Top(r)) /\ Top(r).at # "waiting" /\ Top(r) \in Frames
<1>1. runs[r] \in RunStates /\ StackOK(runs[r].frames) /\ runs[r].frames # <<>>
  BY DEF RunsOK, RunOK
<1> QED
  BY <1>1, StackTop, FrameTypes DEF Top

LEMMA NewFrames ==
  ASSUME NEW r \in Runs, RunsOK, runs[r].pc = "loop",
         NEW fs, StackOK(fs), fs # <<>>,
         runs' = [runs EXCEPT ![r] = [@ EXCEPT !.frames = fs]]
  PROVE  \E q \in RunStates : Moves(r, q)
<1> DEFINE q == [runs[r] EXCEPT !.frames = fs]
<1>1. /\ runs[r] \in RunStates /\ RunOK(runs[r]) /\ fs \in Seq(Frames)
  BY DEF RunsOK, StackOK
<1>2. /\ q \in RunStates /\ q.pc = "loop" /\ q.sid = runs[r].sid /\ q.cwd = runs[r].cwd
      /\ q.turns = runs[r].turns /\ q.fd = runs[r].fd /\ q.map = runs[r].map /\ q.frames = fs
  BY <1>1 DEF RunStates
<1>3. runs' = [runs EXCEPT ![r] = q]
  OBVIOUS
<1> HIDE DEF q
<1>4. runs[r].fd = {}
  BY <1>1 DEF RunOK, Opened
<1>5. RunOK(q)
  BY <1>1, <1>2, <1>4 DEF RunOK
<1> QED
  BY <1>2, <1>3, <1>4, <1>5 DEF Moves

LEMMA NewTop ==
  ASSUME NEW r \in Runs, RunsOK, runs[r].pc = "loop",
         NEW g, FrameOK(g), g.left = Top(r).left, g.at # "waiting", SetTop(r, g)
  PROVE  \E q \in RunStates : Moves(r, q)
<1> DEFINE fs == [runs[r].frames EXCEPT ![Len(runs[r].frames)] = g]
<1>1. StackOK(fs) /\ fs # <<>>
  BY TopFacts, StackReplace DEF Top
<1>2. runs' = [runs EXCEPT ![r] = [@ EXCEPT !.frames = fs]]
  BY DEF SetTop
<1> HIDE DEF fs
<1> QED
  BY <1>1, <1>2, NewFrames

LEMMA AskMoves ==
  ASSUME NEW r \in Runs, RunsOK, WithinBudget(r) \/ Compress(r) \/ LlmFails(r)
  PROVE  \E q \in RunStates : Moves(r, q)
<1> DEFINE f == Top(r)
<1>1. runs[r].pc = "loop" /\ FrameOK(f) /\ f \in Frames
  BY TopFacts DEF WithinBudget, Compress, LlmFails, InLoop
<1>2. CASE WithinBudget(r)
  <2> DEFINE g == [f EXCEPT !.at = "ask"]
  <2>1. FrameOK(g) /\ SetTop(r, g)
    BY <1>1, <1>2, BudgetSteps DEF WithinBudget, InLoop
  <2>2. g.left = f.left /\ g.at = "ask"
    BY <1>1 DEF Frames
  <2> HIDE DEF g
  <2> QED
    BY <2>1, <2>2, <1>1, NewTop
<1>3. CASE Compress(r)
  <2>1. PICK from \in PreserveFrom(f.conv) :
           SetTop(r, [f EXCEPT !.at = "ask", !.conv = Compressed(@, from)])
    BY <1>3 DEF Compress
  <2> DEFINE c == Compressed(f.conv, from)
             g == [f EXCEPT !.at = "ask", !.conv = c]
  <2>2. FrameOK(g) /\ SetTop(r, g)
    BY <1>1, <1>3, <2>1, BudgetSteps DEF Compress, InLoop
  <2> HIDE DEF c
  <2>3. g.left = f.left /\ g.at = "ask"
    BY <1>1 DEF Frames
  <2> HIDE DEF g
  <2> QED
    BY <2>2, <2>3, <1>1, NewTop
<1>4. CASE LlmFails(r)
  <2> DEFINE g == [f EXCEPT !.at = "error"]
  <2>1. FrameOK(g) /\ SetTop(r, g)
    BY <1>1, <1>4, FailStep DEF LlmFails, InLoop
  <2>2. g.left = f.left /\ g.at = "error"
    BY <1>1 DEF Frames
  <2> HIDE DEF g
  <2> QED
    BY <2>1, <2>2, <1>1, NewTop
<1> QED
  BY <1>2, <1>3, <1>4

LEMMA RespondMoves ==
  ASSUME NEW r \in Runs, RunsOK, Respond(r)
  PROVE  \E q \in RunStates : Moves(r, q)
<1> DEFINE f == Top(r)
<1>1. runs[r].pc = "loop" /\ FrameOK(f) /\ f \in Frames /\ f.at = "ask"
  BY TopFacts DEF Respond, InLoop
<1>2. PICK n \in 0 .. MaxCalls, stop \in BOOLEAN : \E forms \in [1 .. n -> Forms] :
         SetTop(r, Answered(f, r, n, forms, stop))
  BY DEF Respond, Answered
<1>2a. PICK forms \in [1 .. n -> Forms] : SetTop(r, Answered(f, r, n, forms, stop))
  BY <1>2
<1>3. n \in Nat
  BY BoundsAssumption
<1>4. FrameOK(Answered(f, r, n, forms, stop))
  BY <1>1, <1>3, RespondStep
<1>5. Answered(f, r, n, forms, stop).left = f.left /\ Answered(f, r, n, forms, stop).at = "tools"
  BY <1>1 DEF Answered, AddTurn, Frames
<1> QED
  BY <1>1, <1>2a, <1>4, <1>5, NewTop

LEMMA ToolMoves ==
  ASSUME NEW r \in Runs, RunsOK, RunTool(r)
  PROVE  \E q \in RunStates : Moves(r, q)
<1> DEFINE f == Top(r)
           w == [ToolBegins(f) EXCEPT !.at = "waiting"]
<1>1. runs[r].pc = "loop" /\ FrameOK(f) /\ f \in Frames /\ f.at = "tools" /\ f.ran < Len(f.calls)
  BY TopFacts DEF RunTool, InLoop
<1>2. FrameOK(w)
  BY <1>1, CallBegins
<1>3. w \in Frames /\ w.at = "waiting"
  BY <1>1, <1>2 DEF FrameOK, ToolBegins, Frames
<1>4. FrameOK(ToolDone(w))
  BY <1>2, <1>3, CallEnds
<1>5. ToolDone(w) = ToolDone(ToolBegins(f))
  BY <1>1 DEF ToolDone, ToolBegins, NextCall, Frames
<1>6. ToolDone(w).left = f.left /\ ToolDone(w).at = "tools"
  BY <1>1 DEF ToolDone, ToolBegins, Frames
<1>7. SetTop(r, ToolDone(w))
  BY <1>5 DEF RunTool
<1> QED
  BY <1>1, <1>4, <1>6, <1>7, NewTop

LEMMA FinishMoves ==
  ASSUME NEW r \in Runs, RunsOK, StepEnds(r)
  PROVE  \E q \in RunStates : Moves(r, q)
<1> DEFINE f == Top(r)
           last == f.step + 1 >= f.max
           next == CASE f.stop \/ (last /\ f.calls = <<>>) -> "done"
                     [] last /\ f.calls # <<>> -> "error"
                     [] OTHER -> "budget"
<1>1. runs[r].pc = "loop" /\ FrameOK(f) /\ f.at = "tools" /\ f.ran = Len(f.calls)
  BY TopFacts DEF StepEnds, InLoop
<1>2. next \in {"done", "error", "budget"}
  OBVIOUS
<1>3. SetTop(r, Finished(f, next))
  BY DEF StepEnds, Finished
<1> HIDE DEF next
<1>4. FrameOK(Finished(f, next)) /\ Finished(f, next).at = next /\ Finished(f, next).left = f.left
  BY <1>1, <1>2, FinishStep
<1> QED
  BY <1>1, <1>2, <1>3, <1>4, NewTop

LEMMA SpawnMoves ==
  ASSUME NEW r \in Runs, RunsOK, SpawnSubagent(r)
  PROVE  \E q \in RunStates : Moves(r, q)
<1> DEFINE f == Top(r)
           w == [ToolBegins(f) EXCEPT !.at = "waiting"]
           fs == runs[r].frames
<1>1. /\ runs[r].pc = "loop" /\ FrameOK(f) /\ f \in Frames /\ f.at = "tools"
      /\ f.ran < Len(f.calls) /\ f.left > 0 /\ StackOK(fs) /\ fs # <<>>
  BY TopFacts DEF SpawnSubagent, HasSpawnTool, InLoop
<1>2. PICK max \in SubIterations \cup {MaxIterations} :
        runs' = [runs EXCEPT ![r].frames =
                   Append([@ EXCEPT ![Len(runs[r].frames)] = w],
                          Loop(<<>>, <<r, 0>>, max, SubDepth(f.left)))]
  BY DEF SpawnSubagent, HasSpawnTool
<1> DEFINE child == Loop(<<>>, <<r, 0>>, max, SubDepth(f.left))
           gs == Append([fs EXCEPT ![Len(fs)] = w], child)
<1>3. FrameOK(w) /\ w.left = f.left /\ w.at = "waiting"
  <2>1. FrameOK(w)
    BY <1>1, CallBegins
  <2>2. w.left = f.left /\ w.at = "waiting"
    BY <1>1 DEF ToolBegins, Frames
  <2> QED
    BY <2>1, <2>2
<1>4. FrameOK(child) /\ child.left + 1 <= f.left /\ child.at # "waiting"
  <2>1. f.left \in 1 .. MaxDepth /\ SubDepth(f.left) = f.left - 1
    BY <1>1, FrameTypes DEF SubDepth
  <2>2. SubDepth(f.left) \in 0 .. MaxDepth /\ SubDepth(f.left) + 1 <= f.left
    BY <2>1, BoundsAssumption
  <2>3. max \in Nat
    BY BoundsAssumption
  <2>4. <<r, 0>> \in Texts
    BY DEF Texts, Ids
  <2>5. FrameOK(child)
    BY <2>2, <2>3, <2>4, EmptyFacts, LoopOK
  <2>6. child.left = SubDepth(f.left) /\ child.at # "waiting"
    BY DEF Loop
  <2> QED
    BY <2>2, <2>5, <2>6
<1>5. f = fs[Len(fs)]
  BY DEF Top
<1>6. runs' = [runs EXCEPT ![r] = [@ EXCEPT !.frames = gs]]
  BY <1>2
<1> HIDE DEF f, w, child
<1>7. StackOK(gs) /\ gs # <<>>
  BY <1>1, <1>3, <1>4, <1>5, StackPush
<1> HIDE DEF gs
<1> QED
  BY <1>1, <1>6, <1>7, NewFrames

LEMMA ReturnMoves ==
  ASSUME NEW r \in Runs, RunsOK, SubagentEnds(r)
  PROVE  \E q \in RunStates : Moves(r, q)
<1> DEFINE fs == runs[r].frames
           n == Len(fs) - 1
           g == ToolDone(fs[n])
           gs == [SubSeq(fs, 1, n) EXCEPT ![n] = g]
<1>1. runs[r].pc = "loop" /\ StackOK(fs) /\ fs # <<>> /\ Len(fs) > 1
  BY TopFacts DEF SubagentEnds, InLoop
<1>2. n \in 1 .. Len(fs) /\ n < Len(fs) /\ fs \in Seq(Frames)
  BY <1>1 DEF StackOK
<1>3. FrameOK(fs[n]) /\ fs[n].at = "waiting" /\ fs[n] \in Frames
  BY <1>1, <1>2 DEF StackOK
<1>4. FrameOK(g) /\ g.left = fs[n].left /\ g.at = "tools"
  <2>1. FrameOK(g)
    BY <1>3, CallEnds
  <2>2. g.left = fs[n].left /\ g.at = "tools"
    BY <1>3 DEF ToolDone, Frames
  <2> QED
    BY <2>1, <2>2
<1>5. runs' = [runs EXCEPT ![r] = [@ EXCEPT !.frames = gs]]
  BY DEF SubagentEnds
<1> HIDE DEF g
<1>6. StackOK(gs) /\ gs # <<>>
  BY <1>1, <1>4, StackPop
<1> HIDE DEF gs
<1> QED
  BY <1>1, <1>5, <1>6, NewFrames

\* What a run saves is well formed: the turns of its session and its own.
LEMMA EndMoves ==
  ASSUME NEW r \in Runs, RunsOK, RunEnds(r)
  PROVE  \E q \in RunStates : Moves(r, q)
<1> DEFINE f == Top(r)
           saved == f.prior \o EventsToTurns(f.built)
           q == [runs[r] EXCEPT !.pc = "saveOpen", !.frames = <<>>, !.turns = saved]
<1>1. /\ runs[r].pc = "loop" /\ FrameOK(f) /\ f \in Frames /\ RunOK(runs[r])
      /\ runs[r] \in RunStates
  BY TopFacts DEF RunEnds, InLoop, RunsOK
<1>2. CASE f.at = "error"
  <2>1. runs' = [runs EXCEPT ![r] = Over(r)]
    BY <1>2 DEF RunEnds
  <2>2. Moves(r, Over(r)) /\ Over(r) \in RunStates
    BY <2>1, OverOK DEF Moves, RunOK
  <2> QED
    BY <2>2
<1>3. CASE f.at # "error"
  <2>1. runs' = [runs EXCEPT ![r] = q]
    BY <1>3 DEF RunEnds
  <2>2. f.at = "done"
    BY <1>3 DEF RunEnds, InLoop
  <2>3. Settled(f) /\ f.prior \in Seq(Turns) /\ f.said \in Seq(Turns)
    BY <1>1, <2>2 DEF FrameOK, Frames
  <2>4. EventsToTurns(f.built) = StoredForm(f.said)
    <3> DEFINE stored == StoredForm(f.said)
    <3>0. stored \in Seq(Turns)
      BY <2>3, StoredFormSeq
    <3>1. f.built.turns = stored /\ f.built.open = <<>> /\ stored \o <<>> = stored
      BY <3>0, <2>3, BuiltFacts DEF Settled
    <3> QED
      BY <3>1, BuiltFacts DEF EventsToTurns, CloseTurn
  <2>5. saved \in Seq(Turns) /\ WellFormed(saved) /\ saved # <<>>
    <3>1. WellFormed(f.prior \o f.said) /\ f.said # <<>>
      BY <2>3 DEF Settled, Matches
    <3>2. /\ f.prior \o StoredForm(f.said) \in Seq(Turns)
          /\ WellFormed(f.prior \o StoredForm(f.said))
      BY <3>1, <2>3, StoredWellFormed
    <3>3. f.prior \o StoredForm(f.said) # <<>>
      <4> DEFINE stored == StoredForm(f.said)
                 c == f.prior \o stored
      <4>1. stored \in Seq(Turns) /\ Len(stored) = Len(f.said) /\ Len(f.said) \in Nat
        BY <2>3, StoredFormSeq
      <4>2. Len(f.said) > 0
        BY <3>1, <2>3
      <4> HIDE DEF stored
      <4>3. Len(c) = Len(f.prior) + Len(stored) /\ Len(f.prior) \in Nat
        BY <4>1, <2>3, ConcatFacts
      <4> HIDE DEF c
      <4> DEFINE had == Len(f.prior)
                 added == Len(f.said)
                 all == Len(c)
      <4>3a. all = had + added /\ had \in Nat /\ added \in Nat /\ added > 0
        BY <4>1, <4>2, <4>3
      <4> HIDE DEF had, added, all
      <4>3b. all > 0
        BY <4>3a
      <4>4. Len(c) > 0
        BY <4>3b DEF all
      <4>5. c # <<>>
        BY <4>4
      <4> QED
        BY <4>5 DEF c, stored
    <3> QED
      BY <3>2, <3>3, <2>4
  <2> HIDE DEF saved
  <2>6. /\ q \in RunStates /\ q.pc = "saveOpen" /\ q.sid = runs[r].sid /\ q.cwd = runs[r].cwd
        /\ q.turns = saved /\ q.fd = runs[r].fd /\ q.map = runs[r].map /\ q.frames = <<>>
    <3> DEFINE none == <<>>
    <3>1. none \in Seq(Frames)
      OBVIOUS
    <3> HIDE DEF none
    <3>2. LET p == [runs[r] EXCEPT !.pc = "saveOpen", !.frames = none, !.turns = saved] IN
          /\ p \in RunStates /\ p.pc = "saveOpen" /\ p.sid = runs[r].sid
          /\ p.cwd = runs[r].cwd /\ p.turns = saved /\ p.fd = runs[r].fd
          /\ p.map = runs[r].map /\ p.frames = none
      BY <3>1, <1>1, <2>5 DEF RunStates
    <3> QED
      BY <3>2 DEF none
  <2> HIDE DEF q
  <2>7. runs[r].fd = {} /\ runs[r].sid \in Ids /\ runs[r].cwd \in Cwds
    BY <1>1 DEF RunOK, Opened
  <2>8. RunOK(q)
    BY <2>5, <2>6, <2>7, EmptyFacts DEF RunOK
  <2>9. Moves(r, q)
    BY <2>1, <2>6, <2>7, <2>8 DEF Moves
  <2> QED
    BY <2>6, <2>9
<1> QED
  BY <1>2, <1>3

LEMMA LoopMoves ==
  ASSUME NEW r \in Runs, RunsOK, LoopStep(r)
  PROVE  (\E q \in RunStates : Moves(r, q)) /\ UNCHANGED <<files, unsaved>>
<1>1. \E q \in RunStates : Moves(r, q)
  BY AskMoves, RespondMoves, ToolMoves, FinishMoves, SpawnMoves, ReturnMoves, EndMoves
     DEF LoopStep
<1>2. UNCHANGED <<files, unsaved>>
  BY DEF LoopStep, WithinBudget, Compress, Respond, LlmFails, RunTool, SpawnSubagent,
         StepEnds, SubagentEnds, RunEnds
<1> QED
  BY <1>1, <1>2

-------------------------------------------------------------------------------
(* The sessions directory.                                                   *)

Contents(n) ==
  IF n[1] \in {"session", "sessionTmp"} THEN {c \in Seq(Turns) : WellFormed(c)} ELSE Maps

FileTypes == [exists : BOOLEAN, data : Seq(Turns) \cup Maps]
Fine(fs) ==
  /\ fs \in [Names -> FileTypes]
  /\ \A n \in Names : fs[n].data \in Contents(n)
FilesOK == Fine(files) /\ unsaved \subseteq Ids

LEMMA NameFacts ==
  /\ IndexName \in Names
  /\ \A id \in Ids : SessionName(id) \in Names /\ TmpName(id) \in Names
                     /\ IndexTmpName(id) \in Names
  /\ \A id : SessionName(id)[1] = "session" /\ TmpName(id)[1] = "sessionTmp"
             /\ IndexTmpName(id)[1] = "indexTmp"
  /\ IndexName[1] = "index"
  /\ \A id, i : SessionName(id) = SessionName(i) => id = i
  /\ \A id, i : TmpName(id) = TmpName(i) => id = i
BY DEF Names, IndexName, SessionName, TmpName, IndexTmpName

LEMMA BlankFacts ==
  ASSUME NEW n \in Names
  PROVE  Blank(n) \in Contents(n)
BY EmptyFacts DEF Blank, Contents

LEMMA ContentsTypes ==
  ASSUME NEW n \in Names, NEW data \in Contents(n)
  PROVE  data \in Seq(Turns) \cup Maps
BY DEF Contents

LEMMA StoredFacts ==
  ASSUME NEW id \in Stored
  PROVE  StoredTurns(id) \in Seq(Turns) /\ WellFormed(StoredTurns(id)) /\ StoredTurns(id) # <<>>
<1> DEFINE u == UserTurn(<<id, 0>>)
           calls == {ToolCall(<<id, 1, 1>>, "plain")}
           ids == {<<id, 1, 1>>}
           a == AssistantTurn(<<id, 1>>, calls)
           t == ToolTurn(ids)
           b == AssistantTurn(<<id, 2>>, {})
<1>1. /\ calls \in SUBSET ToolCalls /\ calls # {}
      /\ ids \in SUBSET CallIds /\ ids # {} /\ IdsOf(calls) = ids
      /\ <<id, 0>> \in Texts /\ <<id, 1>> \in Texts /\ <<id, 2>> \in Texts
  BY DEF ToolCalls, ToolCall, CallIds, Arguments, IdsOf, Texts, Ids
<1>2. u \in Turns /\ a \in Turns /\ t \in Turns /\ b \in Turns
  BY <1>1, TurnTypes
<1>3. /\ u.role = "user" /\ u.calls = {} /\ a.role = "assistant" /\ a.calls = calls
      /\ t.role = "tool" /\ t.calls = {} /\ t.results = ids
      /\ b.role = "assistant" /\ b.calls = {}
  BY TurnFacts
<1> DEFINE s == <<u, a, t, b>>
<1> HIDE DEF u, a, t, b, calls, ids
<1>4. /\ s \in Seq(Turns) /\ Len(s) = 4 /\ DOMAIN s = {1, 2, 3, 4} /\ s # <<>>
      /\ s[1] = u /\ s[2] = a /\ s[3] = t /\ s[4] = b
  BY <1>2
<1> HIDE DEF s
<1>5. Spoken(s, "tool") = {3}
  BY <1>3, <1>4 DEF Spoken
<1>6. WellFormed(s)
  <2>1. ToolTurnsFollowCalls(s)
    BY <1>1, <1>3, <1>4, <1>5 DEF ToolTurnsFollowCalls
  <2>2. CallsAreAnswered(s)
    BY <1>3, <1>4 DEF CallsAreAnswered
  <2> QED
    BY <2>1, <2>2 DEF WellFormed
<1>7. StoredTurns(id) = s
  BY DEF StoredTurns, s, u, a, t, b, calls, ids
<1> QED
  BY <1>4, <1>6, <1>7

LEMMA TypesInit ==
  ASSUME AgentInit
  PROVE  RunsOK /\ FilesOK
<1>1. RunsOK
  <2>1. RunOK(NotStarted) /\ NotStarted \in RunStates
    BY OutsideOK DEF NotStarted, RunOK
  <2> QED
    BY <2>1 DEF AgentInit, RunsOK
<1>2. ASSUME NEW n \in Names
      PROVE  files[n] \in FileTypes
             /\ files[n].data \in Contents(n)
  <2>1. CASE n[1] = "session" /\ n[2] \in Stored
    <3>1. files[n] = [exists |-> TRUE, data |-> StoredTurns(n[2])]
      BY <2>1 DEF AgentInit, Holds
    <3> QED
      BY <2>1, <3>1, StoredFacts DEF Contents, FileTypes
  <2>2. CASE ~(n[1] = "session" /\ n[2] \in Stored)
    <3>1. files[n] = [exists |-> FALSE, data |-> Blank(n)]
      BY <2>2 DEF AgentInit, Absent
    <3> QED
      BY <3>1, BlankFacts, ContentsTypes DEF FileTypes
  <2> QED
    BY <2>1, <2>2
<1>3. FilesOK
  BY <1>2 DEF AgentInit, FilesOK, Fine
<1> QED
  BY <1>1, <1>3

LEMMA BeginMoves ==
  ASSUME NEW r \in Runs, RunsOK, runs[r].pc = "idle",
         NEW c \in Cwds, NEW id \in Ids, NEW prior \in Seq(Turns), WellFormed(prior),
         Begin(r, c, id, prior)
  PROVE  \E q \in RunStates : Moves(r, q)
<1> DEFINE f == Loop(prior, <<r, 0>>, MaxIterations, MaxDepth)
           fs == <<f>>
           p == runs[r]
           q == [p EXCEPT !.pc = "loop", !.cwd = c, !.sid = id, !.frames = fs]
<1>1. p \in RunStates /\ RunOK(p) /\ p.sid = NoSession /\ p.fd = {}
  BY DEF RunsOK, RunOK, Opened
<1>2. FrameOK(f) /\ f.left = MaxDepth /\ f.at # "waiting"
  <2>1. <<r, 0>> \in Texts /\ MaxIterations \in Nat /\ MaxDepth \in 0 .. MaxDepth
    BY BoundsAssumption DEF Texts, Ids
  <2>2. f.left = MaxDepth /\ f.at # "waiting"
    BY DEF Loop
  <2> QED
    BY <2>1, <2>2, LoopOK
<1> HIDE DEF f
<1>3. StackOK(fs) /\ fs # <<>>
  <2>1. f \in Frames
    BY <1>2, FrameTypes
  <2>2. fs \in Seq(Frames) /\ Len(fs) = 1 /\ fs[1] = f /\ fs # <<>>
    BY <2>1
  <2> HIDE DEF fs
  <2> QED
    BY <1>2, <2>2, BoundsAssumption DEF StackOK
<1> HIDE DEF fs, p
<1>4. fs \in Seq(Frames)
  BY <1>3 DEF StackOK
<1>5. /\ q \in RunStates /\ q.pc = "loop" /\ q.sid = id /\ q.cwd = c
      /\ q.turns = p.turns /\ q.fd = p.fd /\ q.map = p.map /\ q.frames = fs
  BY <1>1, <1>4 DEF RunStates
<1>6. runs' = [runs EXCEPT ![r] = q]
  BY DEF Begin, p, q, fs, f
<1> HIDE DEF q
<1>7. RunOK(q)
  BY <1>1, <1>3, <1>5 DEF RunOK
<1>8. NoSession \notin Ids
  BY SessionsAssumption DEF Ids
<1>9. Moves(r, q)
  BY <1>1, <1>5, <1>6, <1>7, <1>8 DEF Moves, p
<1> QED
  BY <1>5, <1>9

LEMMA StartMoves ==
  ASSUME NEW r \in Runs, RunsOK, FilesOK, StartNew(r) \/ Resume(r) \/ Kill(r)
  PROVE  (\E q \in RunStates : Moves(r, q)) /\ UNCHANGED <<files, unsaved>>
<1>1. Over(r) \in RunStates /\ (runs' = [runs EXCEPT ![r] = Over(r)] => Moves(r, Over(r)))
  BY OverOK DEF Moves, RunOK
<1>2. CASE StartNew(r)
  <2>1. PICK c \in Cwds : Begin(r, c, r, <<>>)
    BY <1>2 DEF StartNew
  <2>2. r \in Ids /\ runs[r].pc = "idle"
    BY <1>2 DEF StartNew, Ids
  <2> DEFINE none == <<>>
  <2>3. none \in Seq(Turns) /\ WellFormed(none) /\ Begin(r, c, r, none)
    BY <2>1, EmptyFacts
  <2> HIDE DEF none
  <2>4. \E q \in RunStates : Moves(r, q)
    BY <2>2, <2>3, BeginMoves
  <2> QED
    BY <2>4, <1>2 DEF StartNew
<1>3. CASE Resume(r)
  <2>1. PICK c \in Cwds, id \in Ids :
          LET file == files[SessionName(id)] IN
          IF file.data # <<>> THEN Begin(r, c, id, file.data)
          ELSE runs' = [runs EXCEPT ![r] = Over(r)]
    BY <1>3 DEF Resume
  <2> DEFINE data == files[SessionName(id)].data
  <2>2. data \in Seq(Turns) /\ WellFormed(data)
    <3>1. SessionName(id) \in Names /\ SessionName(id)[1] = "session"
      BY NameFacts
    <3> QED
      BY <3>1 DEF FilesOK, Fine, Contents
  <2>3. runs[r].pc = "idle"
    BY <1>3 DEF Resume
  <2>4. Begin(r, c, id, data) \/ runs' = [runs EXCEPT ![r] = Over(r)]
    BY <2>1
  <2> HIDE DEF data
  <2>5. \E q \in RunStates : Moves(r, q)
    <3>1. CASE Begin(r, c, id, data)
      BY <3>1, <2>2, <2>3, BeginMoves
    <3>2. CASE runs' = [runs EXCEPT ![r] = Over(r)]
      BY <3>2, <1>1
    <3> QED
      BY <2>4, <3>1, <3>2
  <2> QED
    BY <2>5, <1>3 DEF Resume
<1>4. CASE Kill(r)
  <2>1. runs' = [runs EXCEPT ![r] = Over(r)] /\ UNCHANGED <<files, unsaved>>
    BY <1>4 DEF Kill
  <2> QED
    BY <2>1, <1>1
<1> QED
  BY <1>2, <1>3, <1>4

-------------------------------------------------------------------------------
(* The steps of a run in the store: what they leave of runs and files.       *)

LEMMA RunPut ==
  ASSUME NEW r \in Runs, RunsOK, NEW q, RunOK(q), runs' = [runs EXCEPT ![r] = q]
  PROVE  RunsOK'
<1>1. q \in RunStates /\ runs \in [Runs -> RunStates]
  BY DEF RunOK, RunsOK
<1>2. runs' \in [Runs -> RunStates]
  BY <1>1
<1>3. \A p \in Runs : RunOK(runs'[p])
  BY <1>1 DEF RunsOK
<1>4. \A p \in Runs : RunOK(runs[p])'
  BY <1>3 DEF RunOK, Opened
<1> QED
  BY <1>2, <1>4 DEF RunsOK

LEMMA FilePut ==
  ASSUME NEW fs, Fine(fs), NEW n \in Names, NEW e \in BOOLEAN, NEW data \in Contents(n)
  PROVE  Fine([fs EXCEPT ![n] = [exists |-> e, data |-> data]])
<1> DEFINE file == [exists |-> e, data |-> data]
           gs == [fs EXCEPT ![n] = file]
<1>1. file \in FileTypes /\ file.data = data
  BY ContentsTypes DEF FileTypes
<1> HIDE DEF file
<1>2. gs \in [Names -> FileTypes]
  BY <1>1 DEF Fine
<1>3. \A m \in Names : gs[m] = IF m = n THEN file ELSE fs[m]
  BY DEF Fine
<1>4. \A m \in Names : gs[m].data \in Contents(m)
  BY <1>1, <1>3 DEF Fine
<1> QED
  BY <1>2, <1>4 DEF Fine, file

\* The names that a step of run r can change.
Own(r) == {TmpName(runs[r].sid), SessionName(runs[r].sid), IndexTmpName(runs[r].sid), IndexName}

LEMMA StoreNames ==
  ASSUME NEW r \in Runs, RunsOK, Saving(r) \/ Indexing(r)
  PROVE  /\ runs[r].sid \in Ids /\ runs[r].cwd \in Cwds /\ runs[r].fd \subseteq Own(r)
         /\ Temporary(r) \in Own(r) /\ Final(r) \in Own(r) /\ Own(r) \subseteq Names
         /\ Contents(Final(r)) = Contents(Temporary(r))
         /\ \A n \in runs[r].fd \cup {Temporary(r)} : Content(r) \in Contents(n)
<1>1. RunOK(runs[r]) /\ runs[r].sid \in Ids /\ runs[r].cwd \in Cwds
  BY DEF RunsOK, RunOK, Saving, Indexing
<1>2. Own(r) \subseteq Names
  BY <1>1, NameFacts DEF Own
<1>3. runs[r].turns \in Seq(Turns) /\ WellFormed(runs[r].turns) /\ runs[r].map \in Maps
  BY <1>1 DEF RunOK, RunStates
<1>4. CASE Saving(r)
  <2>1. runs[r].fd \subseteq {TmpName(runs[r].sid), SessionName(runs[r].sid)}
    BY <1>1, <1>4 DEF RunOK, Opened, Saving
  <2>2. Temporary(r) = TmpName(runs[r].sid) /\ Final(r) = SessionName(runs[r].sid)
        /\ Content(r) = runs[r].turns
    BY <1>4 DEF Temporary, Final, Content
  <2>3. /\ Contents(TmpName(runs[r].sid)) = {c \in Seq(Turns) : WellFormed(c)}
        /\ Contents(SessionName(runs[r].sid)) = {c \in Seq(Turns) : WellFormed(c)}
    BY NameFacts DEF Contents
  <2>4. \A n \in runs[r].fd \cup {Temporary(r)} : Content(r) \in Contents(n)
    BY <2>1, <2>2, <2>3, <1>3
  <2> QED
    BY <1>1, <1>2, <2>1, <2>2, <2>3, <2>4 DEF Own
<1>5. CASE ~Saving(r)
  <2>1. runs[r].fd \subseteq {IndexTmpName(runs[r].sid), IndexName}
    BY <1>1, <1>5 DEF RunOK, Opened, Saving, Indexing
  <2>2. Temporary(r) = IndexTmpName(runs[r].sid) /\ Final(r) = IndexName
        /\ Content(r) = [runs[r].map EXCEPT ![runs[r].cwd] = runs[r].sid]
    BY <1>5 DEF Temporary, Final, Content
  <2>3. Contents(IndexTmpName(runs[r].sid)) = Maps /\ Contents(IndexName) = Maps
    BY NameFacts DEF Contents
  <2>4. Content(r) \in Maps
    BY <2>2, <1>1, <1>3 DEF Maps
  <2>5. \A n \in runs[r].fd \cup {Temporary(r)} : Content(r) \in Contents(n)
    BY <2>1, <2>2, <2>3, <2>4
  <2> QED
    BY <1>1, <1>2, <2>1, <2>2, <2>3, <2>5 DEF Own
<1> QED
  BY <1>4, <1>5

LEMMA AfterStoreOK ==
  ASSUME NEW r \in Runs, RunsOK, Saving(r) \/ Indexing(r)
  PROVE  /\ RunOK(AfterStore(r)) /\ AfterStore(r).sid = runs[r].sid /\ AfterStore(r).fd = {}
         /\ AfterStore(r).map \in {runs[r].map, EmptyIndex}
         /\ Saving(r) => AfterStore(r).pc = "indexRead"
         /\ ~Saving(r) => AfterStore(r).pc = "over"
<1>1. CASE Saving(r)
  <2> DEFINE none == <<>>
             p == runs[r]
             q == [p EXCEPT !.pc = "indexRead", !.turns = none, !.fd = {}]
  <2>1. p \in RunStates /\ RunOK(p) /\ p.pc # "loop" /\ p.pc \notin {"idle", "over"}
    BY <1>1 DEF RunsOK, RunOK, Saving
  <2>2. none \in Seq(Turns) /\ WellFormed(none)
    BY EmptyFacts
  <2>3. AfterStore(r) = q
    BY <1>1 DEF AfterStore
  <2> HIDE DEF none, p
  <2>4. /\ q \in RunStates /\ q.pc = "indexRead" /\ q.sid = p.sid /\ q.cwd = p.cwd
        /\ q.turns = none /\ q.fd = {} /\ q.map = p.map /\ q.frames = p.frames
    BY <2>1, <2>2 DEF RunStates
  <2> HIDE DEF q
  <2>5. RunOK(q)
    BY <2>1, <2>2, <2>4 DEF RunOK
  <2> QED
    BY <1>1, <2>3, <2>4, <2>5 DEF p
<1>2. CASE ~Saving(r)
  <2>1. AfterStore(r) = Over(r)
    BY <1>2 DEF AfterStore
  <2> QED
    BY <2>1, <1>2, OverOK
<1> QED
  BY <1>1, <1>2

\* Run r at another place of its store, with this file open.
Stepped(r, pc, fd) == [runs[r] EXCEPT !.pc = pc, !.fd = fd]

LEMMA SteppedOK ==
  ASSUME NEW r \in Runs, RunsOK, Saving(r) \/ Indexing(r), NEW pc, NEW fd \in SUBSET Names,
         Saving(r) => /\ pc \in {"saveWrite", "saveRename"}
                      /\ fd \subseteq {TmpName(runs[r].sid), SessionName(runs[r].sid)},
         ~Saving(r) => /\ pc \in {"indexWrite", "indexRename"}
                       /\ fd \subseteq {IndexTmpName(runs[r].sid), IndexName}
  PROVE  /\ RunOK(Stepped(r, pc, fd)) /\ Stepped(r, pc, fd).pc = pc
         /\ Stepped(r, pc, fd).fd = fd /\ Stepped(r, pc, fd).sid = runs[r].sid
         /\ Stepped(r, pc, fd).map = runs[r].map
<1> DEFINE p == runs[r]
           q == [p EXCEPT !.pc = pc, !.fd = fd]
<1>1. p \in RunStates /\ RunOK(p)
  BY DEF RunsOK
<1>2. p.pc \notin {"loop", "idle", "over"}
  BY DEF Saving, Indexing
<1>3. pc \in {"saveWrite", "saveRename", "indexWrite", "indexRename"}
  OBVIOUS
<1>4. Saving(r) => p.turns # <<>>
  BY <1>1 DEF RunOK, Saving
<1> HIDE DEF p
<1>5. /\ q \in RunStates /\ q.pc = pc /\ q.sid = p.sid /\ q.cwd = p.cwd
      /\ q.turns = p.turns /\ q.fd = fd /\ q.map = p.map /\ q.frames = p.frames
  BY <1>1, <1>3 DEF RunStates
<1> HIDE DEF q
<1>6. fd \subseteq Opened(q)
  <2>1. CASE Saving(r)
    BY <2>1, <1>5 DEF Opened, p
  <2>2. CASE ~Saving(r)
    BY <2>2, <1>5 DEF Opened, p
  <2> QED
    BY <2>1, <2>2
<1>7. q.pc \in {"saveOpen", "saveWrite", "saveRename"} => q.turns # <<>>
  BY <1>4, <1>5
<1>8. RunOK(q)
  BY <1>1, <1>2, <1>3, <1>5, <1>6, <1>7 DEF RunOK
<1> QED
  BY <1>5, <1>8 DEF Stepped, p, q

\* Giving up.
LEMMA GiveUpTypes ==
  ASSUME NEW r \in Runs, RunsOK, FilesOK, Saving(r) \/ Indexing(r), GiveUp(r), files' = files
  PROVE  RunsOK' /\ FilesOK'
<1>1. RunsOK'
  BY AfterStoreOK, RunPut DEF GiveUp
<1>2. FilesOK'
  BY StoreNames DEF GiveUp, FilesOK, Fine, Contents
<1> QED
  BY <1>1, <1>2

Opens(r) ==
  /\ files' = [files EXCEPT ![Temporary(r)] = Holds(Blank(Temporary(r)))]
  /\ runs' = [runs EXCEPT ![r] = Stepped(r, IF Saving(r) THEN "saveWrite" ELSE "indexWrite",
                                         {Temporary(r)})]
  /\ UNCHANGED unsaved

LEMMA OpenTypes ==
  ASSUME NEW r \in Runs, RunsOK, FilesOK, Saving(r) \/ Indexing(r), Opens(r)
  PROVE  /\ RunsOK' /\ FilesOK'
         /\ LET q == Stepped(r, IF Saving(r) THEN "saveWrite" ELSE "indexWrite", {Temporary(r)}) IN
            /\ q.pc = (IF Saving(r) THEN "saveWrite" ELSE "indexWrite")
            /\ q.fd = {Temporary(r)} /\ q.sid = runs[r].sid /\ q.map = runs[r].map
<1> DEFINE pc == IF Saving(r) THEN "saveWrite" ELSE "indexWrite"
           q == Stepped(r, pc, {Temporary(r)})
<1>1. /\ {Temporary(r)} \in SUBSET Names
      /\ Saving(r) => {Temporary(r)} \subseteq {TmpName(runs[r].sid), SessionName(runs[r].sid)}
      /\ ~Saving(r) => {Temporary(r)} \subseteq {IndexTmpName(runs[r].sid), IndexName}
      /\ Temporary(r) \in Names
  BY StoreNames DEF Temporary
<1>2. /\ Saving(r) => pc \in {"saveWrite", "saveRename"}
      /\ ~Saving(r) => pc \in {"indexWrite", "indexRename"}
  OBVIOUS
<1> HIDE DEF pc
<1>3. RunOK(q) /\ q.pc = pc /\ q.fd = {Temporary(r)} /\ q.sid = runs[r].sid /\ q.map = runs[r].map
  BY <1>1, <1>2, SteppedOK
<1>4. runs' = [runs EXCEPT ![r] = q]
  BY DEF Opens, pc
<1> HIDE DEF q
<1>5. RunsOK'
  BY <1>3, <1>4, RunPut
<1>6. Blank(Temporary(r)) \in Contents(Temporary(r))
  BY <1>1, BlankFacts
<1>7. Fine(files')
  BY <1>1, <1>6, FilePut DEF Opens, Holds, FilesOK
<1>8. FilesOK'
  BY <1>7 DEF Opens, FilesOK, Fine, Contents
<1> QED
  BY <1>3, <1>5, <1>8 DEF pc, q

Writes(r) ==
  /\ \E mixed \in BOOLEAN :
        /\ mixed => \E n \in runs[r].fd : files[n].data \notin {Blank(n), Content(r)}
        /\ files' = [n \in Names |->
                       IF n \notin runs[r].fd THEN files[n]
                       ELSE Holds(IF mixed THEN Blank(n) ELSE Content(r))]
  /\ runs' = [runs EXCEPT ![r] = Stepped(r, IF Saving(r) THEN "saveRename" ELSE "indexRename", {})]
  /\ UNCHANGED unsaved

LEMMA WriteTypes ==
  ASSUME NEW r \in Runs, RunsOK, FilesOK, Saving(r) \/ Indexing(r), Writes(r)
  PROVE  /\ RunsOK' /\ FilesOK'
         /\ LET q == Stepped(r, IF Saving(r) THEN "saveRename" ELSE "indexRename", {}) IN
            /\ q.pc = (IF Saving(r) THEN "saveRename" ELSE "indexRename")
            /\ q.fd = {} /\ q.sid = runs[r].sid /\ q.map = runs[r].map
<1> DEFINE pc == IF Saving(r) THEN "saveRename" ELSE "indexRename"
           q == Stepped(r, pc, {})
<1>1. {} \in SUBSET Names
  OBVIOUS
<1>2. /\ Saving(r) => pc \in {"saveWrite", "saveRename"}
      /\ ~Saving(r) => pc \in {"indexWrite", "indexRename"}
  OBVIOUS
<1> HIDE DEF pc
<1>3. RunOK(q) /\ q.pc = pc /\ q.fd = {} /\ q.sid = runs[r].sid /\ q.map = runs[r].map
  BY <1>1, <1>2, SteppedOK
<1>4. runs' = [runs EXCEPT ![r] = q]
  BY DEF Writes, pc
<1> HIDE DEF q
<1>5. RunsOK'
  BY <1>3, <1>4, RunPut
<1>6. PICK mixed \in BOOLEAN :
        files' = [n \in Names |->
                    IF n \notin runs[r].fd THEN files[n]
                    ELSE Holds(IF mixed THEN Blank(n) ELSE Content(r))]
  BY DEF Writes
<1>7. ASSUME NEW n \in Names
      PROVE  files'[n] \in FileTypes /\ files'[n].data \in Contents(n)
  <2>1. CASE n \notin runs[r].fd
    <3>1. files'[n] = files[n]
      BY <1>6, <2>1
    <3> QED
      BY <3>1 DEF FilesOK, Fine
  <2>2. CASE n \in runs[r].fd
    <3> DEFINE data == IF mixed THEN Blank(n) ELSE Content(r)
    <3>1. files'[n] = [exists |-> TRUE, data |-> data]
      BY <1>6, <2>2 DEF Holds
    <3>2. data \in Contents(n)
      BY <2>2, StoreNames, BlankFacts
    <3> HIDE DEF data
    <3> QED
      BY <3>1, <3>2, ContentsTypes DEF FileTypes
  <2> QED
    BY <2>1, <2>2
<1>8. Fine(files')
  BY <1>6, <1>7 DEF Fine
<1>9. FilesOK'
  BY <1>8 DEF Writes, FilesOK, Fine, Contents
<1> QED
  BY <1>3, <1>5, <1>9 DEF pc, q

Renames(r) ==
  /\ files[Temporary(r)].exists
  /\ files' = [files EXCEPT ![Final(r)] = files[Temporary(r)],
                            ![Temporary(r)] = Absent(Temporary(r))]
  /\ runs' = [q \in Runs |-> IF q = r THEN AfterStore(r)
                             ELSE [runs[q] EXCEPT !.fd = Moved(@, Temporary(r), Final(r))]]
  /\ UNCHANGED unsaved

\* The files of other runs stay within the names they may have.
LEMMA MovedOpened ==
  ASSUME NEW r \in Runs, NEW q \in Runs, RunsOK, Saving(r) \/ Indexing(r)
  PROVE  /\ Moved(runs[q].fd, Temporary(r), Final(r)) \subseteq Opened(runs[q])
         /\ runs[q].fd = {TmpName(runs[q].sid)} /\ runs[q].sid # runs[r].sid =>
              Moved(runs[q].fd, Temporary(r), Final(r)) = runs[q].fd
<1>1. runs[q].fd \subseteq Opened(runs[q])
  BY DEF RunsOK, RunOK
<1>2. \A id, i : /\ TmpName(id) # SessionName(i) /\ TmpName(id) # IndexTmpName(i)
                 /\ TmpName(id) # IndexName /\ SessionName(id) # IndexTmpName(i)
                 /\ SessionName(id) # IndexName /\ IndexTmpName(id) # IndexName
  BY DEF TmpName, SessionName, IndexTmpName, IndexName
<1>3. CASE Saving(r)
  <2>1. Temporary(r) = TmpName(runs[r].sid) /\ Final(r) = SessionName(runs[r].sid)
    BY <1>3 DEF Temporary, Final
  <2>2. TmpName(runs[r].sid) \in runs[q].fd => SessionName(runs[r].sid) \in Opened(runs[q])
    <3> SUFFICES ASSUME TmpName(runs[r].sid) \in runs[q].fd
                 PROVE  SessionName(runs[r].sid) \in Opened(runs[q])
      OBVIOUS
    <3>1. TmpName(runs[r].sid) \in Opened(runs[q])
      BY <1>1
    <3>2. /\ runs[q].pc \in {"saveOpen", "saveWrite", "saveRename"}
          /\ TmpName(runs[r].sid) = TmpName(runs[q].sid)
      BY <3>1, <1>2 DEF Opened
    <3>3. runs[r].sid = runs[q].sid
      BY <3>2, NameFacts
    <3> QED
      BY <3>2, <3>3 DEF Opened
  <2>3. Moved(runs[q].fd, Temporary(r), Final(r)) \subseteq Opened(runs[q])
    BY <1>1, <2>1, <2>2 DEF Moved
  <2>4. runs[q].fd = {TmpName(runs[q].sid)} /\ runs[q].sid # runs[r].sid =>
              Moved(runs[q].fd, Temporary(r), Final(r)) = runs[q].fd
    BY <1>2, <2>1, NameFacts DEF Moved
  <2> QED
    BY <2>3, <2>4
<1>4. CASE ~Saving(r)
  <2>1. Temporary(r) = IndexTmpName(runs[r].sid) /\ Final(r) = IndexName
    BY <1>4 DEF Temporary, Final
  <2>2. IndexTmpName(runs[r].sid) \in runs[q].fd => IndexName \in Opened(runs[q])
    BY <1>1, <1>2 DEF Opened
  <2>3. Moved(runs[q].fd, Temporary(r), Final(r)) \subseteq Opened(runs[q])
    BY <1>1, <2>1, <2>2 DEF Moved
  <2>4. runs[q].fd = {TmpName(runs[q].sid)} =>
              Moved(runs[q].fd, Temporary(r), Final(r)) = runs[q].fd
    BY <1>2, <2>1 DEF Moved
  <2> QED
    BY <2>3, <2>4
<1> QED
  BY <1>3, <1>4

LEMMA RenameTypes ==
  ASSUME NEW r \in Runs, RunsOK, FilesOK, Saving(r) \/ Indexing(r), Renames(r)
  PROVE  /\ RunsOK' /\ FilesOK'
         /\ runs'[r] = AfterStore(r)
         /\ \A q \in Runs \ {r} :
              /\ runs'[q].pc = runs[q].pc /\ runs'[q].sid = runs[q].sid
              /\ runs'[q].map = runs[q].map
              /\ runs'[q].fd = Moved(runs[q].fd, Temporary(r), Final(r))
<1>1. ASSUME NEW q \in Runs, q # r
      PROVE  /\ RunOK(runs'[q]) /\ runs'[q] \in RunStates
             /\ runs'[q].pc = runs[q].pc /\ runs'[q].sid = runs[q].sid
             /\ runs'[q].map = runs[q].map
             /\ runs'[q].fd = Moved(runs[q].fd, Temporary(r), Final(r))
  <2> DEFINE fd == Moved(runs[q].fd, Temporary(r), Final(r))
             p == runs[q]
             g == [p EXCEPT !.fd = fd]
  <2>1. runs'[q] = g
    BY <1>1 DEF Renames
  <2>2. RunOK(p) /\ p \in RunStates
    BY DEF RunsOK
  <2>3. fd \subseteq Opened(p)
    BY MovedOpened
  <2>4. fd \in SUBSET Names
    BY <2>2, StoreNames DEF Moved, RunStates
  <2> HIDE DEF p, fd
  <2>5. /\ g \in RunStates /\ g.pc = p.pc /\ g.sid = p.sid /\ g.cwd = p.cwd
        /\ g.turns = p.turns /\ g.fd = fd /\ g.map = p.map /\ g.frames = p.frames
    BY <2>2, <2>4 DEF RunStates
  <2> HIDE DEF g
  <2>6. Opened(g) = Opened(p)
    BY <2>5 DEF Opened
  <2>7. RunOK(g)
    BY <2>2, <2>3, <2>5, <2>6 DEF RunOK
  <2> QED
    BY <2>1, <2>5, <2>7 DEF p, fd
<1>2. runs'[r] = AfterStore(r) /\ RunOK(AfterStore(r)) /\ AfterStore(r) \in RunStates
  BY AfterStoreOK DEF Renames, RunOK
<1>3. runs' \in [Runs -> RunStates] /\ \A q \in Runs : RunOK(runs'[q])
  <2>1. \A q \in Runs : runs'[q] \in RunStates /\ RunOK(runs'[q])
    BY <1>1, <1>2
  <2>2. runs' = [q \in Runs |-> runs'[q]]
    BY DEF Renames
  <2> HIDE DEF RunStates
  <2> QED
    BY <2>1, <2>2
<1>4. RunsOK'
  BY <1>3 DEF RunsOK, RunOK, Opened
<1>5. Fine(files')
  <2> DEFINE file == files[Temporary(r)]
             fs == [files EXCEPT ![Final(r)] = file]
  <2>1. Temporary(r) \in Names /\ Final(r) \in Names
    BY StoreNames
  <2>2. file = [exists |-> file.exists, data |-> file.data] /\ file.exists \in BOOLEAN
    BY <2>1 DEF FilesOK, Fine, FileTypes
  <2>3. file.data \in Contents(Final(r))
    BY <2>1, StoreNames DEF FilesOK, Fine
  <2> HIDE DEF file
  <2>4. Fine([files EXCEPT ![Final(r)] = [exists |-> file.exists, data |-> file.data]])
    BY <2>1, <2>2, <2>3, FilePut DEF FilesOK
  <2>5. Fine(fs)
    BY <2>2, <2>4
  <2>6. files' = [fs EXCEPT ![Temporary(r)] = [exists |-> FALSE, data |-> Blank(Temporary(r))]]
    BY DEF Renames, Absent, file
  <2> HIDE DEF fs
  <2> QED
    BY <2>1, <2>5, <2>6, BlankFacts, FilePut
<1>6. FilesOK'
  BY <1>5 DEF Renames, FilesOK, Fine, Contents
<1> QED
  BY <1>1, <1>2, <1>4, <1>6

LEMMA ReadTypes ==
  ASSUME NEW r \in Runs, RunsOK, FilesOK, ReadIndex(r)
  PROVE  /\ RunsOK' /\ FilesOK' /\ UNCHANGED <<files, unsaved>>
         /\ \E q \in RunStates : /\ runs' = [runs EXCEPT ![r] = q]
                                 /\ q.pc = "indexOpen" /\ q.sid = runs[r].sid
                                 /\ q.fd = {} /\ q.map = files[IndexName].data
<1> DEFINE p == runs[r]
           map == files[IndexName].data
           q == [p EXCEPT !.pc = "indexOpen", !.map = map]
<1>1. p \in RunStates /\ RunOK(p) /\ p.pc = "indexRead" /\ p.fd = {}
  BY DEF RunsOK, RunOK, ReadIndex, Opened
<1>2. map \in Maps
  BY NameFacts DEF FilesOK, Fine, Contents
<1>3. runs' = [runs EXCEPT ![r] = q] /\ UNCHANGED <<files, unsaved>>
  BY DEF ReadIndex
<1> HIDE DEF p, map
<1>4. /\ q \in RunStates /\ q.pc = "indexOpen" /\ q.sid = p.sid /\ q.cwd = p.cwd
      /\ q.turns = p.turns /\ q.fd = p.fd /\ q.map = map /\ q.frames = p.frames
  BY <1>1, <1>2 DEF RunStates
<1> HIDE DEF q
<1>5. RunOK(q)
  BY <1>1, <1>4 DEF RunOK
<1>6. RunsOK'
  BY <1>3, <1>5, RunPut
<1>7. FilesOK'
  BY <1>3 DEF FilesOK, Fine, Contents
<1> QED
  BY <1>1, <1>3, <1>4, <1>6, <1>7 DEF p, map

LEMMA StoreSteps ==
  ASSUME NEW r \in Runs, StoreStep(r)
  PROVE  \/ ReadIndex(r)
         \/ /\ Saving(r) \/ Indexing(r)
            /\ \/ Opens(r) /\ runs[r].pc \in {"saveOpen", "indexOpen"}
               \/ Writes(r) /\ runs[r].pc \in {"saveWrite", "indexWrite"}
               \/ Renames(r) /\ runs[r].pc \in {"saveRename", "indexRename"}
               \/ GiveUp(r) /\ files' = files
<1>1. CASE OpenTmp(r)
  BY <1>1 DEF OpenTmp, Opens, Stepped, Saving, Indexing
<1>2. CASE WriteTmp(r)
  BY <1>2 DEF WriteTmp, Writes, Stepped, Saving, Indexing
<1>3. CASE RenameTmp(r)
  BY <1>3 DEF RenameTmp, Renames, Saving, Indexing
<1> QED
  BY <1>1, <1>2, <1>3 DEF StoreStep

LEMMA TypesStep ==
  ASSUME RunsOK, FilesOK, [AgentNext]_agentVars
  PROVE  RunsOK' /\ FilesOK'
<1>1. ASSUME NEW r \in Runs, AgentStep(r)
      PROVE  RunsOK' /\ FilesOK'
  <2>1. CASE StoreStep(r)
    BY <2>1, StoreSteps, ReadTypes, OpenTypes, WriteTypes, RenameTypes, GiveUpTypes
  <2>2. CASE ~StoreStep(r)
    <3>1. (\E q \in RunStates : Moves(r, q)) /\ UNCHANGED <<files, unsaved>>
      BY <1>1, <2>2, LoopMoves, StartMoves DEF AgentStep
    <3>2. RunsOK'
      BY <3>1, RunPut DEF Moves
    <3>3. FilesOK'
      BY <3>1 DEF FilesOK, Fine, Contents
    <3> QED
      BY <3>2, <3>3
  <2> QED
    BY <2>1, <2>2
<1>2. CASE UNCHANGED agentVars
  BY <1>2 DEF agentVars, RunsOK, RunOK, Opened, FilesOK, Fine, Contents
<1> QED
  BY <1>1, <1>2 DEF AgentNext

LEMMA Types == AgentSpec => [](RunsOK /\ FilesOK)
<1>1. AgentInit => RunsOK /\ FilesOK
  BY TypesInit
<1>2. (RunsOK /\ FilesOK) /\ [AgentNext]_agentVars => (RunsOK /\ FilesOK)'
  BY TypesStep
<1> QED
  BY <1>1, <1>2, PTL DEF AgentSpec

\* The types, and that no sub-agent is deeper than max_subagent_depth
\* (loop_runner.rs, build_tools; subagents.rs, execute).
THEOREM AgentTypes == AgentSpec => []AgentTypeOK
<1>1. RunsOK /\ FilesOK => AgentTypeOK
  <2> SUFFICES ASSUME RunsOK, FilesOK PROVE AgentTypeOK
    OBVIOUS
  <2>1. ASSUME NEW r \in Runs
        PROVE  Len(runs[r].frames) <= MaxDepth + 1
    <3> DEFINE fs == runs[r].frames
    <3>1. StackOK(fs)
      BY DEF RunsOK, RunOK
    <3> HIDE DEF fs
    <3>2. ASSUME fs = <<>> PROVE Len(fs) <= MaxDepth + 1
      <4>1. Len(fs) = 0
        BY <3>2
      <4> QED
        BY <4>1, BoundsAssumption
    <3>3. ASSUME fs # <<>> PROVE Len(fs) <= MaxDepth + 1
      <4>1. Len(fs) \in 1 .. Len(fs) /\ Len(fs) \in Nat
        BY <3>1, <3>3, StackTop
      <4>2. /\ fs[Len(fs)].left + Len(fs) <= MaxDepth + 1
            /\ fs[Len(fs)].left \in Nat
        BY <3>1, <4>1, FrameTypes DEF StackOK
      <4> DEFINE n == Len(fs)
                 left == fs[Len(fs)].left
      <4>3. left + n <= MaxDepth + 1 /\ left \in Nat /\ n \in Nat
        BY <4>1, <4>2
      <4> HIDE DEF n, left
      <4>4. n <= MaxDepth + 1
        BY <4>3, BoundsAssumption
      <4> QED
        BY <4>4 DEF n
    <3>4. Len(fs) <= MaxDepth + 1
      BY <3>2, <3>3
    <3> QED
      BY <3>4 DEF fs
  <2>2. ASSUME NEW n \in Names
        PROVE  files[n] \in [exists : BOOLEAN, data : Contents(n)]
    BY DEF FilesOK, Fine, FileTypes
  <2>3. ASSUME NEW id \in Ids \cup {NoSession}
        PROVE  /\ files[SessionName(id)] \in [exists : BOOLEAN, data : Seq(Turns)]
               /\ files[TmpName(id)] \in [exists : BOOLEAN, data : Seq(Turns)]
               /\ files[<<"index", id>>] \in [exists : BOOLEAN, data : Maps]
               /\ files[IndexTmpName(id)] \in [exists : BOOLEAN, data : Maps]
    <3>1. /\ SessionName(id) \in Names /\ TmpName(id) \in Names
          /\ <<"index", id>> \in Names /\ IndexTmpName(id) \in Names
      BY DEF Names, SessionName, TmpName, IndexTmpName
    <3>2. /\ Contents(SessionName(id)) \subseteq Seq(Turns)
          /\ Contents(TmpName(id)) \subseteq Seq(Turns)
          /\ Contents(<<"index", id>>) = Maps /\ Contents(IndexTmpName(id)) = Maps
      BY DEF Contents, SessionName, TmpName, IndexTmpName
    <3> QED
      BY <3>1, <3>2, <2>2
  <2>4. DOMAIN files = Names /\ unsaved \subseteq Ids /\ runs \in [Runs -> RunStates]
    BY DEF FilesOK, Fine, RunsOK
  <2> QED
    BY <2>1, <2>3, <2>4 DEF AgentTypeOK
<1> QED
  BY <1>1, Types, PTL

\* Every request of run_loop is well formed and has the latest prompt and results,
\* however often the context was compressed (loop_runner.rs; compression.rs).
THEOREM Requests == AgentSpec => []RequestsWellFormed
<1>1. RunsOK => RequestsWellFormed
  <2> SUFFICES ASSUME RunsOK, NEW r \in Runs, InLoop(r, "ask")
               PROVE  /\ WellFormed(Top(r).conv)
                      /\ \A role \in {"user", "tool"} :
                           Latest(Top(r).conv, role) = Latest(Top(r).prior \o Top(r).said, role)
    BY DEF RequestsWellFormed
  <2>1. FrameOK(Top(r)) /\ Top(r).at = "ask"
    BY TopFacts DEF InLoop
  <2> QED
    BY <2>1 DEF FrameOK, Settled, Matches
<1> QED
  BY <1>1, Types, PTL

\* What internal_events_to_turns rebuilds is what run_loop said, with the arguments
\* of its calls parsed and written again (aikit_agent_adapter.rs).
THEOREM SavedTurns == AgentSpec => []SavedTurnsFaithful
<1>1. RunsOK => SavedTurnsFaithful
  <2> SUFFICES ASSUME RunsOK, NEW r \in Runs, InLoop(r, "done")
               PROVE  EventsToTurns(Top(r).built) = StoredForm(Top(r).said)
    BY DEF SavedTurnsFaithful, StoredForm
  <2> DEFINE stored == StoredForm(Top(r).said)
  <2>1. FrameOK(Top(r)) /\ Top(r).at = "done" /\ Top(r).said \in Seq(Turns)
    BY TopFacts DEF InLoop, Frames
  <2>2. stored \in Seq(Turns)
    BY <2>1, StoredFormSeq
  <2>3. Top(r).built.turns = stored /\ Top(r).built.open = <<>> /\ stored \o <<>> = stored
    BY <2>1, <2>2, BuiltFacts DEF FrameOK, Settled
  <2> QED
    BY <2>3, BuiltFacts DEF EventsToTurns, CloseTurn
<1> QED
  BY <1>1, Types, PTL

-------------------------------------------------------------------------------
(* The index names saved sessions.                                           *)

\* Session id may be in the index.
Named(id) ==
  \/ id \in unsaved
  \/ /\ files[SessionName(id)].exists
     /\ files[SessionName(id)].data # <<>> \/ Shared(id)
Lists(map) == \A c \in Cwds : map[c] \in Ids => Named(map[c])

\* The index, what is being written to become it, and what the runs hold.  A run
\* that shares its session with no other renames a whole file, and writes it to
\* an empty one of its own.
Indexed == \A n \in Names : n[1] \in {"index", "indexTmp"} => Lists(files[n].data)
RunStore(q) ==
  LET sid == runs[q].sid IN
  /\ Lists(runs[q].map)
  /\ runs[q].pc \in {"indexRead", "indexOpen", "indexWrite", "indexRename"} => Named(sid)
  /\ runs[q].pc = "saveRename" /\ files[TmpName(sid)].exists /\ ~Shared(sid) =>
       files[TmpName(sid)].data # <<>>
  /\ runs[q].pc = "saveWrite" /\ ~Shared(sid) =>
       runs[q].fd = {TmpName(sid)} /\ files[TmpName(sid)].data = <<>>
StoreOK == Indexed /\ \A q \in Runs : RunStore(q)

SidsKept == \A q \in Runs : runs[q].sid \in Ids => runs'[q].sid = runs[q].sid

LEMMA SharedStays ==
  ASSUME SidsKept, NEW id \in Ids, Shared(id)
  PROVE  Shared(id)'
BY DEF SidsKept, Shared

LEMMA NamedStays ==
  ASSUME SidsKept, unsaved \subseteq unsaved', NEW id \in Ids, Named(id),
         \/ files'[SessionName(id)] = files[SessionName(id)]
         \/ /\ files'[SessionName(id)].exists
            /\ files'[SessionName(id)].data # <<>> \/ Shared(id)'
  PROVE  Named(id)'
<1>1. Shared(id) => Shared(id)'
  BY SharedStays
<1> QED
  BY <1>1 DEF Named

LEMMA ListsStay ==
  ASSUME \A id \in Ids : Named(id) => Named(id)', NEW map, Lists(map)
  PROVE  \A c \in Cwds : map[c] \in Ids => Named(map[c])'
BY DEF Lists

LEMMA EmptyLists == Lists(EmptyIndex)
<1>1. NoSession \notin Ids
  BY SessionsAssumption DEF Ids
<1> QED
  BY <1>1 DEF Lists, EmptyIndex

\* A step of run r leaves what holds of another run.
LEMMA OthersStay ==
  ASSUME NEW r \in Runs, NEW q \in Runs, q # r, RunsOK, RunStore(q), SidsKept,
         \A id \in Ids : Named(id) => Named(id)',
         runs'[q].pc = runs[q].pc, runs'[q].sid = runs[q].sid, runs'[q].map = runs[q].map,
         runs[q].fd = {TmpName(runs[q].sid)} /\ runs[q].sid # runs[r].sid =>
            runs'[q].fd = runs[q].fd,
         runs[q].sid \in Ids /\ runs[q].sid # runs[r].sid =>
            files'[TmpName(runs[q].sid)] = files[TmpName(runs[q].sid)]
  PROVE  RunStore(q)'
<1> DEFINE sid == runs[q].sid
<1>1. \A c \in Cwds : runs[q].map[c] \in Ids => Named(runs[q].map[c])'
  BY ListsStay DEF RunStore
<1>2. Lists(runs[q].map)'
  BY <1>1 DEF Lists
<1>3. runs[q].pc \notin {"idle", "over"} => sid \in Ids
  BY DEF RunsOK, RunOK
<1>4. runs[q].pc \in {"indexRead", "indexOpen", "indexWrite", "indexRename"} => Named(sid)'
  BY <1>3 DEF RunStore
<1>5. ASSUME runs[q].pc \in {"saveRename", "saveWrite"}, ~Shared(sid)'
      PROVE  ~Shared(sid) /\ sid \in Ids /\ sid # runs[r].sid
  <2>1. sid \in Ids
    BY <1>3, <1>5
  <2>2. ~Shared(sid)
    BY <2>1, <1>5, SharedStays
  <2>3. sid # runs[r].sid
    BY <2>2 DEF Shared
  <2> QED
    BY <2>1, <2>2, <2>3
<1>6. ASSUME runs[q].pc = "saveRename", files'[TmpName(sid)].exists, ~Shared(sid)'
      PROVE  files'[TmpName(sid)].data # <<>>
  BY <1>5, <1>6 DEF RunStore
<1>7. ASSUME runs[q].pc = "saveWrite", ~Shared(sid)'
      PROVE  runs'[q].fd = {TmpName(sid)} /\ files'[TmpName(sid)].data = <<>>
  BY <1>5, <1>7 DEF RunStore
<1>8. Shared(runs[q].sid)' = Shared(sid)' /\ Named(runs[q].sid)' = Named(sid)'
  BY DEF Shared, Named
<1> QED
  BY <1>2, <1>4, <1>6, <1>7, <1>8 DEF RunStore

\* What a step of run r has to show of it and of the index.
LEMMA MineStays ==
  ASSUME NEW r \in Runs, NEW p, runs'[r] = p,
         \A c \in Cwds : p.map[c] \in Ids => Named(p.map[c])',
         p.pc \in {"indexRead", "indexOpen", "indexWrite", "indexRename"} => Named(p.sid)',
         p.pc = "saveRename" /\ files'[TmpName(p.sid)].exists /\ ~Shared(p.sid)' =>
            files'[TmpName(p.sid)].data # <<>>,
         p.pc = "saveWrite" /\ ~Shared(p.sid)' =>
            p.fd = {TmpName(p.sid)} /\ files'[TmpName(p.sid)].data = <<>>
  PROVE  RunStore(r)'
<1>1. Lists(p.map)'
  BY DEF Lists
<1>2. Lists(runs[r].map)'
  BY <1>1 DEF Lists, Named, Shared
<1>3. Shared(runs[r].sid)' = Shared(p.sid)' /\ Named(runs[r].sid)' = Named(p.sid)'
  BY DEF Shared, Named
<1> QED
  BY <1>2, <1>3 DEF RunStore

LEMMA IndexedStays ==
  ASSUME Indexed, \A id \in Ids : Named(id) => Named(id)',
         \A n \in Names : n[1] \in {"index", "indexTmp"} =>
            \/ files'[n].data = EmptyIndex
            \/ \E m \in Names : m[1] \in {"index", "indexTmp"} /\ files'[n].data = files[m].data
            \/ \A c \in Cwds, id \in Ids : files'[n].data[c] = id => Named(id)'
  PROVE  Indexed'
<1>1. ASSUME NEW n \in Names, n[1] \in {"index", "indexTmp"}, NEW c \in Cwds,
             NEW id \in Ids, files'[n].data[c] = id
      PROVE  Named(id)'
  <2>1. CASE files'[n].data = EmptyIndex
    <3>1. NoSession \notin Ids
      BY SessionsAssumption DEF Ids
    <3> QED
      BY <1>1, <2>1, <3>1 DEF EmptyIndex
  <2>2. CASE \E m \in Names : m[1] \in {"index", "indexTmp"} /\ files'[n].data = files[m].data
    <3>1. PICK m \in Names : m[1] \in {"index", "indexTmp"} /\ files'[n].data = files[m].data
      BY <2>2
    <3>2. Named(id)
      BY <1>1, <3>1 DEF Indexed, Lists
    <3> QED
      BY <3>2
  <2> QED
    BY <1>1, <2>1, <2>2
<1>2. ASSUME NEW n \in Names, n[1] \in {"index", "indexTmp"}
      PROVE  Lists(files[n].data)'
  <2>1. ASSUME NEW c \in Cwds, files'[n].data[c] \in Ids
        PROVE  Named(files[n].data[c])'
    <3>1. PICK id \in Ids : files'[n].data[c] = id
      BY <2>1
    <3>2. Named(id)'
      BY <1>1, <1>2, <3>1
    <3> QED
      BY <3>1, <3>2 DEF Named, Shared
  <2> QED
    BY <2>1 DEF Lists
<1> QED
  BY <1>2 DEF Indexed

LEMMA StoreInit ==
  ASSUME AgentInit
  PROVE  StoreOK
<1>1. ASSUME NEW n \in Names, n[1] \in {"index", "indexTmp"}
      PROVE  Lists(files[n].data)
  <2>1. files[n] = [exists |-> FALSE, data |-> Blank(n)]
    BY <1>1 DEF AgentInit, Absent
  <2>2. files[n].data = EmptyIndex
    BY <1>1, <2>1 DEF Blank
  <2> QED
    BY <2>2, EmptyLists
<1>2. ASSUME NEW q \in Runs
      PROVE  RunStore(q)
  <2>1. runs[q].pc = "idle" /\ runs[q].map = EmptyIndex
    BY OutsideOK DEF AgentInit, NotStarted
  <2> QED
    BY <2>1, EmptyLists DEF RunStore
<1> QED
  BY <1>1, <1>2 DEF StoreOK, Indexed

LEMMA QuietStore ==
  ASSUME NEW r \in Runs, NEW q \in RunStates, RunsOK, StoreOK, Moves(r, q),
         UNCHANGED <<files, unsaved>>
  PROVE  StoreOK'
<1>1. /\ runs'[r] = q /\ \A p \in Runs \ {r} : runs'[p] = runs[p]
      /\ q.map \in {runs[r].map, EmptyIndex} /\ q.pc \in {"loop", "over", "saveOpen"}
  BY DEF Moves, RunsOK
<1>2. SidsKept
  BY <1>1 DEF SidsKept, Moves
<1>3. \A id \in Ids : Named(id) => Named(id)'
  BY <1>2, NamedStays
<1>4. Indexed'
  BY <1>3, IndexedStays DEF StoreOK
<1>5. RunStore(r)'
  <2>1. RunStore(r)
    BY DEF StoreOK
  <2>2. \A c \in Cwds : q.map[c] \in Ids => Named(q.map[c])
    BY <1>1, <2>1, EmptyLists DEF RunStore, Lists
  <2>3. \A c \in Cwds : q.map[c] \in Ids => Named(q.map[c])'
    BY <1>3, <2>2
  <2> QED
    BY <1>1, <2>3, MineStays
<1>6. \A p \in Runs \ {r} : RunStore(p)'
  BY <1>1, <1>2, <1>3, OthersStay DEF StoreOK
<1> QED
  BY <1>4, <1>5, <1>6 DEF StoreOK

\* Distinct names of the directory.
LEMMA Distinct ==
  ASSUME NEW r \in Runs, Saving(r) \/ Indexing(r)
  PROVE  /\ Temporary(r) # Final(r)
         /\ \A id \in Ids : SessionName(id) # Temporary(r)
         /\ \A id \in Ids : id # runs[r].sid => TmpName(id) # Temporary(r)
         /\ \A id \in Ids : TmpName(id) # Final(r)
         /\ Saving(r) => \A n \in Names : n[1] \in {"index", "indexTmp"} =>
                            n # Temporary(r) /\ n # Final(r)
BY DEF Temporary, Final, SessionName, TmpName, IndexTmpName, IndexName, Names

LEMMA Others ==
  ASSUME NEW r \in Runs, NEW p, runs' = [runs EXCEPT ![r] = p], p.sid = runs[r].sid,
         RunsOK, StoreOK, \A id \in Ids : Named(id) => Named(id)',
         \A id \in Ids : id # runs[r].sid => files'[TmpName(id)] = files[TmpName(id)]
  PROVE  \A q \in Runs \ {r} : RunStore(q)'
<1>1. \A q \in Runs \ {r} : runs'[q] = runs[q]
  BY DEF RunsOK
<1>2. SidsKept
  BY DEF SidsKept, RunsOK
<1> QED
  BY <1>1, <1>2, OthersStay DEF StoreOK

LEMMA GiveUpStore ==
  ASSUME NEW r \in Runs, RunsOK, StoreOK, Saving(r) \/ Indexing(r), GiveUp(r), files' = files
  PROVE  StoreOK'
<1>1. PICK p \in RunStates :
        /\ runs' = [runs EXCEPT ![r] = p] /\ p.sid = runs[r].sid
        /\ p.map \in {runs[r].map, EmptyIndex}
        /\ Saving(r) => p.pc = "indexRead"
        /\ ~Saving(r) => p.pc = "over"
  <2>1. AfterStore(r) \in RunStates
    BY AfterStoreOK DEF RunOK
  <2> QED
    BY <2>1, AfterStoreOK DEF GiveUp
<1>2. runs'[r] = p /\ SidsKept
  BY <1>1 DEF RunsOK, SidsKept
<1>3. \A id \in Ids : Named(id) => Named(id)'
  BY <1>2, NamedStays DEF GiveUp
<1>4. Indexed'
  BY <1>3, IndexedStays DEF StoreOK
<1>5. RunStore(r)'
  <2>1. RunStore(r)
    BY DEF StoreOK
  <2>2. \A c \in Cwds : p.map[c] \in Ids => Named(p.map[c])
    BY <1>1, <2>1, EmptyLists DEF RunStore, Lists
  <2>3. \A c \in Cwds : p.map[c] \in Ids => Named(p.map[c])'
    BY <1>3, <2>2
  <2>4. Saving(r) => Named(p.sid)'
    BY <1>1 DEF GiveUp, Named
  <2> QED
    BY <1>1, <1>2, <2>3, <2>4, MineStays
<1>6. \A q \in Runs \ {r} : RunStore(q)'
  BY <1>1, <1>3, Others
<1> QED
  BY <1>4, <1>5, <1>6 DEF StoreOK

LEMMA OpenStore ==
  ASSUME NEW r \in Runs, RunsOK, FilesOK, StoreOK, Saving(r) \/ Indexing(r), Opens(r),
         runs[r].pc \in {"saveOpen", "indexOpen"}
  PROVE  StoreOK'
<1>1. PICK p :
        /\ runs' = [runs EXCEPT ![r] = p] /\ p.sid = runs[r].sid /\ p.map = runs[r].map
        /\ p.pc = (IF Saving(r) THEN "saveWrite" ELSE "indexWrite")
        /\ p.fd = {Temporary(r)}
  BY OpenTypes DEF Opens
<1>2. runs'[r] = p /\ SidsKept
  BY <1>1 DEF RunsOK, SidsKept
<1>3. /\ Temporary(r) \in Names /\ files'[Temporary(r)].data = Blank(Temporary(r))
      /\ \A n \in Names : n # Temporary(r) => files'[n] = files[n]
  BY StoreNames DEF Opens, FilesOK, Fine, Holds
<1>4. \A id \in Ids : Named(id) => Named(id)'
  BY <1>2, <1>3, Distinct, NameFacts, NamedStays DEF Opens
<1>5. Indexed'
  <2>1. ASSUME NEW n \in Names, n[1] \in {"index", "indexTmp"}
        PROVE  files'[n].data = EmptyIndex \/ files'[n] = files[n]
    BY <1>3, <2>1 DEF Blank
  <2> QED
    BY <1>4, <2>1, IndexedStays DEF StoreOK
<1>6. RunStore(r)'
  <2>1. RunStore(r)
    BY DEF StoreOK
  <2>2. \A c \in Cwds : p.map[c] \in Ids => Named(p.map[c])'
    BY <1>1, <1>4, <2>1 DEF RunStore, Lists
  <2>3. ~Saving(r) => Named(p.sid)'
    BY <1>1, <1>4, <2>1, StoreNames DEF RunStore, Saving
  <2>4. Saving(r) => p.fd = {TmpName(p.sid)} /\ files'[TmpName(p.sid)].data = <<>>
    BY <1>1, <1>3, NameFacts DEF Temporary, Blank
  <2> QED
    BY <1>1, <1>2, <2>2, <2>3, <2>4, MineStays
<1>7. \A q \in Runs \ {r} : RunStore(q)'
  <2>1. \A id \in Ids : id # runs[r].sid => files'[TmpName(id)] = files[TmpName(id)]
    BY <1>3, Distinct, NameFacts
  <2> QED
    BY <1>1, <1>4, <2>1, Others
<1> QED
  BY <1>5, <1>6, <1>7 DEF StoreOK

LEMMA ReadStore ==
  ASSUME NEW r \in Runs, RunsOK, FilesOK, StoreOK, ReadIndex(r)
  PROVE  StoreOK'
<1>1. PICK p \in RunStates : /\ runs' = [runs EXCEPT ![r] = p]
                             /\ p.pc = "indexOpen" /\ p.sid = runs[r].sid
                             /\ p.fd = {} /\ p.map = files[IndexName].data
  BY ReadTypes
<1>2. runs'[r] = p /\ SidsKept /\ UNCHANGED <<files, unsaved>>
  BY <1>1, ReadTypes DEF RunsOK, SidsKept
<1>3. \A id \in Ids : Named(id) => Named(id)'
  BY <1>2, NamedStays
<1>4. Indexed'
  BY <1>2, <1>3, IndexedStays DEF StoreOK
<1>5. RunStore(r)'
  <2>1. RunStore(r) /\ runs[r].pc = "indexRead" /\ runs[r].sid \in Ids
    BY DEF StoreOK, ReadIndex, RunsOK, RunOK
  <2>2. \A c \in Cwds : p.map[c] \in Ids => Named(p.map[c])
    BY <1>1, NameFacts DEF StoreOK, Indexed, Lists
  <2>3. \A c \in Cwds : p.map[c] \in Ids => Named(p.map[c])'
    BY <1>3, <2>2
  <2>4. Named(p.sid)'
    BY <1>1, <1>3, <2>1 DEF RunStore
  <2> QED
    BY <1>1, <1>2, <2>3, <2>4, MineStays
<1>6. \A q \in Runs \ {r} : RunStore(q)'
  BY <1>1, <1>2, <1>3, Others
<1> QED
  BY <1>4, <1>5, <1>6 DEF StoreOK

\* Writing the session.
LEMMA WriteSession ==
  ASSUME NEW r \in Runs, RunsOK, FilesOK, StoreOK, Saving(r), Writes(r),
         runs[r].pc = "saveWrite"
  PROVE  StoreOK'
<1> DEFINE sid == runs[r].sid
<1>1. PICK p :
        /\ runs' = [runs EXCEPT ![r] = p] /\ p.sid = sid /\ p.map = runs[r].map
        /\ p.pc = "saveRename" /\ p.fd = {}
  BY WriteTypes DEF Writes
<1>2. runs'[r] = p /\ SidsKept
  BY <1>1 DEF RunsOK, SidsKept
<1>3. /\ sid \in Ids /\ RunStore(r) /\ runs[r].turns # <<>>
      /\ runs[r].fd \subseteq {TmpName(sid), SessionName(sid)}
      /\ Content(r) = runs[r].turns
  BY DEF RunsOK, RunOK, Opened, StoreOK, Content
<1>4. PICK mixed \in BOOLEAN :
        /\ mixed => \E n \in runs[r].fd : files[n].data \notin {Blank(n), Content(r)}
        /\ files' = [n \in Names |->
                       IF n \notin runs[r].fd THEN files[n]
                       ELSE Holds(IF mixed THEN Blank(n) ELSE Content(r))]
  BY DEF Writes
<1>5. \A n \in Names : n \notin runs[r].fd => files'[n] = files[n]
  BY <1>4
<1>6. \A id \in Ids : Named(id) => Named(id)'
  <2> SUFFICES ASSUME NEW id \in Ids, Named(id) PROVE Named(id)'
    OBVIOUS
  <2>1. SessionName(id) \in Names /\ unsaved \subseteq unsaved'
    BY NameFacts DEF Writes
  <2>2. CASE SessionName(id) \notin runs[r].fd
    BY <1>2, <1>5, <2>1, <2>2, NamedStays
  <2>3. CASE SessionName(id) \in runs[r].fd
    <3>1. files'[SessionName(id)].exists
      BY <1>4, <2>1, <2>3 DEF Holds
    <3>2. SessionName(id) # TmpName(sid)
      BY NameFacts
    <3>3. SessionName(id) = SessionName(sid)
      BY <1>3, <2>3, <3>2
    <3>4. id = sid
      BY <3>3, NameFacts
    <3>5. Shared(sid)
      BY <1>3, <2>3, <3>2 DEF RunStore
    <3>6. Shared(id)'
      BY <1>2, <3>4, <3>5, SharedStays
    <3> QED
      BY <1>2, <2>1, <3>1, <3>6, NamedStays
  <2> QED
    BY <2>2, <2>3
<1>7. Indexed'
  <2>1. \A n \in Names : n[1] \in {"index", "indexTmp"} => files'[n] = files[n]
    BY <1>3, <1>5, NameFacts
  <2> QED
    BY <1>6, <2>1, IndexedStays DEF StoreOK
<1>8. RunStore(r)'
  <2>1. \A c \in Cwds : p.map[c] \in Ids => Named(p.map[c])
    BY <1>1, <1>3 DEF RunStore, Lists
  <2>2. \A c \in Cwds : p.map[c] \in Ids => Named(p.map[c])'
    BY <1>6, <2>1
  <2>3. ASSUME ~Shared(p.sid)' PROVE files'[TmpName(p.sid)].data # <<>>
    <3> DEFINE tmp == TmpName(sid)
    <3>1. ~Shared(sid)
      <4>1. ~Shared(p.sid)
        BY <1>1, <1>2, <1>3, <2>3, SharedStays
      <4> QED
        BY <4>1, <1>1
    <3>2. runs[r].fd = {tmp} /\ files[tmp].data = <<>> /\ Blank(tmp) = <<>> /\ tmp \in Names
      BY <1>3, <3>1, NameFacts DEF RunStore, Blank
    <3> HIDE DEF tmp
    <3>3. ~mixed
      BY <1>4, <3>2
    <3>4. files'[tmp].data = runs[r].turns
      BY <1>3, <1>4, <3>2, <3>3 DEF Holds
    <3> QED
      BY <1>1, <1>3, <3>4 DEF tmp
  <2> QED
    BY <1>1, <1>2, <2>2, <2>3, MineStays
<1>9. \A q \in Runs \ {r} : RunStore(q)'
  <2>1. ASSUME NEW id \in Ids, id # sid PROVE files'[TmpName(id)] = files[TmpName(id)]
    <3>1. TmpName(id) \in Names /\ TmpName(id) # TmpName(sid) /\ TmpName(id) # SessionName(sid)
      BY <2>1, NameFacts
    <3> QED
      BY <1>3, <1>5, <3>1
  <2> QED
    BY <1>1, <1>6, <2>1, Others
<1> QED
  BY <1>7, <1>8, <1>9 DEF StoreOK

\* Writing the index.
LEMMA WriteIndex ==
  ASSUME NEW r \in Runs, RunsOK, FilesOK, StoreOK, Indexing(r), Writes(r),
         runs[r].pc = "indexWrite"
  PROVE  StoreOK'
<1> DEFINE sid == runs[r].sid
<1>0. ~Saving(r)
  BY DEF Saving
<1>1. PICK p :
        /\ runs' = [runs EXCEPT ![r] = p] /\ p.sid = sid /\ p.map = runs[r].map
        /\ p.pc = "indexRename" /\ p.fd = {}
  BY <1>0, WriteTypes DEF Writes
<1>2. runs'[r] = p /\ SidsKept
  BY <1>1 DEF RunsOK, SidsKept
<1>3. /\ sid \in Ids /\ RunStore(r) /\ Named(sid) /\ runs[r].map \in Maps
      /\ runs[r].fd \subseteq {IndexTmpName(sid), IndexName}
      /\ Content(r) = [runs[r].map EXCEPT ![runs[r].cwd] = sid]
  <2>1. RunOK(runs[r]) /\ RunStore(r)
    BY DEF RunsOK, StoreOK
  <2> QED
    BY <1>0, <2>1 DEF RunOK, RunStates, Opened, RunStore, Content
<1>4. PICK mixed \in BOOLEAN :
        files' = [n \in Names |->
                    IF n \notin runs[r].fd THEN files[n]
                    ELSE Holds(IF mixed THEN Blank(n) ELSE Content(r))]
  BY DEF Writes
<1>5. \A n \in Names : n[1] \in {"session", "sessionTmp"} => files'[n] = files[n]
  BY <1>3, <1>4, NameFacts
<1>6. \A id \in Ids : Named(id) => Named(id)'
  <2>1. \A id \in Ids : files'[SessionName(id)] = files[SessionName(id)]
    BY <1>5, NameFacts
  <2> QED
    BY <1>2, <2>1, NamedStays DEF Writes
<1>7. Indexed'
  <2>1. ASSUME NEW n \in Names, n[1] \in {"index", "indexTmp"}
        PROVE  \/ files'[n].data = EmptyIndex
               \/ files'[n].data = files[n].data
               \/ \A c \in Cwds, id \in Ids : files'[n].data[c] = id => Named(id)'
    <3>1. CASE n \notin runs[r].fd
      BY <1>4, <3>1
    <3>2. CASE n \in runs[r].fd /\ mixed
      BY <1>4, <2>1, <3>2 DEF Holds, Blank
    <3>3. CASE n \in runs[r].fd /\ ~mixed
      <4>1. files'[n].data = [runs[r].map EXCEPT ![runs[r].cwd] = sid]
        BY <1>3, <1>4, <3>3 DEF Holds
      <4>2. ASSUME NEW c \in Cwds, NEW id \in Ids, files'[n].data[c] = id
            PROVE  Named(id)'
        <5>1. id = sid \/ id = runs[r].map[c]
          BY <4>1, <4>2, <1>3 DEF Maps
        <5>2. Named(id)
          BY <4>2, <5>1, <1>3 DEF RunStore, Lists
        <5> QED
          BY <5>2, <1>6
      <4> QED
        BY <4>2
    <3> QED
      BY <3>1, <3>2, <3>3
  <2> QED
    BY <1>6, <2>1, IndexedStays DEF StoreOK
<1>8. RunStore(r)'
  <2>1. \A c \in Cwds : p.map[c] \in Ids => Named(p.map[c])
    BY <1>1, <1>3 DEF RunStore, Lists
  <2>2. \A c \in Cwds : p.map[c] \in Ids => Named(p.map[c])'
    BY <1>6, <2>1
  <2>3. Named(p.sid)'
    <3>1. Named(p.sid) /\ p.sid \in Ids
      BY <1>1, <1>3
    <3> QED
      BY <3>1, <1>6
  <2> QED
    BY <1>1, <1>2, <2>2, <2>3, MineStays
<1>9. \A q \in Runs \ {r} : RunStore(q)'
  <2>1. \A id \in Ids : files'[TmpName(id)] = files[TmpName(id)]
    BY <1>5, NameFacts
  <2> QED
    BY <1>1, <1>6, <2>1, Others
<1> QED
  BY <1>7, <1>8, <1>9 DEF StoreOK

LEMMA RenameSession ==
  ASSUME NEW r \in Runs, RunsOK, FilesOK, StoreOK, Saving(r), Renames(r),
         runs[r].pc = "saveRename"
  PROVE  StoreOK'
<1> DEFINE sid == runs[r].sid
<1>1. PICK p : /\ runs'[r] = p /\ p.sid = sid /\ p.pc = "indexRead"
               /\ p.map \in {runs[r].map, EmptyIndex}
  BY RenameTypes, AfterStoreOK
<1>2. /\ \A q \in Runs \ {r} :
            /\ runs'[q].pc = runs[q].pc /\ runs'[q].sid = runs[q].sid
            /\ runs'[q].map = runs[q].map
            /\ runs'[q].fd = Moved(runs[q].fd, Temporary(r), Final(r))
      /\ SidsKept
  BY <1>1, RenameTypes DEF SidsKept
<1>3. /\ sid \in Ids /\ RunStore(r) /\ Temporary(r) = TmpName(sid) /\ Final(r) = SessionName(sid)
      /\ TmpName(sid) \in Names /\ SessionName(sid) \in Names /\ TmpName(sid) # SessionName(sid)
  BY NameFacts DEF RunsOK, RunOK, StoreOK, Temporary, Final
<1>4. /\ files[TmpName(sid)].exists
      /\ files'[SessionName(sid)] = files[TmpName(sid)]
      /\ \A n \in Names \ {TmpName(sid), SessionName(sid)} : files'[n] = files[n]
  BY <1>3 DEF Renames, FilesOK, Fine
<1>5. files[TmpName(sid)].data # <<>> \/ Shared(sid)
  BY <1>3, <1>4 DEF RunStore
<1>6. ASSUME NEW id \in Ids, id = sid \/ Named(id)
      PROVE  Named(id)'
  <2>1. CASE id = sid
    <3>1. files'[SessionName(id)].exists
      BY <1>4, <2>1
    <3>2. files'[SessionName(id)].data # <<>> \/ Shared(id)
      BY <1>4, <1>5, <2>1
    <3>3. files'[SessionName(id)].data # <<>> \/ Shared(id)'
      BY <1>2, <3>2, SharedStays
    <3> QED
      BY <3>1, <3>3 DEF Named
  <2>2. CASE id # sid
    <3>1. files'[SessionName(id)] = files[SessionName(id)]
      BY <1>4, <2>2, NameFacts
    <3> QED
      BY <1>2, <1>6, <2>2, <3>1, NamedStays DEF Renames
  <2> QED
    BY <2>1, <2>2
<1>7. Indexed'
  <2>1. \A n \in Names : n[1] \in {"index", "indexTmp"} => files'[n] = files[n]
    BY <1>3, <1>4, NameFacts
  <2> QED
    BY <1>6, <2>1, IndexedStays DEF StoreOK
<1>8. RunStore(r)'
  <2>1. \A c \in Cwds : p.map[c] \in Ids => Named(p.map[c])
    BY <1>1, <1>3, EmptyLists DEF RunStore, Lists
  <2>2. \A c \in Cwds : p.map[c] \in Ids => Named(p.map[c])'
    BY <1>6, <2>1
  <2>3. Named(p.sid)'
    <3>1. p.sid \in Ids /\ p.sid = sid
      BY <1>1, <1>3
    <3> QED
      BY <3>1, <1>6
  <2> QED
    BY <1>1, <2>2, <2>3, MineStays
<1>9. ASSUME NEW q \in Runs, q # r PROVE RunStore(q)'
  <2>1. RunStore(q)
    BY DEF StoreOK
  <2>2. ASSUME runs[q].sid \in Ids, runs[q].sid # sid
        PROVE  files'[TmpName(runs[q].sid)] = files[TmpName(runs[q].sid)]
    <3>1. /\ TmpName(runs[q].sid) \in Names /\ TmpName(runs[q].sid) # TmpName(sid)
          /\ TmpName(runs[q].sid) # SessionName(sid)
      BY <2>2, NameFacts
    <3> QED
      BY <1>4, <3>1
  <2>3. runs[q].fd = {TmpName(runs[q].sid)} /\ runs[q].sid # sid => runs'[q].fd = runs[q].fd
    BY <1>2, <1>9, MovedOpened
  <2> QED
    BY <1>2, <1>6, <1>9, <2>1, <2>2, <2>3, OthersStay
<1> QED
  BY <1>7, <1>8, <1>9 DEF StoreOK

LEMMA RenameIndex ==
  ASSUME NEW r \in Runs, RunsOK, FilesOK, StoreOK, Indexing(r), Renames(r),
         runs[r].pc = "indexRename"
  PROVE  StoreOK'
<1> DEFINE sid == runs[r].sid
<1>0. ~Saving(r)
  BY DEF Saving
<1>1. PICK p : /\ runs'[r] = p /\ p.sid = sid /\ p.pc = "over"
               /\ p.map \in {runs[r].map, EmptyIndex}
  BY <1>0, RenameTypes, AfterStoreOK
<1>2. /\ \A q \in Runs \ {r} :
            /\ runs'[q].pc = runs[q].pc /\ runs'[q].sid = runs[q].sid
            /\ runs'[q].map = runs[q].map
            /\ runs'[q].fd = Moved(runs[q].fd, Temporary(r), Final(r))
      /\ SidsKept
  BY <1>1, RenameTypes DEF SidsKept
<1>3. /\ sid \in Ids /\ RunStore(r) /\ Temporary(r) = IndexTmpName(sid) /\ Final(r) = IndexName
      /\ IndexTmpName(sid) \in Names /\ IndexName \in Names /\ IndexTmpName(sid) # IndexName
  BY <1>0, NameFacts DEF RunsOK, RunOK, StoreOK, Temporary, Final
<1>4. /\ files'[IndexName] = files[IndexTmpName(sid)]
      /\ files'[IndexTmpName(sid)].data = EmptyIndex
      /\ \A n \in Names \ {IndexTmpName(sid), IndexName} : files'[n] = files[n]
  BY <1>3, NameFacts DEF Renames, FilesOK, Fine, Absent, Blank
<1>5. \A n \in Names : n[1] \in {"session", "sessionTmp"} => files'[n] = files[n]
  BY <1>4, NameFacts
<1>6. \A id \in Ids : Named(id) => Named(id)'
  <2>1. \A id \in Ids : files'[SessionName(id)] = files[SessionName(id)]
    BY <1>5, NameFacts
  <2> QED
    BY <1>2, <2>1, NamedStays DEF Renames
<1>7. Indexed'
  <2>1. ASSUME NEW n \in Names, n[1] \in {"index", "indexTmp"}
        PROVE  \/ files'[n].data = EmptyIndex
               \/ \E m \in Names : m[1] \in {"index", "indexTmp"} /\ files'[n].data = files[m].data
    <3>1. CASE n = IndexName
      BY <1>3, <1>4, <3>1, NameFacts
    <3>2. CASE n # IndexName
      BY <1>4, <2>1, <3>2
    <3> QED
      BY <3>1, <3>2
  <2> QED
    BY <1>6, <2>1, IndexedStays DEF StoreOK
<1>8. RunStore(r)'
  <2>1. \A c \in Cwds : p.map[c] \in Ids => Named(p.map[c])
    BY <1>1, <1>3, EmptyLists DEF RunStore, Lists
  <2>2. \A c \in Cwds : p.map[c] \in Ids => Named(p.map[c])'
    BY <1>6, <2>1
  <2> QED
    BY <1>1, <2>2, MineStays
<1>9. ASSUME NEW q \in Runs, q # r PROVE RunStore(q)'
  <2>1. RunStore(q)
    BY DEF StoreOK
  <2>2. runs[q].sid \in Ids => files'[TmpName(runs[q].sid)] = files[TmpName(runs[q].sid)]
    BY <1>5, NameFacts
  <2>3. runs[q].fd = {TmpName(runs[q].sid)} /\ runs[q].sid # sid => runs'[q].fd = runs[q].fd
    BY <1>2, <1>9, MovedOpened
  <2> QED
    BY <1>2, <1>6, <1>9, <2>1, <2>2, <2>3, OthersStay
<1> QED
  BY <1>7, <1>8, <1>9 DEF StoreOK

LEMMA StoreKept ==
  ASSUME RunsOK, FilesOK, StoreOK, [AgentNext]_agentVars
  PROVE  StoreOK'
<1>1. ASSUME NEW r \in Runs, AgentStep(r)
      PROVE  StoreOK'
  <2>1. CASE StoreStep(r)
    <3>1. CASE ReadIndex(r)
      BY <3>1, ReadStore
    <3>2. CASE (Saving(r) \/ Indexing(r)) /\ Opens(r) /\ runs[r].pc \in {"saveOpen", "indexOpen"}
      BY <3>2, OpenStore
    <3>3. CASE Writes(r) /\ runs[r].pc \in {"saveWrite", "indexWrite"}
      BY <3>3, WriteSession, WriteIndex DEF Saving, Indexing
    <3>4. CASE Renames(r) /\ runs[r].pc \in {"saveRename", "indexRename"}
      BY <3>4, RenameSession, RenameIndex DEF Saving, Indexing
    <3>5. CASE (Saving(r) \/ Indexing(r)) /\ GiveUp(r) /\ files' = files
      BY <3>5, GiveUpStore
    <3> QED
      BY <2>1, <3>1, <3>2, <3>3, <3>4, <3>5, StoreSteps
  <2>2. CASE ~StoreStep(r)
    <3>1. (\E q \in RunStates : Moves(r, q)) /\ UNCHANGED <<files, unsaved>>
      BY <1>1, <2>2, LoopMoves, StartMoves DEF AgentStep
    <3> QED
      BY <3>1, QuietStore
  <2> QED
    BY <2>1, <2>2
<1>2. CASE UNCHANGED agentVars
  BY <1>2 DEF agentVars, StoreOK, Indexed, RunStore, Lists, Named, Shared
<1> QED
  BY <1>1, <1>2 DEF AgentNext

\* Whatever is killed or fails in SessionStore::save and update_index, the index
\* names only sessions that are on disk (session_store.rs).
THEOREM IndexSaved == AgentSpec => []IndexNamesSaved
<1>1. AgentInit => StoreOK
  BY StoreInit
<1>2. (RunsOK /\ FilesOK) /\ StoreOK /\ [AgentNext]_agentVars => StoreOK'
  BY StoreKept
<1>3. StoreOK => IndexNamesSaved
  <2> SUFFICES ASSUME StoreOK, NEW c \in Cwds, NEW id \in Ids,
                      files[IndexName].data[c] = id, id \notin unsaved
               PROVE  /\ files[SessionName(id)].exists
                      /\ files[SessionName(id)].data # <<>> \/ Shared(id)
    BY DEF IndexNamesSaved
  <2>1. Named(id)
    BY NameFacts DEF StoreOK, Indexed, Lists
  <2> QED
    BY <2>1 DEF Named
<1> QED
  BY <1>1, <1>2, <1>3, Types, PTL DEF AgentSpec
===============================================================================
