--------------------------- MODULE LiveSessionProofs ---------------------------
(***************************************************************************)
(* Proofs about live sessions: the table of sessions (module LiveSession)   *)
(* for any finite set of requests and any max_sessions, and the two engines  *)
(* behind them (PiSession, CodexSession) for any number of calls and any     *)
(* bounds.                                                                  *)
(*                                                                         *)
(* The table: the check in Reserve reads a counter, and only its balance     *)
(* says what the counter means.  Pi: a reply carries no name, so the callers *)
(* must stand in the order of all that is between them and Pi, over two      *)
(* pipes and a channel into which others put their messages (RepliesInOrder).*)
(* Codex: turn_id is right because at most one request of the client's is    *)
(* under way, the last one written (OneRequest), so that no turn starts       *)
(* behind its back (TurnsKnown).                                            *)
(***************************************************************************)
EXTENDS LiveSession, PiSession, CodexSession, FiniteSetTheorems, TLAPS

IInv == LiveTypeOK /\ ReservationsBalance /\ LiveCapacityRespected /\ EndedSessionIsClosed

\* Every set of requests is finite and has a cardinality.
LEMMA RequestSets ==
  ASSUME NEW S \in SUBSET Requests
  PROVE  IsFiniteSet(S) /\ Cardinality(S) \in Nat
BY RequestsAssumption, FS_Subset, FS_CardinalityType

LEMMA MaxSessionsInNat == LiveTypeOK => max_sessions \in Nat
BY MaxLiveSessionsAssumption DEF LiveTypeOK

\* Dropping a reservation: the counter follows the set.
LEMMA ReleaseBalances ==
  ASSUME LiveTypeOK, ReservationsBalance, NEW r \in Requests,
         r \in Reserving, pending' = Released, Reserving' = Reserving \ {r}
  PROVE  ReservationsBalance'
<1>1. IsFiniteSet(Reserving)
  BY RequestSets DEF Reserving
<1>2. Cardinality(Reserving \ {r}) = Cardinality(Reserving) - 1
  BY <1>1, FS_RemoveElement
<1> QED
  BY <1>2 DEF ReservationsBalance, Released

\* A step by which nobody claims a slot keeps the cap.
LEMMA FewerClaims ==
  ASSUME LiveTypeOK, LiveCapacityRespected, Claimed' \subseteq Claimed,
         UNCHANGED max_sessions
  PROVE  LiveCapacityRespected'
<1>1. Claimed \in SUBSET Requests /\ Claimed' \in SUBSET Requests
  BY DEF Claimed, Active
<1>2. Cardinality(Claimed') <= Cardinality(Claimed)
  BY <1>1, RequestSets, FS_Subset
<1> QED
  BY <1>1, <1>2, RequestSets, MaxSessionsInNat DEF LiveCapacityRespected

\* A reservation is made only while the claims are below the cap.
LEMMA SlotMeansRoom ==
  ASSUME LiveTypeOK, ReservationsBalance, HasSlot
  PROVE  Cardinality(Claimed) + 1 <= max_sessions
<1>1. /\ Active \in SUBSET Requests
      /\ Reserving \in SUBSET Requests
      /\ Claimed \in SUBSET (Active \cup Reserving)
  BY DEF Active, Reserving, Claimed
<1>2. /\ IsFiniteSet(Active \cup Reserving)
      /\ Cardinality(Active \cup Reserving) <= Cardinality(Active) + Cardinality(Reserving)
  <2>1. /\ Cardinality(Active \cup Reserving)
             = Cardinality(Active) + Cardinality(Reserving)
                 - Cardinality(Active \cap Reserving)
        /\ IsFiniteSet(Active \cup Reserving)
    BY <1>1, RequestSets, FS_Union
  <2>2. Cardinality(Active \cap Reserving) \in Nat
    BY <1>1, RequestSets
  <2>3. Cardinality(Active) \in Nat /\ Cardinality(Reserving) \in Nat
    BY <1>1, RequestSets
  <2> QED
    BY <2>1, <2>2, <2>3
<1>3. Cardinality(Claimed) <= Cardinality(Active \cup Reserving)
  BY <1>1, <1>2, FS_Subset
<1>4. /\ Cardinality(Claimed) \in Nat
      /\ Cardinality(Active \cup Reserving) \in Nat
      /\ Cardinality(Active) \in Nat
  BY <1>1, RequestSets
<1>5. Cardinality(Active) + Cardinality(Reserving) < max_sessions
  BY DEF HasSlot, ReservationsBalance
<1> QED
  BY <1>2, <1>3, <1>4, <1>5, <1>1, RequestSets, MaxSessionsInNat

\* One step of a create request keeps the counter balanced and the cap.
LEMMA CreateCounts ==
  ASSUME LiveTypeOK, ReservationsBalance, LiveCapacityRespected,
         NEW r \in Requests, Create(r)
  PROVE  ReservationsBalance' /\ LiveCapacityRespected'
<1>1. CASE Reserve(r) /\ HasSlot
  <2>1. Reserving' = Reserving \cup {r} /\ r \notin Reserving
    BY <1>1 DEF Reserve, Reserving, LiveTypeOK
  <2>2. Cardinality(Reserving \cup {r}) = Cardinality(Reserving) + 1
    BY <2>1, RequestSets, FS_AddElement DEF Reserving
  <2>3. ReservationsBalance'
    BY <1>1, <2>1, <2>2 DEF Reserve, Reserved, ReservationsBalance
  <2>4. Claimed' = Claimed \cup {r}
    BY <1>1 DEF Reserve, Claimed, Active, LiveTypeOK
  <2>5. Cardinality(Claimed \cup {r}) <= Cardinality(Claimed) + 1
    BY RequestSets, FS_AddElement DEF Claimed, Active
  <2>6. Cardinality(Claimed) \in Nat /\ Cardinality(Claimed \cup {r}) \in Nat
    BY RequestSets DEF Claimed, Active
  <2>7. LiveCapacityRespected'
    BY <1>1, <2>4, <2>5, <2>6, SlotMeansRoom, MaxSessionsInNat
       DEF LiveCapacityRespected, Reserve
  <2> QED
    BY <2>3, <2>7
<1>2. CASE (Reserve(r) /\ ~HasSlot) \/ ReservePanics(r) \/ OpenAgent(r) \/ Insert(r)
  <2>1. Reserving' = Reserving /\ UNCHANGED <<pending, max_sessions>>
    BY <1>2 DEF Reserve, ReservePanics, OpenAgent, Insert, Reserving, LiveTypeOK
  <2>2. Claimed' \subseteq Claimed
    BY <1>2 DEF Reserve, ReservePanics, OpenAgent, Insert, Claimed, Active, LiveTypeOK
  <2> QED
    BY <2>1, <2>2, FewerClaims DEF ReservationsBalance
<1>3. CASE OpenFails(r) \/ InsertPanics(r) \/ Respond(r)
  <2>1. /\ r \in Reserving /\ Reserving' = Reserving \ {r}
        /\ pending' = Released /\ UNCHANGED max_sessions
    BY <1>3 DEF OpenFails, InsertPanics, Respond, Reserving, LiveTypeOK
  <2>2. Claimed' \subseteq Claimed
    BY <1>3 DEF OpenFails, InsertPanics, Respond, Claimed, Active, LiveTypeOK
  <2> QED
    BY <2>1, <2>2, ReleaseBalances, FewerClaims
<1> QED
  BY <1>1, <1>2, <1>3 DEF Create

\* Forwarders, control handlers, clients and agents reserve and claim nothing.
LEMMA OthersCount ==
  ASSUME LiveTypeOK, ReservationsBalance, LiveCapacityRespected,
         NEW r \in Requests, Forward(r) \/ Control(r) \/ Environment(r)
  PROVE  ReservationsBalance' /\ LiveCapacityRespected'
<1> USE DEF LiveTypeOK, Claimed, Active
<1>1. UNCHANGED <<open, pending, max_sessions>>
  BY DEF Forward, SendFirstFrame, SendFails, EventsEnd, MarkClosed, Control,
         ControlDisconnect, ControlContextUsage, Delete, Environment,
         LiveClientLeaves, Disconnected, AgentEnds
<1>2. Claimed' \subseteq Claimed
  <2>1. CASE Forward(r)
    BY <2>1, <1>1 DEF Forward, SendFirstFrame, SendFails, EventsEnd, MarkClosed,
                      ClosedRecord
  <2>2. CASE Control(r)
    BY <2>2, <1>1 DEF Control, ControlDisconnect, ControlContextUsage, Delete
  <2>3. CASE Environment(r)
    BY <2>3, <1>1 DEF Environment, LiveClientLeaves, Disconnected, AgentEnds
  <2> QED
    BY <2>1, <2>2, <2>3
<1>3. Reserving' = Reserving
  BY <1>1 DEF Reserving
<1> QED
  BY <1>1, <1>2, <1>3, FewerClaims DEF ReservationsBalance

\* No step takes a variable out of its type; that the counter stays a natural
\* number follows from its balance after the step.
LEMMA TypePreserved ==
  ASSUME LiveTypeOK, ReservationsBalance', NEW r \in Requests,
         Create(r) \/ Forward(r) \/ Control(r) \/ Environment(r)
  PROVE  LiveTypeOK'
<1>1. pending' \in Nat
  BY RequestSets DEF ReservationsBalance, Reserving
<1>2. CASE Create(r)
  BY <1>1, <1>2 DEF LiveTypeOK, Create, Reserve, ReservePanics, OpenAgent, OpenFails,
                    Insert, InsertPanics, Respond
<1>3. CASE Forward(r)
  BY <1>1, <1>3 DEF LiveTypeOK, Forward, SendFirstFrame, SendFails, EventsEnd,
                    MarkClosed, ClosedRecord, AfterFailedSend
<1>4. CASE Control(r)
  BY <1>1, <1>4 DEF LiveTypeOK, Control, ControlDisconnect, ControlContextUsage, Delete
<1>5. CASE Environment(r)
  BY <1>1, <1>5 DEF LiveTypeOK, Environment, LiveClientLeaves, Disconnected, AgentEnds
<1> QED
  BY <1>2, <1>3, <1>4, <1>5

\* A forwarder that ends closes its record, and no later step reopens it.
LEMMA EndedPreserved ==
  ASSUME LiveTypeOK, EndedSessionIsClosed, NEW r \in Requests,
         Create(r) \/ Forward(r) \/ Control(r) \/ Environment(r)
  PROVE  EndedSessionIsClosed'
<1> USE DEF LiveTypeOK, EndedSessionIsClosed
<1>1. CASE Create(r)
  BY <1>1 DEF Create, Reserve, ReservePanics, OpenAgent, OpenFails, Insert,
              InsertPanics, Respond
<1>2. CASE Forward(r)
  BY <1>2 DEF Forward, SendFirstFrame, SendFails, EventsEnd, MarkClosed,
              ClosedRecord, AfterFailedSend
<1>3. CASE Control(r)
  BY <1>3 DEF Control, ControlDisconnect, ControlContextUsage, Delete
<1>4. CASE Environment(r)
  BY <1>4 DEF Environment, LiveClientLeaves, Disconnected, AgentEnds
<1> QED
  BY <1>1, <1>2, <1>3, <1>4

LEMMA InitInvariant == LiveInit => IInv
<1> SUFFICES ASSUME LiveInit PROVE IInv
  OBVIOUS
<1>1. Reserving = {} /\ Claimed = {}
  BY DEF LiveInit, Reserving, Claimed, Active
<1>2. ReservationsBalance /\ LiveCapacityRespected
  BY <1>1, FS_EmptySet, MaxLiveSessionsAssumption
     DEF LiveInit, ReservationsBalance, LiveCapacityRespected
<1>3. LiveTypeOK /\ EndedSessionIsClosed
  BY DEF LiveInit, LiveTypeOK, EndedSessionIsClosed
<1> QED
  BY <1>2, <1>3 DEF IInv

LEMMA NextInvariant == IInv /\ [LiveNext]_liveVars => IInv'
<1> SUFFICES ASSUME IInv, [LiveNext]_liveVars PROVE IInv'
  OBVIOUS
<1> USE DEF IInv
<1>1. CASE LiveNext
  <2>1. PICK r \in Requests : Create(r) \/ Forward(r) \/ Control(r) \/ Environment(r)
    BY <1>1 DEF LiveNext
  <2>2. ReservationsBalance' /\ LiveCapacityRespected'
    BY <2>1, CreateCounts, OthersCount
  <2>3. LiveTypeOK'
    BY <2>1, <2>2, TypePreserved
  <2>4. EndedSessionIsClosed'
    BY <2>1, EndedPreserved
  <2> QED
    BY <2>2, <2>3, <2>4
<1>2. CASE UNCHANGED liveVars
  BY <1>2 DEF liveVars, LiveTypeOK, ReservationsBalance, Reserving, LiveCapacityRespected,
              Claimed, Active, EndedSessionIsClosed
<1> QED
  BY <1>1, <1>2

LEMMA Invariance == LiveSpec => []IInv
BY InitInvariant, NextInvariant, PTL DEF LiveSpec

\* Every variable keeps its type; in particular the counter never wraps.
THEOREM TypeCorrect == LiveSpec => []LiveTypeOK
<1>1. IInv => LiveTypeOK
  BY DEF IInv
<1> QED
  BY <1>1, Invariance, PTL

\* Every exit path of a create request gives its reservation back exactly once.
THEOREM ReservationsAlwaysBalance == LiveSpec => []ReservationsBalance
<1>1. IInv => ReservationsBalance
  BY DEF IInv
<1> QED
  BY <1>1, Invariance, PTL

\* No interleaving of creates, ends and deletes exceeds max_sessions.
THEOREM CapacityAlwaysRespected == LiveSpec => []LiveCapacityRespected
<1>1. IInv => LiveCapacityRespected
  BY DEF IInv
<1> QED
  BY <1>1, Invariance, PTL

\* The record of a session whose forwarder has ended is closed.
THEOREM EndedSessionsAreClosed == LiveSpec => []EndedSessionIsClosed
<1>1. IInv => EndedSessionIsClosed
  BY DEF IInv
<1> QED
  BY <1>1, Invariance, PTL

-------------------------------------------------------------------------------
(* Sequences.                                                                *)

LEMMA TailFacts ==
  ASSUME NEW S, NEW s \in Seq(S), s # <<>>
  PROVE  /\ Tail(s) \in Seq(S) /\ Len(Tail(s)) = Len(s) - 1 /\ Len(s) \in Nat \ {0}
         /\ Head(s) = s[1] /\ Head(s) \in S
         /\ \A i \in 1 .. Len(s) - 1 : Tail(s)[i] = s[i + 1]
         /\ DOMAIN s = 1 .. Len(s) /\ DOMAIN Tail(s) = 1 .. Len(s) - 1
OBVIOUS

LEMMA AppendFacts ==
  ASSUME NEW S, NEW s \in Seq(S), NEW x \in S
  PROVE  /\ Append(s, x) \in Seq(S) /\ Len(Append(s, x)) = Len(s) + 1 /\ Len(s) \in Nat
         /\ \A i \in 1 .. Len(s) : Append(s, x)[i] = s[i]
         /\ Append(s, x)[Len(s) + 1] = x
         /\ DOMAIN s = 1 .. Len(s) /\ DOMAIN Append(s, x) = 1 .. Len(s) + 1
OBVIOUS

LEMMA ConcatFacts ==
  ASSUME NEW S, NEW s \in Seq(S), NEW t \in Seq(S)
  PROVE  /\ s \o t \in Seq(S) /\ Len(s \o t) = Len(s) + Len(t)
         /\ Len(s) \in Nat /\ Len(t) \in Nat
         /\ DOMAIN (s \o t) = 1 .. Len(s) + Len(t)
         /\ \A i \in 1 .. Len(s) : (s \o t)[i] = s[i]
         /\ \A i \in 1 .. Len(t) : (s \o t)[Len(s) + i] = t[i]
OBVIOUS

-------------------------------------------------------------------------------
(* Callers in the order of their replies.                                    *)

\* f takes the callers in K, by their places in w, to the statistics in Q.
Enumerates(f, K, Q, w) ==
  /\ \A k \in K : Q[f[k]].kind = "stats" /\ Q[f[k]].call = w[k]
  /\ \A k, l \in K : k < l => f[k] < f[l]
  /\ \A i \in DOMAIN Q : Q[i].kind = "stats" => \E k \in K : f[k] = i

\* The statistics in Q are for callers in w, in their order and from the first on;
\* for all of them, if so said.
InOrder(Q, w, all) ==
  \E K \in SUBSET DOMAIN w :
     /\ \A k \in K : 1 .. k \subseteq K
     /\ all => K = DOMAIN w
     /\ \E f \in [K -> DOMAIN Q] : Enumerates(f, K, Q, w)

Kinds == Replies \cup {"prompt", "eof", "send", "ask", "disconnect"}
AnyMessage == Messages(Kinds)

\* Nothing but statistics counts, wherever it comes.
LEMMA InsertOther ==
  ASSUME NEW Q1 \in Seq(AnyMessage), NEW Q2 \in Seq(AnyMessage), NEW m \in AnyMessage,
         m.kind # "stats", NEW w \in Seq(Calls), NEW all \in BOOLEAN,
         InOrder(Q1 \o Q2, w, all)
  PROVE  InOrder(Append(Q1, m) \o Q2, w, all)
<1> DEFINE Q == Q1 \o Q2
           R == Append(Q1, m) \o Q2
           n == Len(Q1)
           up(i) == IF i <= n THEN i ELSE i + 1
<1>1. /\ n \in Nat /\ Len(Q2) \in Nat
      /\ DOMAIN Q = 1 .. n + Len(Q2) /\ DOMAIN R = 1 .. n + 1 + Len(Q2)
      /\ \A i \in 1 .. n : Q[i] = Q1[i] /\ R[i] = Q1[i]
      /\ R[n + 1] = m
      /\ \A i \in 1 .. Len(Q2) : Q[n + i] = Q2[i] /\ R[n + 1 + i] = Q2[i]
  BY ConcatFacts, AppendFacts
<1>2. \A i \in DOMAIN Q : up(i) \in DOMAIN R /\ R[up(i)] = Q[i]
  <2> TAKE i \in DOMAIN Q
  <2>1. CASE i <= n
    BY <2>1, <1>1
  <2>2. CASE i > n
    <3>1. i - n \in 1 .. Len(Q2) /\ n + (i - n) = i /\ n + 1 + (i - n) = i + 1
      BY <2>2, <1>1
    <3>2. Q[n + (i - n)] = Q2[i - n] /\ R[n + 1 + (i - n)] = Q2[i - n]
      BY <3>1, <1>1
    <3>3. up(i) = i + 1 /\ i + 1 \in DOMAIN R
      BY <3>1, <2>2, <1>1
    <3>4. Q[i] = Q2[i - n] /\ R[i + 1] = Q2[i - n]
      BY <3>1, <3>2
    <3> QED
      BY <3>3, <3>4
  <2> QED
    BY <2>1, <2>2, <1>1
<1>3. \A i \in DOMAIN R : i = n + 1 \/ \E j \in DOMAIN Q : up(j) = i
  <2> TAKE i \in DOMAIN R
  <2>1. CASE i <= n
    BY <2>1, <1>1
  <2>2. CASE i > n + 1
    <3>1. i - 1 \in DOMAIN Q /\ up(i - 1) = i
      BY <2>2, <1>1
    <3> QED
      BY <3>1
  <2> QED
    BY <2>1, <2>2, <1>1
<1> HIDE DEF Q, R
<1>4. PICK K \in SUBSET DOMAIN w :
        /\ \A k \in K : 1 .. k \subseteq K
        /\ all => K = DOMAIN w
        /\ \E f \in [K -> DOMAIN Q] : Enumerates(f, K, Q, w)
  BY DEF InOrder, Q
<1>5. PICK f \in [K -> DOMAIN Q] : Enumerates(f, K, Q, w)
  BY <1>4
<1> DEFINE g == [k \in K |-> up(f[k])]
<1>6. g \in [K -> DOMAIN R] /\ \A k \in K : g[k] = up(f[k]) /\ f[k] \in DOMAIN Q
  BY <1>2, <1>5
<1>7. \A k \in K : R[g[k]] = Q[f[k]]
  BY <1>6, <1>2
<1>8. \A k, l \in K : k < l => g[k] < g[l]
  <2> SUFFICES ASSUME NEW k \in K, NEW l \in K, k < l PROVE g[k] < g[l]
    OBVIOUS
  <2>1. f[k] < f[l] /\ f[k] \in Nat /\ f[l] \in Nat
    BY <1>5, <1>6, <1>1 DEF Enumerates
  <2> QED
    BY <2>1, <1>6, <1>1
<1>9. \A i \in DOMAIN R : R[i].kind = "stats" => \E k \in K : g[k] = i
  <2> SUFFICES ASSUME NEW i \in DOMAIN R, R[i].kind = "stats" PROVE \E k \in K : g[k] = i
    OBVIOUS
  <2>1. i # n + 1
    BY <1>1 DEF R
  <2>2. PICK j \in DOMAIN Q : up(j) = i
    BY <2>1, <1>3
  <2>3. Q[j].kind = "stats"
    BY <2>2, <1>2
  <2>4. PICK k \in K : f[k] = j
    BY <2>3, <1>5 DEF Enumerates
  <2> QED
    BY <2>2, <2>4, <1>6
<1>10. Enumerates(g, K, R, w)
  <2> HIDE DEF g
  <2> QED
    BY <1>5, <1>7, <1>8, <1>9 DEF Enumerates
<1> HIDE DEF g
<1> QED
  BY <1>4, <1>6, <1>10 DEF InOrder, R

\* The bridge goes past a message that is no statistics.
LEMMA PassOther ==
  ASSUME NEW Q \in Seq(AnyMessage), Q # <<>>, Head(Q).kind # "stats",
         NEW w \in Seq(Calls), NEW all \in BOOLEAN, InOrder(Q, w, all)
  PROVE  InOrder(Tail(Q), w, all)
<1> DEFINE R == Tail(Q)
<1>1. /\ Len(Q) \in Nat \ {0} /\ DOMAIN Q = 1 .. Len(Q) /\ DOMAIN R = 1 .. Len(Q) - 1
      /\ \A i \in 1 .. Len(Q) - 1 : R[i] = Q[i + 1]
      /\ Q[1].kind # "stats"
  BY TailFacts
<1> HIDE DEF R
<1>2. PICK K \in SUBSET DOMAIN w :
        /\ \A k \in K : 1 .. k \subseteq K
        /\ all => K = DOMAIN w
        /\ \E f \in [K -> DOMAIN Q] : Enumerates(f, K, Q, w)
  BY DEF InOrder
<1>3. PICK f \in [K -> DOMAIN Q] : Enumerates(f, K, Q, w)
  BY <1>2
<1>4. \A k \in K : f[k] \in 2 .. Len(Q)
  BY <1>1, <1>3 DEF Enumerates
<1> DEFINE g == [k \in K |-> f[k] - 1]
<1>5. g \in [K -> DOMAIN R] /\ \A k \in K : g[k] = f[k] - 1
  BY <1>1, <1>4
<1>6. \A k \in K : R[g[k]] = Q[f[k]]
  <2> SUFFICES ASSUME NEW k \in K PROVE R[g[k]] = Q[f[k]]
    OBVIOUS
  <2>1. f[k] - 1 \in 1 .. Len(Q) - 1 /\ (f[k] - 1) + 1 = f[k]
    BY <1>1, <1>4
  <2> QED
    BY <2>1, <1>1, <1>5
<1>7. \A k, l \in K : k < l => g[k] < g[l]
  <2> SUFFICES ASSUME NEW k \in K, NEW l \in K, k < l PROVE g[k] < g[l]
    OBVIOUS
  <2>1. f[k] < f[l] /\ f[k] \in Nat /\ f[l] \in Nat
    BY <1>3, <1>4, <1>1 DEF Enumerates
  <2> QED
    BY <2>1, <1>5
<1>8. \A i \in DOMAIN R : R[i].kind = "stats" => \E k \in K : g[k] = i
  <2> SUFFICES ASSUME NEW i \in DOMAIN R, R[i].kind = "stats" PROVE \E k \in K : g[k] = i
    OBVIOUS
  <2>1. i + 1 \in DOMAIN Q /\ Q[i + 1].kind = "stats" /\ (i + 1) - 1 = i
    BY <1>1
  <2>2. PICK k \in K : f[k] = i + 1
    BY <2>1, <1>3 DEF Enumerates
  <2> QED
    BY <2>1, <2>2, <1>5
<1>9. Enumerates(g, K, R, w)
  <2> HIDE DEF g
  <2> QED
    BY <1>3, <1>6, <1>7, <1>8 DEF Enumerates
<1> HIDE DEF g
<1>10. InOrder(R, w, all)
  BY <1>2, <1>5, <1>9 DEF InOrder
<1> QED
  BY <1>10 DEF R

\* The first statistics are those of the first caller.
LEMMA ReplyIsFirst ==
  ASSUME NEW Q \in Seq(AnyMessage), Q # <<>>, Head(Q).kind = "stats",
         NEW w \in Seq(Calls), NEW all \in BOOLEAN, InOrder(Q, w, all)
  PROVE  w # <<>> /\ Head(w) = Head(Q).call /\ InOrder(Tail(Q), Tail(w), all)
<1> DEFINE R == Tail(Q)
           v == Tail(w)
<1>1. /\ Len(Q) \in Nat \ {0} /\ DOMAIN Q = 1 .. Len(Q) /\ DOMAIN R = 1 .. Len(Q) - 1
      /\ \A i \in 1 .. Len(Q) - 1 : R[i] = Q[i + 1]
      /\ Head(Q) = Q[1]
  BY TailFacts
<1>2. PICK K \in SUBSET DOMAIN w :
        /\ \A k \in K : 1 .. k \subseteq K
        /\ all => K = DOMAIN w
        /\ \E f \in [K -> DOMAIN Q] : Enumerates(f, K, Q, w)
  BY DEF InOrder
<1>3. PICK f \in [K -> DOMAIN Q] : Enumerates(f, K, Q, w)
  BY <1>2
<1>4. DOMAIN w = 1 .. Len(w) /\ Len(w) \in Nat
  OBVIOUS
<1>5. 1 \in K /\ f[1] = 1
  <2>1. PICK k \in K : f[k] = 1
    BY <1>1, <1>3 DEF Enumerates
  <2>2. k \in Nat \ {0} /\ 1 \in K
    <3>1. k \in Nat \ {0}
      BY <1>4
    <3>2. 1 \in 1 .. k /\ 1 .. k \subseteq K
      BY <3>1, <1>2
    <3> QED
      BY <3>1, <3>2
  <2>3. k # 1 => f[1] < f[k]
    BY <2>2, <1>3 DEF Enumerates
  <2>4. f[1] \in Nat \ {0}
    BY <2>2, <1>1
  <2> QED
    BY <2>1, <2>2, <2>3, <2>4
<1>6. w # <<>> /\ Head(w) = w[1] /\ w[1] = Q[1].call
  BY <1>5, <1>3, <1>4 DEF Enumerates
<1>7. /\ Len(w) \in Nat \ {0} /\ DOMAIN v = 1 .. Len(w) - 1
      /\ \A i \in 1 .. Len(w) - 1 : v[i] = w[i + 1]
  BY <1>6, TailFacts
<1> HIDE DEF R, v
<1> DEFINE L == {k \in DOMAIN v : k + 1 \in K}
           g == [k \in L |-> f[k + 1] - 1]
<1>8. \A k \in L : k \in Nat \ {0} /\ k + 1 \in K /\ k + 1 # 1 /\ f[k + 1] \in 2 .. Len(Q)
  <2> SUFFICES ASSUME NEW k \in L
               PROVE  k \in Nat \ {0} /\ k + 1 \in K /\ k + 1 # 1 /\ f[k + 1] \in 2 .. Len(Q)
    OBVIOUS
  <2>1. k \in Nat \ {0} /\ k + 1 \in K /\ 1 < k + 1
    BY <1>7
  <2>2. f[1] < f[k + 1] /\ f[k + 1] \in 1 .. Len(Q)
    BY <2>1, <1>5, <1>3, <1>1 DEF Enumerates
  <2> QED
    BY <2>1, <2>2, <1>5
<1>9. g \in [L -> DOMAIN R] /\ \A k \in L : g[k] = f[k + 1] - 1
  BY <1>1, <1>8
<1>10. \A k \in L : R[g[k]] = Q[f[k + 1]] /\ v[k] = w[k + 1]
  <2> SUFFICES ASSUME NEW k \in L PROVE R[g[k]] = Q[f[k + 1]] /\ v[k] = w[k + 1]
    OBVIOUS
  <2>1. f[k + 1] - 1 \in 1 .. Len(Q) - 1 /\ (f[k + 1] - 1) + 1 = f[k + 1]
    BY <1>1, <1>8
  <2>2. R[f[k + 1] - 1] = Q[f[k + 1]]
    BY <2>1, <1>1
  <2>3. v[k] = w[k + 1]
    BY <1>7
  <2> QED
    BY <2>2, <2>3, <1>9
<1>11. \A k \in L : R[g[k]].kind = "stats" /\ R[g[k]].call = v[k]
  BY <1>8, <1>10, <1>3 DEF Enumerates
<1>12. \A k, l \in L : k < l => g[k] < g[l]
  <2> SUFFICES ASSUME NEW k \in L, NEW l \in L, k < l PROVE g[k] < g[l]
    OBVIOUS
  <2>1. k + 1 \in K /\ l + 1 \in K /\ k + 1 < l + 1
    BY <1>8
  <2>2. f[k + 1] < f[l + 1] /\ f[k + 1] \in Nat /\ f[l + 1] \in Nat
    BY <2>1, <1>3, <1>8, <1>1 DEF Enumerates
  <2> QED
    BY <2>2, <1>9
<1>13. \A i \in DOMAIN R : R[i].kind = "stats" => \E k \in L : g[k] = i
  <2> SUFFICES ASSUME NEW i \in DOMAIN R, R[i].kind = "stats" PROVE \E k \in L : g[k] = i
    OBVIOUS
  <2>1. i + 1 \in DOMAIN Q /\ Q[i + 1].kind = "stats" /\ (i + 1) - 1 = i /\ i + 1 # 1
    BY <1>1
  <2>2. PICK k \in K : f[k] = i + 1
    BY <2>1, <1>3 DEF Enumerates
  <2>3. k # 1 /\ k \in 1 .. Len(w)
    BY <2>1, <2>2, <1>4, <1>5
  <2>4. k - 1 \in DOMAIN v /\ (k - 1) + 1 = k
    BY <2>3, <1>7
  <2>5. k - 1 \in L
    BY <2>4
  <2>6. g[k - 1] = f[(k - 1) + 1] - 1
    BY <2>5, <1>9
  <2> QED
    BY <2>1, <2>2, <2>4, <2>5, <2>6
<1>14. \A k \in L : 1 .. k \subseteq L
  <2> SUFFICES ASSUME NEW k \in L, NEW j \in 1 .. k PROVE j \in L
    OBVIOUS
  <2>1. k + 1 \in K /\ j + 1 \in 1 .. k + 1 /\ k \in 1 .. Len(w) - 1
    BY <1>7
  <2>2. j + 1 \in K /\ j \in DOMAIN v
    <3>1. 1 .. k + 1 \subseteq K
      BY <2>1, <1>2
    <3> QED
      BY <2>1, <3>1, <1>7
  <2> QED
    BY <2>2
<1>15. all => L = DOMAIN v
  BY <1>2, <1>4, <1>7
<1>16. Enumerates(g, L, R, v)
  <2> HIDE DEF g, L
  <2> QED
    BY <1>11, <1>12, <1>13 DEF Enumerates
<1>17. L \in SUBSET DOMAIN v
  OBVIOUS
<1> HIDE DEF g, L
<1>18. InOrder(R, v, all)
  BY <1>9, <1>14, <1>15, <1>16, <1>17 DEF InOrder
<1> QED
  BY <1>1, <1>6, <1>18 DEF R, v

\* A request is written behind all others.
LEMMA AskLast ==
  ASSUME NEW Q \in Seq(AnyMessage), NEW m \in AnyMessage, m.kind = "stats", m.call \in Calls,
         NEW w \in Seq(Calls), InOrder(Q, w, TRUE)
  PROVE  InOrder(Append(Q, m), Append(w, m.call), TRUE)
<1> DEFINE R == Append(Q, m)
           v == Append(w, m.call)
           n == Len(w) + 1
<1>1. /\ Len(Q) \in Nat /\ DOMAIN Q = 1 .. Len(Q) /\ DOMAIN R = 1 .. Len(Q) + 1
      /\ \A i \in 1 .. Len(Q) : R[i] = Q[i]
      /\ R[Len(Q) + 1] = m
  BY AppendFacts
<1>2. /\ Len(w) \in Nat /\ DOMAIN w = 1 .. Len(w) /\ DOMAIN v = 1 .. n
      /\ \A i \in 1 .. Len(w) : v[i] = w[i]
      /\ v[n] = m.call
  BY AppendFacts
<1> HIDE DEF R, v
<1>3. PICK f \in [DOMAIN w -> DOMAIN Q] : Enumerates(f, DOMAIN w, Q, w)
  BY DEF InOrder
<1> DEFINE K == DOMAIN v
           g == [k \in K |-> IF k = n THEN Len(Q) + 1 ELSE f[k]]
<1>4. /\ g \in [K -> DOMAIN R] /\ g[n] = Len(Q) + 1
      /\ \A k \in DOMAIN w : g[k] = f[k] /\ k # n /\ f[k] \in 1 .. Len(Q)
  BY <1>1, <1>2, <1>3
<1>5. \A k \in K : k = n \/ k \in DOMAIN w
  BY <1>2
<1> HIDE DEF g
<1>6. \A k \in K : R[g[k]].kind = "stats" /\ R[g[k]].call = v[k]
  <2> SUFFICES ASSUME NEW k \in K PROVE R[g[k]].kind = "stats" /\ R[g[k]].call = v[k]
    OBVIOUS
  <2>1. CASE k = n
    BY <2>1, <1>1, <1>2, <1>4
  <2>2. CASE k \in DOMAIN w
    <3>1. g[k] = f[k] /\ R[f[k]] = Q[f[k]] /\ v[k] = w[k]
      BY <2>2, <1>1, <1>2, <1>4
    <3> QED
      BY <3>1, <2>2, <1>3 DEF Enumerates
  <2> QED
    BY <2>1, <2>2, <1>5
<1>7. \A k, l \in K : k < l => g[k] < g[l]
  <2> SUFFICES ASSUME NEW k \in K, NEW l \in K, k < l PROVE g[k] < g[l]
    OBVIOUS
  <2>1. k \in DOMAIN w
    BY <1>2
  <2>2. CASE l = n
    BY <2>1, <2>2, <1>1, <1>4
  <2>3. CASE l \in DOMAIN w
    BY <2>1, <2>3, <1>3, <1>4 DEF Enumerates
  <2> QED
    BY <2>2, <2>3, <1>5
<1>8. \A i \in DOMAIN R : R[i].kind = "stats" => \E k \in K : g[k] = i
  <2> SUFFICES ASSUME NEW i \in DOMAIN R, R[i].kind = "stats" PROVE \E k \in K : g[k] = i
    OBVIOUS
  <2>1. CASE i = Len(Q) + 1
    BY <2>1, <1>2, <1>4
  <2>2. CASE i \in DOMAIN Q
    <3>1. Q[i].kind = "stats"
      BY <2>2, <1>1
    <3>2. PICK k \in DOMAIN w : f[k] = i
      BY <2>2, <3>1, <1>3 DEF Enumerates
    <3> QED
      BY <3>2, <1>2, <1>4
  <2> QED
    BY <2>1, <2>2, <1>1
<1>9. Enumerates(g, K, R, v)
  BY <1>6, <1>7, <1>8 DEF Enumerates
<1>10. \A k \in K : 1 .. k \subseteq K
  BY <1>2
<1>11. InOrder(R, v, TRUE)
  BY <1>4, <1>9, <1>10 DEF InOrder
<1> QED
  BY <1>11 DEF R, v

\* What Pi had not yet read is lost with it.
LEMMA Cut ==
  ASSUME NEW Q1 \in Seq(AnyMessage), NEW Q2 \in Seq(AnyMessage), NEW w \in Seq(Calls),
         NEW all \in BOOLEAN, InOrder(Q1 \o Q2, w, all)
  PROVE  InOrder(Q1, w, FALSE)
<1> DEFINE Q == Q1 \o Q2
<1>1. /\ Len(Q1) \in Nat /\ Len(Q2) \in Nat /\ DOMAIN Q1 = 1 .. Len(Q1)
      /\ DOMAIN Q = 1 .. Len(Q1) + Len(Q2)
      /\ \A i \in 1 .. Len(Q1) : Q[i] = Q1[i]
      /\ DOMAIN w = 1 .. Len(w) /\ Len(w) \in Nat
  BY ConcatFacts
<1>2. PICK K \in SUBSET DOMAIN w :
        /\ \A k \in K : 1 .. k \subseteq K
        /\ \E f \in [K -> DOMAIN Q] : Enumerates(f, K, Q, w)
  BY DEF InOrder
<1> HIDE DEF Q
<1>3. PICK f \in [K -> DOMAIN Q] : Enumerates(f, K, Q, w)
  BY <1>2
<1> DEFINE L == {k \in K : f[k] <= Len(Q1)}
           g == [k \in L |-> f[k]]
<1>4. /\ g \in [L -> DOMAIN Q1]
      /\ \A k \in L : k \in K /\ g[k] = f[k] /\ f[k] \in DOMAIN Q1
  BY <1>1, <1>3
<1>5. \A k \in L : Q1[g[k]].kind = "stats" /\ Q1[g[k]].call = w[k]
  BY <1>1, <1>3, <1>4 DEF Enumerates
<1>6. \A k, l \in L : k < l => g[k] < g[l]
  BY <1>3, <1>4 DEF Enumerates
<1>7. \A i \in DOMAIN Q1 : Q1[i].kind = "stats" => \E k \in L : g[k] = i
  <2> SUFFICES ASSUME NEW i \in DOMAIN Q1, Q1[i].kind = "stats" PROVE \E k \in L : g[k] = i
    OBVIOUS
  <2>1. i \in DOMAIN Q /\ Q[i].kind = "stats" /\ i <= Len(Q1)
    BY <1>1
  <2>2. PICK k \in K : f[k] = i
    BY <2>1, <1>3 DEF Enumerates
  <2> QED
    BY <2>1, <2>2, <1>4
<1>8. \A k \in L : 1 .. k \subseteq L
  <2> SUFFICES ASSUME NEW k \in L, NEW j \in 1 .. k PROVE j \in L
    OBVIOUS
  <2>1. k \in K /\ j \in K /\ k \in Nat /\ j \in Nat /\ j <= k
    BY <1>1, <1>2
  <2>2. f[j] \in Nat /\ f[k] \in Nat /\ f[k] <= Len(Q1)
    BY <2>1, <1>1, <1>3
  <2>3. j = k \/ f[j] < f[k]
    BY <2>1, <1>3 DEF Enumerates
  <2> QED
    BY <2>1, <2>2, <2>3, <1>1
<1>9. L \in SUBSET DOMAIN w
  OBVIOUS
<1> HIDE DEF g, L
<1>10. Enumerates(g, L, Q1, w)
  BY <1>5, <1>6, <1>7 DEF Enumerates
<1> QED
  BY <1>4, <1>8, <1>9, <1>10 DEF InOrder

\* Messages that are no statistics may change.
LEMMA ChangeOther ==
  ASSUME NEW Q \in Seq(AnyMessage), NEW R \in Seq(AnyMessage), Len(R) = Len(Q),
         \A i \in 1 .. Len(Q) : R[i] = Q[i] \/ (R[i].kind # "stats" /\ Q[i].kind # "stats"),
         NEW w \in Seq(Calls), NEW all \in BOOLEAN, InOrder(Q, w, all)
  PROVE  InOrder(R, w, all)
<1>1. DOMAIN Q = 1 .. Len(Q) /\ DOMAIN R = 1 .. Len(Q)
  OBVIOUS
<1>2. PICK K \in SUBSET DOMAIN w :
        /\ \A k \in K : 1 .. k \subseteq K
        /\ all => K = DOMAIN w
        /\ \E f \in [K -> DOMAIN Q] : Enumerates(f, K, Q, w)
  BY DEF InOrder
<1>3. PICK f \in [K -> DOMAIN Q] : Enumerates(f, K, Q, w)
  BY <1>2
<1>4. f \in [K -> DOMAIN R] /\ Enumerates(f, K, R, w)
  BY <1>1, <1>3 DEF Enumerates
<1> QED
  BY <1>2, <1>4 DEF InOrder

\* One more caller, whose request went nowhere.
LEMMA MoreCallers ==
  ASSUME NEW Q \in Seq(AnyMessage), NEW w \in Seq(Calls), NEW c \in Calls,
         NEW all \in BOOLEAN, InOrder(Q, w, all)
  PROVE  InOrder(Q, Append(w, c), FALSE)
<1> DEFINE v == Append(w, c)
<1>1. DOMAIN w \subseteq DOMAIN v /\ \A k \in DOMAIN w : v[k] = w[k]
  BY AppendFacts
<1> HIDE DEF v
<1>2. PICK K \in SUBSET DOMAIN w :
        /\ \A k \in K : 1 .. k \subseteq K
        /\ \E f \in [K -> DOMAIN Q] : Enumerates(f, K, Q, w)
  BY DEF InOrder
<1>3. PICK f \in [K -> DOMAIN Q] : Enumerates(f, K, Q, w)
  BY <1>2
<1>4. K \in SUBSET DOMAIN v /\ Enumerates(f, K, Q, v)
  BY <1>1, <1>3 DEF Enumerates
<1>5. InOrder(Q, v, FALSE)
  BY <1>2, <1>3, <1>4 DEF InOrder
<1> QED
  BY <1>5 DEF v

LEMMA NoneInOrder ==
  ASSUME NEW all \in BOOLEAN
  PROVE  InOrder(<<>>, <<>>, all)
<1>1. [k \in {} |-> 1] \in [{} -> DOMAIN <<>>] /\ DOMAIN <<>> = {}
  OBVIOUS
<1>2. Enumerates([k \in {} |-> 1], {}, <<>>, <<>>)
  BY <1>1 DEF Enumerates
<1> QED
  BY <1>1, <1>2 DEF InOrder

-------------------------------------------------------------------------------
(* The session.                                                              *)

\* What lies between the callers and Pi, oldest first: replies that the bridge
\* has not handled, requests that Pi has not.
Unread == IF pi = "gone" THEN <<>> ELSE stdin \o writing
Pipeline == inbox \o stdout \o Unread

RepliesInOrder == Receiving => InOrder(Pipeline, waiters, pi # "gone")

AtStart == {"starting", "starting large"}
Opening ==
  /\ bridge \in AtStart => stdin = <<>> /\ writing = <<>>
  /\ bridge \in AtStart \cup {"readiness"} => waiters = <<>>

Asks == \A i \in DOMAIN inbox : inbox[i].kind = "ask" => inbox[i].call \in Calls

PiIInv == PiTypeOK /\ RepliesInOrder /\ Opening /\ Asks /\ StatsAnswersOwn

LEMMA SeqsGrow ==
  ASSUME NEW S, NEW T, S \subseteq T, NEW s \in Seq(S)
  PROVE  s \in Seq(T)
OBVIOUS

LEMMA PiTypes ==
  ASSUME PiTypeOK
  PROVE  /\ inbox \in Seq(AnyMessage) /\ stdout \in Seq(AnyMessage)
         /\ stdin \in Seq(AnyMessage) /\ writing \in Seq(AnyMessage)
         /\ Unread \in Seq(AnyMessage) /\ waiters \in Seq(Calls)
         /\ (pi # "gone") \in BOOLEAN
<1>1. \A kinds \in SUBSET Kinds : Messages(kinds) \subseteq AnyMessage
  BY DEF Messages, AnyMessage
<1>2. /\ {"stats", "done"} \in SUBSET Kinds /\ {"prompt", "stats", "done"} \in SUBSET Kinds
      /\ Replies \in SUBSET Kinds
      /\ Replies \cup {"eof", "send", "ask", "disconnect"} \in SUBSET Kinds
  BY DEF Kinds, Replies
<1>3. /\ inbox \in Seq(AnyMessage) /\ stdout \in Seq(AnyMessage)
      /\ stdin \in Seq(AnyMessage) /\ writing \in Seq(AnyMessage)
      /\ waiters \in Seq(Calls)
  BY <1>1, <1>2, SeqsGrow DEF PiTypeOK
<1>4. stdin \o writing \in Seq(AnyMessage) /\ <<>> \in Seq(AnyMessage)
  BY <1>3
<1> QED
  BY <1>3, <1>4 DEF Unread

ToPi == Messages({"prompt", "stats", "done"})
FromPi == Messages(Replies)
ToBridge == Messages(Replies \cup {"eof", "send", "ask", "disconnect"})

LEMMA PiQueues ==
  ASSUME PiTypeOK
  PROVE  /\ stdin \in Seq(ToPi) /\ Len(stdin) <= PipeCapacity
         /\ stdout \in Seq(FromPi) /\ Len(stdout) <= PipeCapacity
         /\ PipeCapacity \in Nat \ {0}
         /\ frames \in 0 .. MaxFrames /\ MaxFrames \in Nat
         /\ commands \in 0 .. MaxCommands /\ MaxCommands \in Nat
         /\ ToPi \subseteq AnyMessage /\ FromPi \subseteq AnyMessage
         /\ inbox \in Seq(ToBridge) /\ FromPi \subseteq ToBridge /\ ToBridge \subseteq AnyMessage
<1>1. ToPi \subseteq AnyMessage /\ FromPi \subseteq AnyMessage
  BY DEF ToPi, FromPi, AnyMessage, Messages, Kinds, Replies
<1>2. FromPi \subseteq ToBridge /\ ToBridge \subseteq AnyMessage
  BY DEF ToBridge, FromPi, AnyMessage, Messages, Kinds, Replies
<1> QED
  BY <1>1, <1>2, PiBoundsAssumption DEF PiTypeOK, ToPi, FromPi, ToBridge

LEMMA MessageFacts ==
  /\ \A kind, call : Msg(kind, call).kind = kind /\ Msg(kind, call).call = call
  /\ \A kind : Plain(kind).kind = kind /\ Plain(kind).call = NoCall
  /\ \A kinds : \A kind \in kinds :
       Plain(kind) \in Messages(kinds) /\ \A c \in Calls : Msg(kind, c) \in Messages(kinds)
BY DEF Msg, Plain, Messages

\* The pipeline is one sequence, wherever it is cut.
LEMMA Assoc ==
  \A a, b, c \in Seq(AnyMessage) : (a \o b) \o c = a \o (b \o c)
<1> TAKE a, b, c \in Seq(AnyMessage)
<1> HIDE DEF AnyMessage
<1> QED
  OBVIOUS

LEMMA Ends ==
  ASSUME NEW S, NEW a \in Seq(S), NEW b \in Seq(S), NEW x \in S
  PROVE  Append(a, x) = a \o <<x>> /\ a \o Append(b, x) = Append(a \o b, x)
<1>1. Append(a, x) = a \o <<x>>
  OBVIOUS
<1>2. a \o Append(b, x) = Append(a \o b, x)
  OBVIOUS
<1> QED
  BY <1>1, <1>2

LEMMA Nothing ==
  ASSUME NEW S, NEW a \in Seq(S)
  PROVE  a \o <<>> = a /\ <<>> \o a = a
<1>1. a \o <<>> = a
  OBVIOUS
<1>2. <<>> \o a = a
  OBVIOUS
<1> QED
  BY <1>1, <1>2

LEMMA Fronts ==
  ASSUME NEW S, NEW a \in Seq(S), a # <<>>, NEW b \in Seq(S)
  PROVE  a \o b # <<>> /\ Head(a \o b) = Head(a) /\ Tail(a \o b) = Tail(a) \o b
<1>1. a \o b # <<>> /\ Head(a \o b) = Head(a)
  OBVIOUS
<1>2. Tail(a \o b) = Tail(a) \o b
  OBVIOUS
<1> QED
  BY <1>1, <1>2

\* A message moves from the head of a queue to the tail of the one before it.
LEMMA Moves ==
  \A a, b \in Seq(AnyMessage) : b # <<>> => Append(a, Head(b)) \o Tail(b) = a \o b
<1> TAKE a, b \in Seq(AnyMessage)
<1> HIDE DEF AnyMessage
<1> QED
  OBVIOUS

LEMMA PipelineFront ==
  ASSUME PiTypeOK
  PROVE  Pipeline = inbox \o (stdout \o Unread)
<1>1. inbox \in Seq(AnyMessage) /\ stdout \in Seq(AnyMessage) /\ Unread \in Seq(AnyMessage)
  BY PiTypes
<1>2. (inbox \o stdout) \o Unread = inbox \o (stdout \o Unread)
  BY <1>1, Assoc
<1> QED
  BY <1>2 DEF Pipeline

\* A message that is no statistics enters the bridge's channel.
LEMMA Posted ==
  ASSUME PiTypeOK, RepliesInOrder, NEW m \in AnyMessage, m.kind # "stats", Post(<<m>>),
         UNCHANGED <<bridge, stdout, stdin, writing, waiters, pi>>
  PROVE  RepliesInOrder'
<1> SUFFICES ASSUME Receiving PROVE InOrder(Pipeline', waiters, pi # "gone")
  BY DEF RepliesInOrder, Receiving
<1>1. inbox' = Append(inbox, m)
  <2>1. inbox' = inbox \o <<m>>
    BY DEF Post
  <2> QED
    BY <2>1, PiTypes, Ends
<1>2. stdout \o Unread \in Seq(AnyMessage)
  BY PiTypes, ConcatFacts
<1>3. Pipeline = inbox \o (stdout \o Unread)
  BY PipelineFront
<1>4. Pipeline' = Append(inbox, m) \o (stdout \o Unread)
  <2>1. Unread' = Unread
    BY DEF Unread
  <2>2. Append(inbox, m) \in Seq(AnyMessage)
    BY PiTypes, AppendFacts
  <2> QED
    BY <2>1, <2>2, <1>1, PiTypes, Assoc DEF Pipeline
<1>5. InOrder(inbox \o (stdout \o Unread), waiters, pi # "gone")
  BY <1>3 DEF RepliesInOrder
<1> QED
  BY <1>2, <1>4, <1>5, PiTypes, InsertOther

\* The bridge takes a message that is no statistics from its channel.
LEMMA Taken ==
  ASSUME PiTypeOK, inbox # <<>>
  PROVE  /\ Pipeline \in Seq(AnyMessage) /\ Pipeline # <<>>
         /\ Head(Pipeline) = Head(inbox) /\ Tail(Pipeline) = Tail(inbox) \o stdout \o Unread
<1>1. stdout \o Unread \in Seq(AnyMessage) /\ Tail(inbox) \in Seq(AnyMessage)
  BY PiTypes, ConcatFacts, TailFacts
<1>2. Pipeline = inbox \o (stdout \o Unread)
  BY PipelineFront
<1>3. (Tail(inbox) \o stdout) \o Unread = Tail(inbox) \o (stdout \o Unread)
  BY <1>1, PiTypes, Assoc
<1> QED
  BY <1>1, <1>2, <1>3, PiTypes, ConcatFacts, Fronts

\* The session is being closed: nobody waits any more.
LEMMA Closed ==
  ASSUME PiIInv, PiTypeOK', ~Receiving', bridge' \notin AtStart,
         inbox' = inbox \/ inbox' = <<>>,
         UNCHANGED answer, \A c \in Calls : calls'[c] = "answered" => calls[c] = "answered"
  PROVE  PiIInv'
<1>1. RepliesInOrder'
  BY DEF RepliesInOrder
<1>2. Opening' /\ Asks'
  <2>1. Opening'
    BY DEF Opening, Receiving, AtStart
  <2>2. Asks'
    BY DEF PiIInv, Asks
  <2> QED
    BY <2>1, <2>2
<1>3. StatsAnswersOwn'
  BY DEF PiIInv, StatsAnswersOwn
<1> QED
  BY <1>1, <1>2, <1>3 DEF PiIInv

-------------------------------------------------------------------------------
(* Pi's steps.                                                               *)

LEMMA PiAnswersKeeps ==
  ASSUME PiIInv, PiAnswers
  PROVE  PiIInv'
<1> USE DEF PiIInv
<1> DEFINE h == Head(stdin)
<1>1. /\ pi = "runs" /\ stdin # <<>> /\ Len(stdout) < PipeCapacity
      /\ stdin' = Tail(stdin)
      /\ UNCHANGED <<bridge, writing, waiters, inbox, ready, opener, listening, calls,
                     answer, commands, pi, frames, reader>>
  BY DEF PiAnswers
<1>2. PICK m \in IF h.kind = "prompt" THEN {Plain("accepted"), Plain("rejected")} ELSE {h} :
        stdout' = Append(stdout, m)
  BY DEF PiAnswers
<1>3. /\ h \in ToPi /\ h \in AnyMessage /\ stdin' \in Seq(ToPi)
      /\ Len(stdin') <= PipeCapacity
  <2>1. h \in ToPi /\ stdin' \in Seq(ToPi) /\ Len(stdin') = Len(stdin) - 1 /\ Len(stdin) \in Nat
    BY <1>1, PiQueues, TailFacts
  <2> QED
    BY <2>1, PiQueues
<1>4. m \in FromPi /\ m \in AnyMessage
  <2>1. CASE h.kind = "prompt"
    BY <2>1, <1>2, MessageFacts, PiQueues DEF FromPi, Replies
  <2>2. CASE h.kind # "prompt"
    BY <2>2, <1>2, <1>3 DEF Messages, Replies, ToPi, FromPi
  <2> QED
    BY <2>1, <2>2, PiQueues
<1>5. stdout' \in Seq(FromPi) /\ Len(stdout') <= PipeCapacity
  <2>1. stdout' \in Seq(FromPi) /\ Len(stdout') = Len(stdout) + 1 /\ Len(stdout) \in Nat
    BY <1>2, <1>4, PiQueues, AppendFacts
  <2> QED
    BY <2>1, <1>1, PiQueues
<1>6. PiTypeOK'
  BY <1>1, <1>3, <1>5 DEF PiTypeOK, ToPi, FromPi
<1>7. Opening' /\ Asks'
  BY <1>1 DEF Opening, Asks
<1>8. StatsAnswersOwn'
  BY <1>1 DEF StatsAnswersOwn
<1>9. RepliesInOrder'
  <2> SUFFICES ASSUME Receiving PROVE InOrder(Pipeline', waiters, pi # "gone")
    BY <1>1 DEF RepliesInOrder, Receiving
  <2> DEFINE P == inbox \o stdout
  <2>1. /\ P \in Seq(AnyMessage) /\ Unread \in Seq(AnyMessage) /\ Unread = stdin \o writing
        /\ Pipeline = P \o Unread /\ Unread # <<>> /\ Head(Unread) = h
        /\ Tail(Unread) = Tail(stdin) \o writing /\ Tail(Unread) \in Seq(AnyMessage)
    <3>1. stdin \in Seq(AnyMessage) /\ writing \in Seq(AnyMessage) /\ Unread = stdin \o writing
      BY <1>1, PiTypes DEF Unread
    <3>2. Unread # <<>> /\ Head(Unread) = h /\ Tail(Unread) = Tail(stdin) \o writing
      BY <1>1, <3>1, Fronts
    <3> QED
      BY <3>1, <3>2, PiTypes, ConcatFacts, TailFacts DEF Pipeline
  <2>2. Pipeline' = Append(P, m) \o Tail(Unread)
    <3>1. inbox \o Append(stdout, m) = Append(P, m)
      BY <1>4, PiTypes, Ends
    <3>2. Unread' = Tail(Unread)
      BY <1>1, <2>1 DEF Unread
    <3> QED
      BY <3>1, <3>2, <1>1, <1>2 DEF Pipeline
  <2>3. InOrder(P \o Unread, waiters, TRUE)
    BY <1>1, <2>1 DEF RepliesInOrder
  <2> HIDE DEF P
  <2>4. CASE m = h
    <3>1. Append(P, m) \o Tail(Unread) = P \o Unread
      BY <2>4, <2>1, Moves
    <3> QED
      BY <3>1, <2>2, <2>3, <1>1
  <2>5. CASE m # h
    <3>1. m.kind # "stats" /\ h.kind # "stats"
      BY <1>2, <2>5, MessageFacts
    <3> DEFINE A == Append(P, m)
               T == Tail(Unread)
               Q == P \o Unread
               R == A \o T
               n == Len(P)
    <3>2. /\ A \in Seq(AnyMessage) /\ Len(A) = n + 1 /\ n \in Nat
          /\ \A i \in 1 .. n : A[i] = P[i]
          /\ A[n + 1] = m
      BY <2>1, <1>4, AppendFacts
    <3>3. /\ Len(Unread) \in Nat \ {0} /\ Len(T) = Len(Unread) - 1 /\ Unread[1] = h
          /\ \A i \in 1 .. Len(Unread) - 1 : T[i] = Unread[i + 1]
          /\ T \in Seq(AnyMessage)
      BY <2>1, TailFacts
    <3>4. /\ Q \in Seq(AnyMessage) /\ Len(Q) = n + Len(Unread)
          /\ \A i \in 1 .. n : Q[i] = P[i]
          /\ \A i \in 1 .. Len(Unread) : Q[n + i] = Unread[i]
      BY <2>1, ConcatFacts
    <3> HIDE DEF A, T
    <3>5. /\ R \in Seq(AnyMessage) /\ Len(R) = Len(A) + Len(T)
          /\ \A i \in 1 .. Len(A) : R[i] = A[i]
          /\ \A i \in 1 .. Len(T) : R[Len(A) + i] = T[i]
      <4>1. A \in Seq(AnyMessage) /\ T \in Seq(AnyMessage)
        BY <3>2, <3>3
      <4> QED
        BY <4>1, ConcatFacts
    <3> HIDE DEF Q, R, n
    <3>6. Len(R) = Len(Q)
      BY <3>2, <3>3, <3>4, <3>5
    <3>7. ASSUME NEW i \in 1 .. Len(Q)
          PROVE  R[i] = Q[i] \/ (R[i].kind # "stats" /\ Q[i].kind # "stats")
      <4>1. CASE i <= n
        <5>1. i \in 1 .. n /\ i \in 1 .. Len(A)
          BY <4>1, <3>2
        <5> QED
          BY <5>1, <3>2, <3>4, <3>5
      <4>2. CASE i = n + 1
        <5>1. R[i] = m
          BY <4>2, <3>2, <3>5
        <5>2. Q[n + 1] = Unread[1]
          BY <3>3, <3>4
        <5> QED
          BY <5>1, <5>2, <4>2, <3>1, <3>3
      <4>3. CASE i > n + 1
        <5> DEFINE j == i - n - 1
        <5>1. j \in 1 .. Len(Unread) - 1 /\ i = n + 1 + j /\ j + 1 \in 1 .. Len(Unread) /\ i = n + (j + 1)
          BY <4>3, <3>2, <3>3, <3>4
        <5> HIDE DEF j
        <5>2. R[n + 1 + j] = T[j] /\ Q[n + (j + 1)] = Unread[j + 1]
              /\ T[j] = Unread[j + 1]
          BY <5>1, <3>2, <3>3, <3>4, <3>5
        <5> QED
          BY <5>1, <5>2
      <4> QED
        BY <4>1, <4>2, <4>3, <3>2, <3>4
    <3>8. InOrder(Q, waiters, TRUE)
      BY <2>3 DEF Q
    <3>9. waiters \in Seq(Calls)
      BY PiTypes
    <3>10. InOrder(R, waiters, TRUE)
      BY <3>4, <3>5, <3>6, <3>7, <3>8, <3>9, ChangeOther
    <3> QED
      BY <3>10, <2>2, <1>1 DEF R, A, T
  <2> QED
    BY <2>4, <2>5
<1> QED
  BY <1>6, <1>7, <1>8, <1>9

LEMMA PiEmitsKeeps ==
  ASSUME PiIInv, PiEmits
  PROVE  PiIInv'
<1> USE DEF PiIInv
<1> DEFINE m == Plain("event")
<1>1. /\ Len(stdout) < PipeCapacity /\ frames < MaxFrames /\ frames' = frames + 1
      /\ stdout' = Append(stdout, m)
      /\ UNCHANGED <<bridge, writing, waiters, inbox, ready, opener, listening, calls,
                     answer, commands, pi, stdin, reader>>
  BY DEF PiEmits
<1>2. m \in FromPi /\ m \in AnyMessage /\ m.kind # "stats"
  BY MessageFacts, PiQueues DEF FromPi, Replies
<1> HIDE DEF m
<1>3. stdout' \in Seq(FromPi) /\ Len(stdout') <= PipeCapacity
  <2>1. stdout' \in Seq(FromPi) /\ Len(stdout') = Len(stdout) + 1 /\ Len(stdout) \in Nat
    BY <1>1, <1>2, PiQueues, AppendFacts
  <2> QED
    BY <2>1, <1>1, PiQueues
<1>4. frames' \in 0 .. MaxFrames
  BY <1>1, PiQueues
<1>5. PiTypeOK'
  BY <1>1, <1>3, <1>4 DEF PiTypeOK, FromPi
<1>6. Opening' /\ Asks' /\ StatsAnswersOwn'
  BY <1>1 DEF Opening, Asks, StatsAnswersOwn
<1>7. RepliesInOrder'
  <2> SUFFICES ASSUME Receiving PROVE InOrder(Pipeline', waiters, pi # "gone")
    BY <1>1 DEF RepliesInOrder, Receiving
  <2>1. Pipeline' = Append(inbox \o stdout, m) \o Unread
    <3>1. inbox \o Append(stdout, m) = Append(inbox \o stdout, m)
      BY <1>2, PiTypes, Ends
    <3> QED
      BY <3>1, <1>1 DEF Pipeline, Unread
  <2>2. inbox \o stdout \in Seq(AnyMessage)
    BY PiTypes, ConcatFacts
  <2>3. InOrder((inbox \o stdout) \o Unread, waiters, pi # "gone")
    BY DEF RepliesInOrder, Pipeline
  <2> QED
    BY <2>1, <2>2, <2>3, <1>2, PiTypes, InsertOther
<1> QED
  BY <1>5, <1>6, <1>7

LEMMA PiEndsKeeps ==
  ASSUME PiIInv, PiHangs \/ PiExits
  PROVE  PiIInv'
<1> USE DEF PiIInv
<1>1. /\ pi # "gone" /\ (stdin' = stdin \/ stdin' = <<>>) /\ pi' \in {"hangs", "gone"}
      /\ pi' = "hangs" => stdin' = stdin
      /\ UNCHANGED <<bridge, writing, waiters, inbox, ready, opener, listening, calls,
                     answer, commands, stdout, frames, reader>>
  BY DEF PiHangs, PiExits
<1>2. PiTypeOK'
  <2>1. stdin' \in Seq(ToPi) /\ Len(stdin') <= PipeCapacity
    <3>1. <<>> \in Seq(ToPi) /\ Len(<<>>) = 0
      OBVIOUS
    <3>2. CASE stdin' = <<>>
      BY <3>1, <3>2, PiQueues
    <3>3. CASE stdin' = stdin
      BY <3>3, PiQueues
    <3> QED
      BY <1>1, <3>2, <3>3
  <2> QED
    BY <1>1, <2>1 DEF PiTypeOK, ToPi
<1>3. Opening' /\ Asks' /\ StatsAnswersOwn'
  BY <1>1 DEF Opening, Asks, StatsAnswersOwn
<1>4. RepliesInOrder'
  <2> SUFFICES ASSUME Receiving PROVE InOrder(Pipeline', waiters, pi' # "gone")
    BY <1>1 DEF RepliesInOrder, Receiving
  <2>1. CASE pi' = "hangs"
    <3>1. Pipeline' = Pipeline
      BY <2>1, <1>1 DEF Pipeline, Unread
    <3> QED
      BY <3>1, <2>1, <1>1 DEF RepliesInOrder
  <2>2. CASE pi' = "gone"
    <3>1. inbox \o stdout \in Seq(AnyMessage)
      BY PiTypes, ConcatFacts
    <3>2. Pipeline' = inbox \o stdout
      BY <2>2, <3>1, <1>1, Nothing DEF Pipeline, Unread
    <3>3. InOrder((inbox \o stdout) \o Unread, waiters, pi # "gone")
      BY DEF RepliesInOrder, Pipeline
    <3>4. InOrder(inbox \o stdout, waiters, FALSE)
      BY <3>1, <3>3, PiTypes, Cut
    <3> QED
      BY <3>2, <3>4, <2>2
  <2> QED
    BY <2>1, <2>2, <1>1
<1> QED
  BY <1>2, <1>3, <1>4

-------------------------------------------------------------------------------
(* The bridge's channel.                                                     *)

LEMMA PostedTypes ==
  ASSUME PiTypeOK, Asks, NEW m \in ToBridge, m.kind = "ask" => m.call \in Calls, Post(<<m>>)
  PROVE  inbox' \in Seq(ToBridge) /\ Asks'
<1>1. CASE inbox' = inbox
  BY <1>1, PiQueues DEF Asks
<1>2. CASE inbox' = inbox \o <<m>>
  <2>1. inbox' = Append(inbox, m)
    BY <1>2, PiQueues
  <2>2. inbox' \in Seq(ToBridge)
    BY <2>1, PiQueues
  <2>3. ASSUME NEW i \in DOMAIN inbox', inbox'[i].kind = "ask" PROVE inbox'[i].call \in Calls
    <3>1. (i \in DOMAIN inbox /\ inbox'[i] = inbox[i]) \/ inbox'[i] = m
      BY <2>1, <2>3, PiQueues, AppendFacts
    <3> QED
      BY <3>1, <2>3 DEF Asks
  <2> QED
    BY <2>2, <2>3 DEF Asks
<1> QED
  BY <1>1, <1>2 DEF Post

LEMMA TakenTypes ==
  ASSUME PiTypeOK, Asks, inbox # <<>>, inbox' = Tail(inbox)
  PROVE  inbox' \in Seq(ToBridge) /\ Asks' /\ Head(inbox) \in ToBridge
         /\ (Head(inbox).kind = "ask" => Head(inbox).call \in Calls)
<1>1. /\ inbox' \in Seq(ToBridge) /\ Head(inbox) \in ToBridge /\ Head(inbox) = inbox[1]
      /\ 1 \in DOMAIN inbox /\ Len(inbox) \in Nat \ {0}
      /\ DOMAIN inbox = 1 .. Len(inbox) /\ DOMAIN inbox' = 1 .. Len(inbox) - 1
      /\ \A i \in 1 .. Len(inbox) - 1 : inbox'[i] = inbox[i + 1]
  BY PiQueues, TailFacts
<1>2. ASSUME NEW i \in DOMAIN inbox' PROVE i + 1 \in DOMAIN inbox /\ inbox'[i] = inbox[i + 1]
  BY <1>1
<1>3. Asks'
  BY <1>2 DEF Asks
<1> QED
  BY <1>1, <1>3 DEF Asks

LEMMA ReaderKeeps ==
  ASSUME PiIInv, ReadFrame \/ ReadEof
  PROVE  PiIInv'
<1> USE DEF PiIInv
<1>1. CASE ReadFrame
  <2> DEFINE m == Head(stdout)
  <2>1. /\ stdout # <<>> /\ stdout' = Tail(stdout) /\ Post(<<m>>)
        /\ UNCHANGED <<bridge, writing, waiters, ready, opener, listening, calls, answer,
                       commands, pi, stdin, frames, reader>>
    BY <1>1 DEF ReadFrame
  <2>2. m \in FromPi /\ stdout' \in Seq(FromPi) /\ Len(stdout') = Len(stdout) - 1 /\ Len(stdout) \in Nat
    BY <2>1, PiQueues, TailFacts
  <2>3. m \in ToBridge /\ m.kind # "ask" /\ m \in AnyMessage
    <3>1. m.kind \in Replies
      BY <2>2 DEF FromPi, Messages
    <3> QED
      BY <3>1, <2>2, PiQueues DEF Replies
  <2>4. inbox' \in Seq(ToBridge) /\ Asks'
    BY <2>1, <2>3, PostedTypes
  <2>5. Len(stdout') <= PipeCapacity
    BY <2>2, PiQueues
  <2>6. PiTypeOK'
    BY <2>1, <2>2, <2>4, <2>5 DEF PiTypeOK, FromPi, ToBridge
  <2>7. Opening' /\ StatsAnswersOwn'
    BY <2>1 DEF Opening, StatsAnswersOwn
  <2>8. RepliesInOrder'
    <3> SUFFICES ASSUME Receiving PROVE InOrder(Pipeline', waiters, pi # "gone")
      BY <2>1 DEF RepliesInOrder, Receiving
    <3>1. inbox' = Append(inbox, m)
      BY <2>1, <2>3, PiQueues, Ends DEF Post
    <3>2. inbox' \o stdout' = inbox \o stdout
      BY <3>1, <2>1, PiTypes, Moves
    <3>3. Pipeline' = Pipeline
      BY <3>2, <2>1 DEF Pipeline, Unread
    <3> QED
      BY <3>3 DEF RepliesInOrder
  <2> QED
    BY <2>4, <2>6, <2>7, <2>8
<1>2. CASE ReadEof
  <2> DEFINE m == Plain("eof")
  <2>1. /\ reader' = "done" /\ Post(<<m>>)
        /\ UNCHANGED <<bridge, writing, waiters, ready, opener, listening, calls, answer,
                       commands, pi, stdin, stdout, frames>>
    BY <1>2 DEF ReadEof
  <2>2. m \in ToBridge /\ m.kind = "eof" /\ m \in AnyMessage
    <3>1. m \in ToBridge /\ m.kind = "eof"
      BY MessageFacts DEF ToBridge
    <3> QED
      BY <3>1, PiQueues
  <2> HIDE DEF m
  <2>3. inbox' \in Seq(ToBridge) /\ Asks'
    BY <2>1, <2>2, PostedTypes
  <2>4. PiTypeOK'
    BY <2>1, <2>3 DEF PiTypeOK, ToBridge
  <2>5. Opening' /\ StatsAnswersOwn'
    BY <2>1 DEF Opening, StatsAnswersOwn
  <2>6. RepliesInOrder'
    BY <2>1, <2>2, Posted
  <2> QED
    BY <2>3, <2>4, <2>5, <2>6
<1> QED
  BY <1>1, <1>2

-------------------------------------------------------------------------------
(* The opener and the handle's users.                                        *)

\* A command of the handle enters the channel.
LEMMA CommandKeeps ==
  ASSUME PiIInv, NEW m \in ToBridge, m.kind \in {"send", "ask", "disconnect"},
         m.kind = "ask" => m.call \in Calls, Post(<<m>>),
         UNCHANGED <<bridge, writing, waiters, ready, listening, answer, pi, stdin, stdout,
                     frames, reader>>,
         commands' \in 0 .. MaxCommands, opener' \in {"blocked", "open", "failed", "dropped"},
         calls' \in [Calls -> {"none", "waiting", "answered", "timed out", "closed"}],
         \A c \in Calls : calls'[c] = "answered" => calls[c] = "answered"
  PROVE  PiIInv'
<1> USE DEF PiIInv
<1>1. inbox' \in Seq(ToBridge) /\ Asks'
  BY PostedTypes
<1>2. PiTypeOK'
  BY <1>1 DEF PiTypeOK, ToBridge
<1>3. Opening' /\ StatsAnswersOwn'
  BY DEF Opening, StatsAnswersOwn
<1>4. m \in AnyMessage /\ m.kind # "stats"
  BY PiQueues
<1>5. RepliesInOrder'
  BY <1>4, Posted
<1> QED
  BY <1>1, <1>2, <1>3, <1>5

LEMMA CallTypes ==
  ASSUME PiTypeOK, NEW c \in Calls,
         NEW st \in {"none", "waiting", "answered", "timed out", "closed"}
  PROVE  /\ [calls EXCEPT ![c] = st]
              \in [Calls -> {"none", "waiting", "answered", "timed out", "closed"}]
         /\ \A d \in Calls : [calls EXCEPT ![c] = st][d] = IF d = c THEN st ELSE calls[d]
BY DEF PiTypeOK

LEMMA UsersKeep ==
  ASSUME PiIInv, OpenReturns \/ UserStep
  PROVE  PiIInv'
<1> USE DEF PiIInv
<1>0. /\ \A kind \in {"send", "disconnect"} :
            Plain(kind) \in ToBridge /\ Plain(kind).kind = kind
      /\ \A c \in Calls : Msg("ask", c) \in ToBridge /\ Msg("ask", c).kind = "ask"
                          /\ Msg("ask", c).call = c
  BY MessageFacts DEF ToBridge
<1>1. CASE Send
  <2>1. /\ commands' = commands + 1 /\ commands < MaxCommands /\ Post(<<Plain("send")>>)
        /\ UNCHANGED <<bridge, writing, waiters, ready, opener, listening, calls, answer, pi,
                       stdin, stdout, frames, reader>>
    BY <1>1 DEF Send
  <2>2. commands' \in 0 .. MaxCommands
    BY <2>1, PiQueues
  <2>3. /\ opener' \in {"blocked", "open", "failed", "dropped"}
        /\ calls' \in [Calls -> {"none", "waiting", "answered", "timed out", "closed"}]
    BY <2>1 DEF PiTypeOK
  <2> QED
    BY <1>0, <2>1, <2>2, <2>3, CommandKeeps
<1>2. ASSUME NEW c \in Calls, Ask(c)
      PROVE  PiIInv'
  <2> DEFINE st == IF Receiving THEN "waiting" ELSE "closed"
  <2>1. /\ calls' = [calls EXCEPT ![c] = st] /\ Post(<<Msg("ask", c)>>)
        /\ UNCHANGED <<bridge, writing, waiters, ready, opener, listening, answer, commands,
                       pi, stdin, stdout, frames, reader>>
    BY <1>2 DEF Ask
  <2>2. st \in {"none", "waiting", "answered", "timed out", "closed"} /\ st # "answered"
    OBVIOUS
  <2> HIDE DEF st
  <2>3. /\ calls' \in [Calls -> {"none", "waiting", "answered", "timed out", "closed"}]
        /\ \A d \in Calls : calls'[d] = "answered" => calls[d] = "answered"
    BY <2>1, <2>2, CallTypes
  <2>4. /\ opener' \in {"blocked", "open", "failed", "dropped"} /\ commands' \in 0 .. MaxCommands
    BY <2>1 DEF PiTypeOK
  <2> QED
    BY <1>0, <2>1, <2>3, <2>4, CommandKeeps
<1>3. CASE DropHandle
  <2>1. /\ opener' = "dropped" /\ Post(<<Plain("disconnect")>>)
        /\ UNCHANGED <<bridge, writing, waiters, ready, listening, calls, answer, commands,
                       pi, stdin, stdout, frames, reader>>
    BY <1>3 DEF DropHandle, OnDrop
  <2>2. /\ calls' \in [Calls -> {"none", "waiting", "answered", "timed out", "closed"}]
        /\ commands' \in 0 .. MaxCommands
    BY <2>1 DEF PiTypeOK
  <2> QED
    BY <1>0, <2>1, <2>2, CommandKeeps
<1>4. ASSUME NEW c \in Calls, AskTimesOut(c)
      PROVE  PiIInv'
  <2>1. /\ calls' = [calls EXCEPT ![c] = "timed out"]
        /\ UNCHANGED <<bridge, writing, waiters, inbox, ready, opener, listening, answer,
                       commands, pi, stdin, stdout, frames, reader>>
    BY <1>4 DEF AskTimesOut
  <2>2. /\ calls' \in [Calls -> {"none", "waiting", "answered", "timed out", "closed"}]
        /\ \A d \in Calls : calls'[d] = "answered" => calls[d] = "answered"
    BY <2>1, CallTypes
  <2>3. PiTypeOK'
    BY <2>1, <2>2 DEF PiTypeOK
  <2>4. Opening' /\ Asks' /\ StatsAnswersOwn'
    BY <2>1, <2>2 DEF Opening, Asks, StatsAnswersOwn
  <2>5. RepliesInOrder'
    BY <2>1 DEF RepliesInOrder, Receiving, Pipeline, Unread
  <2> QED
    BY <2>3, <2>4, <2>5
<1>5. CASE OpenReturns \/ DropEvents
  <2>1. /\ opener' \in {"blocked", "open", "failed", "dropped"} /\ listening' \in BOOLEAN
        /\ UNCHANGED <<bridge, writing, waiters, inbox, ready, calls, answer, commands, pi,
                       stdin, stdout, frames, reader>>
    BY <1>5 DEF OpenReturns, DropEvents, PiTypeOK
  <2>2. PiTypeOK'
    BY <2>1 DEF PiTypeOK
  <2>3. Opening' /\ Asks' /\ StatsAnswersOwn'
    BY <2>1 DEF Opening, Asks, StatsAnswersOwn
  <2>4. RepliesInOrder'
    BY <2>1 DEF RepliesInOrder, Receiving, Pipeline, Unread
  <2> QED
    BY <2>2, <2>3, <2>4
<1> QED
  BY <1>1, <1>2, <1>3, <1>4, <1>5 DEF UserStep

-------------------------------------------------------------------------------
(* The bridge.                                                               *)

LEMMA LeaveKeeps ==
  ASSUME PiIInv, Leave, ready' \in {"none", "ok", "err"},
         UNCHANGED <<writing, opener, listening, answer, commands, pi, stdin, stdout, frames,
                     reader>>
  PROVE  PiIInv'
<1>1. /\ bridge' = "teardown" /\ inbox' = <<>> /\ waiters' = <<>>
      /\ calls' = [c \in Calls |-> IF calls[c] = "waiting" THEN "closed" ELSE calls[c]]
  BY DEF Leave
<1>2. PiTypeOK
  BY DEF PiIInv
<1>3. /\ calls' \in [Calls -> {"none", "waiting", "answered", "timed out", "closed"}]
      /\ \A c \in Calls : calls'[c] = "answered" => calls[c] = "answered"
  BY <1>1, <1>2 DEF PiTypeOK
<1>4. inbox' \in Seq(ToBridge) /\ waiters' \in Seq(Calls)
  BY <1>1
<1>5. PiTypeOK'
  BY <1>1, <1>2, <1>3, <1>4 DEF PiTypeOK, ToBridge
<1>6. ~Receiving' /\ bridge' \notin AtStart
  BY <1>1 DEF Receiving, AtStart
<1> QED
  BY <1>1, <1>3, <1>5, <1>6, Closed

LEMMA StartKeeps ==
  ASSUME PiIInv, WriteFirstPrompt
  PROVE  PiIInv'
<1> USE DEF PiIInv
<1>1. /\ bridge \in AtStart
      /\ UNCHANGED <<writing, waiters, inbox, opener, listening, calls, answer, commands,
                     pi, stdout, frames, reader>>
  BY DEF WriteFirstPrompt, AtStart
<1>2. CASE pi = "gone"
  <2>1. bridge' = "teardown" /\ ready' = "err" /\ UNCHANGED stdin
    BY <1>2 DEF WriteFirstPrompt
  <2>2. PiTypeOK'
    BY <1>1, <2>1 DEF PiTypeOK
  <2>3. ~Receiving' /\ bridge' \notin AtStart
    BY <2>1 DEF Receiving, AtStart
  <2> QED
    BY <1>1, <2>2, <2>3, Closed
<1>3. CASE pi # "gone"
  <2> DEFINE m == Plain("prompt")
  <2>1. bridge' = "readiness" /\ stdin' = <<m>> /\ UNCHANGED ready
    BY <1>3 DEF WriteFirstPrompt
  <2>2. m \in ToPi /\ m \in AnyMessage /\ m.kind # "stats"
    BY MessageFacts, PiQueues DEF ToPi
  <2> HIDE DEF m
  <2>3. stdin' \in Seq(ToPi) /\ Len(stdin') = 1 /\ Len(stdin') <= PipeCapacity
    BY <2>1, <2>2, PiQueues
  <2>4. PiTypeOK'
    BY <1>1, <2>1, <2>3 DEF PiTypeOK, ToPi
  <2>5. Opening' /\ Asks' /\ StatsAnswersOwn'
    BY <1>1, <2>1 DEF Opening, Asks, StatsAnswersOwn, AtStart
  <2>6. RepliesInOrder'
    <3> DEFINE P == inbox \o stdout
    <3>1. P \in Seq(AnyMessage) /\ <<>> \in Seq(AnyMessage)
      BY PiTypes, ConcatFacts
    <3>2. Unread = <<>> /\ Unread' = <<m>>
      BY <1>1, <1>3, <2>1 DEF Opening, Unread
    <3>3. Pipeline = P \o <<>>
      BY <3>2 DEF Pipeline
    <3>4. P \o <<m>> = Append(P, m) \o <<>>
      BY <3>1, <2>2, Ends, Nothing, AppendFacts
    <3>5. Pipeline' = Append(P, m) \o <<>>
      BY <3>2, <3>4, <1>1 DEF Pipeline
    <3> HIDE DEF P
    <3>6. InOrder(P \o <<>>, waiters, pi # "gone")
      BY <1>1, <3>3 DEF RepliesInOrder, Receiving, AtStart
    <3>7. InOrder(Append(P, m) \o <<>>, waiters, pi # "gone")
      BY <3>1, <3>6, <2>2, PiTypes, InsertOther
    <3> QED
      BY <3>5, <3>7, <1>1 DEF RepliesInOrder
  <2> QED
    BY <2>4, <2>5, <2>6
<1> QED
  BY <1>2, <1>3

\* The bridge takes a message that is no statistics, and does nothing else that
\* matters.
LEMMA PassKeeps ==
  ASSUME PiIInv, Receiving, inbox # <<>>, inbox' = Tail(inbox), Head(inbox).kind # "stats",
         bridge' = bridge \/ (bridge' = "main" /\ ready' = "ok"), bridge' \notin AtStart,
         ready' \in {"none", "ok", "err"},
         UNCHANGED <<writing, waiters, opener, listening, calls, answer, commands, pi, stdin,
                     stdout, frames, reader>>
  PROVE  PiIInv'
<1> USE DEF PiIInv
<1>1. inbox' \in Seq(ToBridge) /\ Asks'
  BY TakenTypes
<1>2. PiTypeOK'
  BY <1>1 DEF PiTypeOK, ToBridge
<1>3. Opening' /\ StatsAnswersOwn'
  BY DEF Opening, StatsAnswersOwn
<1>4. RepliesInOrder'
  <2>1. Pipeline' = Tail(Pipeline)
    BY Taken DEF Pipeline, Unread
  <2>2. InOrder(Pipeline, waiters, pi # "gone")
    BY DEF RepliesInOrder
  <2>3. InOrder(Tail(Pipeline), waiters, pi # "gone")
    BY <2>2, Taken, PiTypes, PassOther
  <2> QED
    BY <2>1, <2>3 DEF RepliesInOrder
<1> QED
  BY <1>1, <1>2, <1>3, <1>4

LEMMA ReadinessKeeps ==
  ASSUME PiIInv, Readiness \/ ReadinessTimesOut
  PROVE  PiIInv'
<1> USE DEF PiIInv
<1>1. /\ bridge = "readiness" /\ Receiving
      /\ UNCHANGED <<writing, opener, listening, answer, commands, pi, stdin, stdout, frames,
                     reader>>
  BY DEF Readiness, ReadinessTimesOut, Receiving
<1>2. CASE Leave /\ ready' = "err"
  BY <1>1, <1>2, LeaveKeeps
<1>3. CASE ~(Leave /\ ready' = "err")
  <2>1. /\ inbox # <<>> /\ inbox' = Tail(inbox) /\ UNCHANGED <<waiters, calls>>
        /\ \/ bridge' = "main" /\ ready' = "ok"
           \/ UNCHANGED <<bridge, ready>>
    BY <1>3 DEF Readiness, ReadinessTimesOut
  <2>2. Head(inbox).kind # "stats"
    <3>1. InOrder(Pipeline, waiters, pi # "gone") /\ waiters = <<>>
      BY <1>1 DEF RepliesInOrder, Opening
    <3> QED
      BY <3>1, <2>1, Taken, PiTypes, ReplyIsFirst
  <2>3. ready' \in {"none", "ok", "err"} /\ bridge' \notin AtStart
    BY <1>1, <2>1 DEF PiTypeOK, AtStart
  <2> QED
    BY <1>1, <2>1, <2>2, <2>3, PassKeeps
<1> QED
  BY <1>2, <1>3

LEMMA FrameKeeps ==
  ASSUME PiIInv, HandleFrame
  PROVE  PiIInv'
<1> USE DEF PiIInv
<1> DEFINE m == Head(inbox)
<1>1. /\ bridge = "main" /\ Receiving /\ inbox # <<>>
      /\ UNCHANGED <<writing, ready, opener, listening, commands, pi, stdin, stdout, frames,
                     reader>>
  BY DEF HandleFrame, Receiving
<1>2. CASE m.kind = "event" /\ ~listening
  <2>1. Leave /\ UNCHANGED answer
    BY <1>2 DEF HandleFrame
  <2> QED
    BY <1>1, <2>1, LeaveKeeps DEF PiTypeOK
<1>3. CASE ~(m.kind = "event" /\ ~listening) /\ m.kind # "stats"
  <2>1. inbox' = Tail(inbox) /\ UNCHANGED <<bridge, waiters, calls, answer>>
    BY <1>3 DEF HandleFrame
  <2> QED
    BY <1>1, <1>3, <2>1, PassKeeps DEF PiTypeOK, AtStart
<1>4. CASE m.kind = "stats"
  <2>1. inbox' = Tail(inbox) /\ UNCHANGED bridge /\ Reply(m.call)
    BY <1>4 DEF HandleFrame
  <2>2. InOrder(Pipeline, waiters, pi # "gone")
    BY <1>1 DEF RepliesInOrder
  <2>3. /\ waiters # <<>> /\ Head(waiters) = m.call
        /\ InOrder(Tail(Pipeline), Tail(waiters), pi # "gone")
    BY <1>1, <1>4, <2>2, Taken, PiTypes, ReplyIsFirst
  <2>4. m.call \in Calls /\ waiters \in Seq(Calls) /\ Tail(waiters) \in Seq(Calls)
    BY <2>3, PiTypes, TailFacts
  <2>5. /\ waiters' = Tail(waiters)
        /\ \/ UNCHANGED <<calls, answer>>
           \/ /\ calls' = [calls EXCEPT ![m.call] = "answered"]
              /\ answer' = [answer EXCEPT ![m.call] = m.call]
    BY <2>1, <2>3 DEF Reply, Front
  <2>6. /\ calls' \in [Calls -> {"none", "waiting", "answered", "timed out", "closed"}]
        /\ answer' \in [Calls -> Calls \cup {NoCall}]
        /\ StatsAnswersOwn'
    <3>1. CASE UNCHANGED <<calls, answer>>
      BY <3>1 DEF PiTypeOK, StatsAnswersOwn
    <3>2. CASE /\ calls' = [calls EXCEPT ![m.call] = "answered"]
               /\ answer' = [answer EXCEPT ![m.call] = m.call]
      <4> HIDE DEF m
      <4>1. /\ answer' \in [Calls -> Calls \cup {NoCall}]
            /\ \A c \in Calls : answer'[c] = IF c = m.call THEN m.call ELSE answer[c]
        BY <3>2, <2>4 DEF PiTypeOK
      <4>2. /\ calls' \in [Calls -> {"none", "waiting", "answered", "timed out", "closed"}]
            /\ \A c \in Calls : calls'[c] = IF c = m.call THEN "answered" ELSE calls[c]
        BY <3>2, <2>4, CallTypes
      <4> QED
        BY <4>1, <4>2 DEF StatsAnswersOwn
    <3> QED
      BY <2>5, <3>1, <3>2
  <2>7. inbox' \in Seq(ToBridge) /\ Asks'
    BY <1>1, <2>1, TakenTypes
  <2>8. PiTypeOK'
    BY <1>1, <2>1, <2>4, <2>5, <2>6, <2>7 DEF PiTypeOK, ToBridge
  <2>9. Opening'
    BY <1>1, <2>1 DEF Opening, AtStart
  <2>10. RepliesInOrder'
    <3>1. Pipeline' = Tail(Pipeline)
      BY <1>1, <2>1, Taken DEF Pipeline, Unread
    <3> QED
      BY <3>1, <2>3, <2>5, <1>1 DEF RepliesInOrder
  <2> QED
    BY <2>6, <2>7, <2>8, <2>9, <2>10
<1> QED
  BY <1>2, <1>3, <1>4

LEMMA CommandHandled ==
  ASSUME PiIInv, HandleCommand
  PROVE  PiIInv'
<1> USE DEF PiIInv
<1> DEFINE h == Head(inbox)
           m == IF h.kind = "ask" THEN Msg("stats", h.call) ELSE Plain("done")
           Q == Tail(inbox) \o stdout \o Unread
<1>1. /\ bridge = "main" /\ Receiving /\ writing = <<>> /\ inbox # <<>>
      /\ inbox' = Tail(inbox) /\ h.kind \in {"send", "ask"} /\ writing' = <<m>>
      /\ waiters' = IF h.kind = "ask" THEN Append(waiters, h.call) ELSE waiters
      /\ UNCHANGED <<bridge, ready, opener, listening, calls, answer, commands, pi, stdin,
                     stdout, frames, reader>>
  BY DEF HandleCommand, Receiving
<1>2. inbox' \in Seq(ToBridge) /\ Asks' /\ (h.kind = "ask" => h.call \in Calls)
  BY <1>1, TakenTypes
<1>3. m \in Messages({"stats", "done"}) /\ m \in AnyMessage
      /\ (h.kind = "ask" => m.kind = "stats" /\ m.call = h.call)
      /\ (h.kind # "ask" => m.kind # "stats")
  <2>1. CASE h.kind = "ask"
    <3>1. m = Msg("stats", h.call)
      BY <2>1
    <3> QED
      BY <3>1, <1>2, <2>1, MessageFacts DEF AnyMessage, Kinds, Replies
  <2>2. CASE h.kind # "ask"
    <3>1. m = Plain("done")
      BY <2>2
    <3> QED
      BY <3>1, <2>2, MessageFacts DEF AnyMessage, Kinds, Replies
  <2> QED
    BY <2>1, <2>2
<1> HIDE DEF m
<1>4. waiters' \in Seq(Calls) /\ writing' \in Seq(Messages({"stats", "done"})) /\ Len(writing') <= 1
  BY <1>1, <1>2, <1>3, PiTypes
<1>5. PiTypeOK'
  <2>1. UNCHANGED <<bridge, ready, opener, listening, calls, answer, commands, pi, stdin,
                    stdout, frames, reader>>
    BY <1>1
  <2> QED
    BY <2>1, <1>2, <1>4 DEF PiTypeOK, ToBridge
<1>6. Opening' /\ StatsAnswersOwn'
  BY <1>1 DEF Opening, StatsAnswersOwn, AtStart
<1>7. RepliesInOrder'
  <2>1. InOrder(Q, waiters, pi # "gone") /\ Q \in Seq(AnyMessage)
    <3>1. InOrder(Pipeline, waiters, pi # "gone") /\ Head(inbox).kind # "stats"
      BY <1>1 DEF RepliesInOrder
    <3>2. InOrder(Tail(Pipeline), waiters, pi # "gone")
      BY <1>1, <3>1, Taken, PiTypes, PassOther
    <3> QED
      BY <1>1, <3>2, Taken, TailFacts
  <2>2. Pipeline' = Tail(inbox) \o stdout \o Unread'
    BY <1>1 DEF Pipeline
  <2> HIDE DEF h
  <2>3. CASE pi = "gone"
    <3>1. Pipeline' = Q
      BY <2>2, <2>3, <1>1 DEF Unread
    <3>2. InOrder(Q, waiters', pi # "gone")
      BY <1>1, <1>2, <2>1, <2>3, PiTypes, MoreCallers
    <3> QED
      BY <3>1, <3>2, <1>1 DEF RepliesInOrder
  <2>4. CASE pi # "gone"
    <3>1. Unread = stdin /\ Unread' = Append(Unread, m)
      <4>1. Unread = stdin \o <<>> /\ Unread' = stdin \o <<m>>
        BY <2>4, <1>1 DEF Unread
      <4> QED
        BY <4>1, <1>3, PiTypes, Ends, Nothing
    <3>2. Pipeline' = Append(Q, m)
      <4>1. Tail(inbox) \o stdout \in Seq(AnyMessage)
        BY <1>1, PiTypes, ConcatFacts, TailFacts
      <4> DEFINE A == Tail(inbox) \o stdout
      <4>2. Pipeline' = A \o Append(Unread, m) /\ Q = A \o Unread
        BY <3>1, <2>2
      <4> HIDE DEF A, Q
      <4>3. A \o Append(Unread, m) = Append(A \o Unread, m)
        <5>1. A \in Seq(AnyMessage) /\ Unread \in Seq(AnyMessage) /\ m \in AnyMessage
          BY <4>1, <1>3, PiTypes DEF A
        <5> QED
          BY <5>1, Ends
      <4> QED
        BY <4>2, <4>3
    <3> HIDE DEF Q
    <3>3. CASE h.kind = "ask"
      <4>1. InOrder(Append(Q, m), Append(waiters, m.call), TRUE)
        BY <3>3, <1>2, <1>3, <2>1, <2>4, PiTypes, AskLast
      <4> QED
        BY <4>1, <3>2, <3>3, <1>1, <1>3, <2>4 DEF RepliesInOrder
    <3>4. CASE h.kind # "ask"
      <4>1. InOrder(Q \o <<>>, waiters, pi # "gone") /\ <<>> \in Seq(AnyMessage)
        BY <2>1, Nothing
      <4>2. InOrder(Append(Q, m) \o <<>>, waiters, pi # "gone")
        BY <4>1, <3>4, <1>3, <2>1, PiTypes, InsertOther
      <4>3. Append(Q, m) \o <<>> = Append(Q, m)
        BY <1>3, <2>1, AppendFacts, Nothing
      <4> QED
        BY <4>2, <4>3, <3>2, <3>4, <1>1 DEF RepliesInOrder
    <3> QED
      BY <3>3, <3>4
  <2> QED
    BY <2>3, <2>4
<1> QED
  BY <1>2, <1>5, <1>6, <1>7

LEMMA WrittenKeeps ==
  ASSUME PiIInv, WriteCommand
  PROVE  PiIInv'
<1> USE DEF PiIInv
<1>1. /\ writing # <<>> /\ writing' = <<>>
      /\ pi = "gone" \/ Len(stdin) < PipeCapacity
      /\ stdin' = IF pi = "gone" THEN stdin ELSE stdin \o writing
      /\ UNCHANGED <<bridge, waiters, inbox, ready, opener, listening, calls, answer,
                     commands, pi, stdout, frames, reader>>
  BY DEF WriteCommand
<1>2. stdin' \in Seq(ToPi) /\ Len(stdin') <= PipeCapacity
  <2>1. writing \in Seq(ToPi) /\ Len(writing) \in Nat /\ Len(writing) <= 1
    <3>1. Messages({"stats", "done"}) \subseteq ToPi
      BY DEF ToPi, Messages
    <3>2. writing \in Seq(Messages({"stats", "done"})) /\ Len(writing) <= 1
      BY DEF PiTypeOK
    <3> QED
      BY <3>1, <3>2, SeqsGrow
  <2>2. stdin \o writing \in Seq(ToPi) /\ Len(stdin \o writing) = Len(stdin) + Len(writing)
        /\ Len(stdin) \in Nat
    BY <2>1, PiQueues, ConcatFacts
  <2> QED
    BY <2>1, <2>2, <1>1, PiQueues
<1>3. writing' \in Seq(Messages({"stats", "done"})) /\ Len(writing') <= 1
  BY <1>1
<1>4. PiTypeOK'
  BY <1>1, <1>2, <1>3 DEF PiTypeOK, ToPi
<1>5. Opening' /\ Asks' /\ StatsAnswersOwn'
  BY <1>1 DEF Opening, Asks, StatsAnswersOwn
<1>6. Pipeline' = Pipeline
  <2>1. stdin \o writing \in Seq(AnyMessage)
    BY PiTypes, ConcatFacts
  <2>2. Unread' = Unread
    BY <1>1, <2>1, Nothing DEF Unread
  <2> QED
    BY <2>2, <1>1 DEF Pipeline
<1>7. RepliesInOrder'
  BY <1>1, <1>6 DEF RepliesInOrder, Receiving
<1> QED
  BY <1>4, <1>5, <1>7

LEMMA BridgeEndKeeps ==
  ASSUME PiIInv, HandleEnd \/ Teardown \/ JoinReaders
  PROVE  PiIInv'
<1> USE DEF PiIInv
<1>1. CASE HandleEnd
  <2>1. /\ Leave
        /\ UNCHANGED <<writing, ready, opener, listening, answer, commands, pi, stdin,
                       stdout, frames, reader>>
    BY <1>1 DEF HandleEnd
  <2> QED
    BY <2>1, LeaveKeeps DEF PiTypeOK
<1>2. CASE Teardown \/ JoinReaders
  <2>1. /\ bridge' \in {"joining", "ended"} /\ (stdin' = stdin \/ stdin' = <<>>)
        /\ (pi' = pi \/ pi' = "gone")
        /\ UNCHANGED <<writing, waiters, inbox, ready, opener, listening, calls, answer,
                       commands, stdout, frames, reader>>
    BY <1>2 DEF Teardown, JoinReaders
  <2>2. stdin' \in Seq(ToPi) /\ Len(stdin') <= PipeCapacity
    <3>1. CASE stdin' = <<>>
      BY <3>1, PiQueues
    <3>2. CASE stdin' = stdin
      BY <3>2, PiQueues
    <3> QED
      BY <2>1, <3>1, <3>2
  <2>3. PiTypeOK'
    BY <2>1, <2>2 DEF PiTypeOK, ToPi
  <2>4. ~Receiving' /\ bridge' \notin AtStart
    BY <2>1 DEF Receiving, AtStart
  <2> QED
    BY <2>1, <2>3, <2>4, Closed
<1> QED
  BY <1>1, <1>2

-------------------------------------------------------------------------------
(* The theorems.                                                             *)

LEMMA PiInitInvariant == PiInit => PiIInv
<1> SUFFICES ASSUME PiInit PROVE PiIInv
  OBVIOUS
<1>0. /\ bridge \in AtStart /\ writing = <<>> /\ waiters = <<>> /\ inbox = <<>>
      /\ ready = "none" /\ opener = "blocked" /\ listening = TRUE
      /\ calls = [c \in Calls |-> "none"] /\ answer = [c \in Calls |-> NoCall]
      /\ commands = 0 /\ pi = "runs" /\ stdin = <<>> /\ stdout = <<>> /\ frames = 0
      /\ reader = "reads"
  BY DEF PiInit, AtStart
<1>1. /\ writing \in Seq(Messages({"stats", "done"})) /\ Len(writing) <= 1
      /\ waiters \in Seq(Calls)
      /\ inbox \in Seq(ToBridge) /\ stdin \in Seq(ToPi) /\ stdout \in Seq(FromPi)
      /\ Len(stdin) <= PipeCapacity /\ Len(stdout) <= PipeCapacity
      /\ commands \in 0 .. MaxCommands /\ frames \in 0 .. MaxFrames
  BY <1>0, PiBoundsAssumption
<1>2. PiTypeOK
  BY <1>0, <1>1 DEF AtStart, PiTypeOK, ToBridge, ToPi, FromPi
<1>3. Opening /\ Asks /\ StatsAnswersOwn
  BY <1>0 DEF Opening, Asks, StatsAnswersOwn
<1>4. Pipeline = <<>> /\ waiters = <<>>
  <2>1. Unread = <<>>
    BY <1>0 DEF Unread
  <2> QED
    BY <1>0, <2>1 DEF Pipeline
<1>5. RepliesInOrder
  BY <1>4, NoneInOrder DEF RepliesInOrder
<1> QED
  BY <1>2, <1>3, <1>5 DEF PiIInv

LEMMA HeldKeeps ==
  ASSUME PiIInv, PipeHeld
  PROVE  PiIInv'
<1>1. /\ reader' \in {"reads", "held", "done"}
      /\ UNCHANGED <<bridge, writing, waiters, inbox, ready, opener, listening, calls, answer,
                     commands, pi, stdin, stdout, frames>>
  BY DEF PipeHeld
<1>2. PiTypeOK'
  BY <1>1 DEF PiIInv, PiTypeOK
<1>3. Opening' /\ Asks' /\ StatsAnswersOwn'
  BY <1>1 DEF PiIInv, Opening, Asks, StatsAnswersOwn
<1>4. RepliesInOrder'
  BY <1>1 DEF PiIInv, RepliesInOrder, Receiving, Pipeline, Unread
<1> QED
  BY <1>2, <1>3, <1>4 DEF PiIInv

LEMMA PiNextInvariant == PiIInv /\ [PiNext]_piVars => PiIInv'
<1> SUFFICES ASSUME PiIInv, [PiNext]_piVars PROVE PiIInv'
  OBVIOUS
<1>1. CASE BridgeStep
  <2>1. CASE WriteFirstPrompt \/ Readiness \/ ReadinessTimesOut
    BY <2>1, StartKeeps, ReadinessKeeps
  <2>2. CASE HandleFrame \/ HandleCommand \/ WriteCommand
    BY <2>2, FrameKeeps, CommandHandled, WrittenKeeps
  <2>3. CASE HandleEnd \/ Teardown \/ JoinReaders
    BY <2>3, BridgeEndKeeps
  <2> QED
    BY <1>1, <2>1, <2>2, <2>3 DEF BridgeStep
<1>2. CASE ReaderStep
  BY <1>2, ReaderKeeps DEF ReaderStep
<1>3. CASE PiStep
  <2>1. CASE PipeHeld
    BY <2>1, HeldKeeps
  <2> QED
    BY <1>3, <2>1, PiAnswersKeeps, PiEmitsKeeps, PiEndsKeeps DEF PiStep
<1>4. CASE OpenReturns \/ UserStep
  BY <1>4, UsersKeep
<1>5. CASE UNCHANGED piVars
  <2>1. UNCHANGED <<bridge, writing, waiters, inbox, ready, opener, listening, calls, answer,
                    commands, pi, stdin, stdout, frames, reader>>
    BY <1>5 DEF piVars
  <2>2. PiTypeOK'
    BY <2>1 DEF PiIInv, PiTypeOK
  <2>3. Opening' /\ Asks' /\ StatsAnswersOwn'
    BY <2>1 DEF PiIInv, Opening, Asks, StatsAnswersOwn
  <2>4. RepliesInOrder'
    BY <2>1 DEF PiIInv, RepliesInOrder, Receiving, Pipeline, Unread
  <2> QED
    BY <2>2, <2>3, <2>4 DEF PiIInv
<1> QED
  BY <1>1, <1>2, <1>3, <1>4, <1>5 DEF PiNext

LEMMA PiInvariance == PiSpec => []PiIInv
BY PiInitInvariant, PiNextInvariant, PTL DEF PiSpec

\* The types of the Pi session: pipes within their capacity, one command written
\* at a time.
THEOREM PiTypeCorrect == PiSpec => []PiTypeOK
<1>1. PiIInv => PiTypeOK
  BY DEF PiIInv
<1> QED
  BY <1>1, PiInvariance, PTL

\* Whoever gets a reply to get_context_usage gets the one to its own request, however
\* many callers gave up before it and whatever Pi writes in between.
THEOREM StatsAlwaysAnswerOwn == PiSpec => []StatsAnswersOwn
<1>1. PiIInv => StatsAnswersOwn
  BY DEF PiIInv
<1> QED
  BY <1>1, PiInvariance, PTL

-------------------------------------------------------------------------------
(* Codex: the elements of a sequence, and the invariant.                     *)

Elements(s) == {s[i] : i \in DOMAIN s}

LEMMA ElementsFacts ==
  /\ Elements(<<>>) = {}
  /\ \A x : Elements(<<x>>) = {x}
  /\ \A S : \A s \in Seq(S) : s # <<>> => Elements(s) = {Head(s)} \cup Elements(Tail(s))
  /\ \A S : \A s \in Seq(S), x \in S : Elements(Append(s, x)) = Elements(s) \cup {x}
<1>1. Elements(<<>>) = {} /\ \A x : Elements(<<x>>) = {x}
  BY DEF Elements
<1>2. ASSUME NEW S, NEW s \in Seq(S), s # <<>>
      PROVE  Elements(s) = {Head(s)} \cup Elements(Tail(s))
  <2>1. ASSUME NEW x \in Elements(s) PROVE x \in {Head(s)} \cup Elements(Tail(s))
    <3>1. PICK i \in 1 .. Len(s) : x = s[i]
      BY <2>1, <1>2, TailFacts DEF Elements
    <3>2. CASE i = 1
      BY <3>1, <3>2, <1>2, TailFacts
    <3>3. CASE i # 1
      <4>1. i - 1 \in DOMAIN Tail(s) /\ Tail(s)[i - 1] = s[i]
        BY <3>3, <1>2, TailFacts
      <4> QED
        BY <4>1, <3>1 DEF Elements
    <3> QED
      BY <3>2, <3>3
  <2>2. ASSUME NEW x \in Elements(Tail(s)) PROVE x \in Elements(s)
    <3>1. PICK i \in 1 .. Len(s) - 1 : x = s[i + 1]
      BY <2>2, <1>2, TailFacts DEF Elements
    <3>2. i + 1 \in DOMAIN s
      BY <3>1, <1>2, TailFacts
    <3> QED
      BY <3>1, <3>2 DEF Elements
  <2>3. Head(s) \in Elements(s)
    BY <1>2, TailFacts DEF Elements
  <2> QED
    BY <2>1, <2>2, <2>3
<1>3. ASSUME NEW S, NEW s \in Seq(S), NEW x \in S
      PROVE  Elements(Append(s, x)) = Elements(s) \cup {x}
  <2>1. ASSUME NEW y \in Elements(Append(s, x)) PROVE y \in Elements(s) \cup {x}
    BY <2>1, AppendFacts DEF Elements
  <2>2. ASSUME NEW y \in Elements(s) PROVE y \in Elements(Append(s, x))
    BY <2>2, AppendFacts DEF Elements
  <2>3. x \in Elements(Append(s, x))
    BY AppendFacts DEF Elements
  <2> QED
    BY <2>1, <2>2, <2>3
<1> QED
  BY <1>1, <1>2, <1>3

-------------------------------------------------------------------------------
Awaits == task.pc = "await"
Starting == {"first turn", "turn"}
Answers == {m \in Elements(serverOut) \cup Elements(result) :
              m.kind = "response" /\ m.id = task.id}

OneRequest ==
  /\ routing
  /\ result # <<>> => /\ Awaits /\ pendingIds = {}
                      /\ result[1].kind = "response" /\ result[1].id = task.id
  /\ Awaits => task.id < nextId
  /\ Awaits /\ result = <<>> => pendingIds = {task.id}
  /\ ~Awaits => pendingIds = {}
  /\ \A i \in DOMAIN serverIn : serverIn[i].id < nextId
  /\ \A m \in Elements(serverOut) : m.kind = "response" => m.id < nextId
  /\ Awaits => \A i \in DOMAIN serverIn : serverIn[i].id = task.id =>
                 i = Len(serverIn) /\ serverIn[i].method = task.method /\ Answers = {}

TurnsKnown ==
  /\ \A i \in DOMAIN serverIn :
        /\ serverIn[i].method \in Starting => Awaits /\ serverIn[i].id = task.id
        /\ serverIn[i].method = "interrupt" => serverIn[i].turn = latestTurn
  /\ Awaits => \A m \in Answers :
        /\ m.turn = latestTurn
        /\ (m.ok /\ task.method \in Starting) \/ task.turn = latestTurn
  /\ task.turn = latestTurn \/ (Awaits /\ task.method \in Starting /\ Answers # {})

CodexIInv == /\ CodexTypeOK
             /\ server = "gone" => serverIn = <<>>
             /\ server = "runs" => OneRequest
             /\ server = "runs" /\ ~lost => TurnsKnown

-------------------------------------------------------------------------------
Tasks == [pc : {"request", "await", "select", "shutdown", "ended"},
          method : Methods, id : Nat, turn : Nat]
ServerRequests == [method : Methods, id : Nat, turn : Nat]

LEMMA TaskFacts ==
  ASSUME CodexTypeOK
  PROVE  /\ task \in Tasks /\ task.id \in Nat /\ task.turn \in Nat /\ task.method \in Methods
         /\ nextId \in Nat /\ latestTurn \in Nat
         /\ serverIn \in Seq(ServerRequests) /\ serverOut \in Seq(ServerMessages)
         /\ result \in Seq(ServerMessages) /\ channel \in Seq(ServerMessages)
BY DEF CodexTypeOK, Tasks, ServerRequests

LEMMA ServerAnswersKeeps ==
  ASSUME CodexIInv, ServerAnswers
  PROVE  CodexIInv'
<1> USE TaskFacts DEF CodexIInv
<1> DEFINE r == Head(serverIn)
<1>1. PICK ok \in BOOLEAN, turn \in Nat :
        /\ turn = latestTurn + IF ok /\ r.method \in Starting THEN 1 ELSE 0
        /\ latestTurn' = turn
        /\ serverOut' = Append(serverOut, Response(r.id, ok, turn))
  <2>1. PICK ok \in BOOLEAN :
          /\ latestTurn' = latestTurn + IF ok /\ r.method \in Starting THEN 1 ELSE 0
          /\ serverOut' = Append(serverOut, Response(r.id, ok, latestTurn'))
    BY Zenon DEF ServerAnswers, Starting
  <2>2. latestTurn' \in Nat
    BY <2>1
  <2> QED
    BY <2>1, <2>2
<1> DEFINE m == Response(r.id, ok, turn)
<1>2. /\ server = "runs" /\ serverIn # <<>> /\ Len(serverOut) < OutCapacity
      /\ serverIn' = Tail(serverIn)
      /\ UNCHANGED <<task, nextId, pendingIds, result, channel, codexReady, codexOpener,
                     consumer, control, controls, server, notices, asked, routing, lost>>
  BY DEF ServerAnswers, ownerVars
<1>3. r \in ServerRequests /\ r = serverIn[1] /\ Len(serverIn) \in Nat \ {0}
      /\ serverIn' \in Seq(ServerRequests) /\ DOMAIN serverIn' = 1 .. Len(serverIn) - 1
      /\ Len(serverIn') = Len(serverIn) - 1 /\ DOMAIN serverIn = 1 .. Len(serverIn)
      /\ \A i \in 1 .. Len(serverIn) - 1 : serverIn'[i] = serverIn[i + 1]
  BY <1>2, TailFacts
<1>4. m \in ServerMessages /\ m.kind = "response" /\ m.id = r.id /\ m.ok = ok /\ m.turn = turn
  BY <1>3, <1>1 DEF Response, ServerMessages, ServerRequests
<1>5. /\ serverOut' \in Seq(ServerMessages) /\ Len(serverOut') = Len(serverOut) + 1
      /\ Elements(serverOut') = Elements(serverOut) \cup {m}
  BY <1>1, <1>4, AppendFacts, ElementsFacts
<1>6. CodexTypeOK'
  <2>1. Len(serverOut') <= OutCapacity
    BY <1>2, <1>5, CodexBoundsAssumption
  <2>2. latestTurn' \in Nat
    BY <1>1
  <2> QED
    BY <2>1, <2>2, <1>2, <1>3, <1>5 DEF CodexTypeOK, ServerRequests
<1>7. Answers' = IF r.id = task.id THEN Answers \cup {m} ELSE Answers
  BY <1>2, <1>4, <1>5 DEF Answers
<1>8. r.id < nextId /\ (Awaits /\ r.id = task.id =>
         Len(serverIn) = 1 /\ r.method = task.method /\ Answers = {})
  <2>1. 1 \in DOMAIN serverIn
    BY <1>3
  <2> QED
    BY <2>1, <1>2, <1>3 DEF OneRequest
<1>9. OneRequest'
  <2>1. ASSUME NEW i \in DOMAIN serverIn', Awaits', serverIn'[i].id = task'.id
        PROVE  i = Len(serverIn') /\ serverIn'[i].method = task'.method /\ Answers' = {}
    <3>1. serverIn[i + 1].id = task.id /\ i + 1 \in DOMAIN serverIn
      BY <2>1, <1>2, <1>3
    <3>2. i + 1 = Len(serverIn) /\ serverIn[i + 1].method = task.method /\ Answers = {}
      BY <3>1, <2>1, <1>2 DEF OneRequest, Awaits
    <3>3. r.id # task.id
      BY <3>2, <1>8, <2>1, <1>3, <1>2 DEF Awaits
    <3> QED
      BY <3>2, <3>3, <1>7, <1>2, <1>3
  <2>2. \A i \in DOMAIN serverIn' : serverIn'[i].id < nextId'
    BY <1>2, <1>3 DEF OneRequest
  <2>3. \A x \in Elements(serverOut') : x.kind = "response" => x.id < nextId'
    BY <1>2, <1>5, <1>4, <1>8 DEF OneRequest
  <2> QED
    BY <1>2, <2>1, <2>2, <2>3 DEF OneRequest, Awaits
<1>10. ASSUME ~lost PROVE TurnsKnown'
  <2>1. TurnsKnown
    BY <1>10, <1>2
  <2>2. CASE r.method \in Starting
    <3>1. Awaits /\ r.id = task.id /\ Len(serverIn) = 1 /\ r.method = task.method /\ Answers = {}
      BY <2>1, <2>2, <1>3, <1>8 DEF TurnsKnown
    <3>2. DOMAIN serverIn' = {} /\ Answers' = {m}
      BY <3>1, <1>3, <1>7
    <3>3. task.turn = latestTurn
      BY <3>1, <2>1 DEF TurnsKnown
    <3>4. m.turn = latestTurn' /\ ((m.ok /\ task.method \in Starting) \/ task.turn = latestTurn')
      BY <3>1, <3>3, <1>1, <1>4, <2>2
    <3> QED
      BY <3>1, <3>2, <3>3, <3>4, <1>1, <1>2 DEF TurnsKnown, Awaits
  <2>3. CASE r.method \notin Starting
    <3>1. latestTurn' = latestTurn /\ m.turn = latestTurn
      BY <2>3, <1>1, <1>4
    <3>2. ASSUME Awaits, r.id = task.id PROVE task.turn = latestTurn
      BY <3>2, <1>8, <2>1, <2>3 DEF TurnsKnown
    <3>3. \A i \in DOMAIN serverIn' :
             /\ serverIn'[i].method \in Starting => Awaits' /\ serverIn'[i].id = task'.id
             /\ serverIn'[i].method = "interrupt" => serverIn'[i].turn = latestTurn'
      BY <3>1, <1>2, <1>3, <2>1 DEF TurnsKnown, Awaits
    <3>4. Awaits' => \A x \in Answers' :
             x.turn = latestTurn' /\ ((x.ok /\ task'.method \in Starting) \/ task'.turn = latestTurn')
      BY <3>1, <3>2, <1>2, <1>7, <2>1 DEF TurnsKnown, Awaits
    <3>5. task'.turn = latestTurn' \/ (Awaits' /\ task'.method \in Starting /\ Answers' # {})
      BY <3>1, <1>2, <1>7, <2>1 DEF TurnsKnown, Awaits
    <3> QED
      BY <3>3, <3>4, <3>5 DEF TurnsKnown
  <2> QED
    BY <2>2, <2>3
<1> QED
  BY <1>2, <1>6, <1>9, <1>10

\* A step that leaves the exchange of messages as it is.
LEMMA ExchangeKept ==
  ASSUME CodexIInv, CodexTypeOK',
         UNCHANGED <<nextId, pendingIds, result, serverIn, serverOut, server, latestTurn,
                     routing, lost>>,
         \/ task' = task
         \/ ~Awaits /\ ~Awaits' /\ task'.id = task.id /\ task'.turn = task.turn
  PROVE  CodexIInv'
<1>1. task'.id = task.id /\ task'.turn = task.turn /\ Awaits' = Awaits
      /\ (Awaits => task'.method = task.method)
  BY DEF Awaits
<1>2. Answers' = Answers
  BY <1>1 DEF Answers
<1>3. OneRequest => OneRequest'
  BY <1>1, <1>2 DEF OneRequest
<1>4. TurnsKnown => TurnsKnown'
  BY <1>1, <1>2 DEF TurnsKnown
<1> QED
  BY <1>3, <1>4 DEF CodexIInv

\* Once the server is gone nothing but the types is left to keep.
LEMMA GoneKept ==
  ASSUME CodexTypeOK', server' = "gone", serverIn' = <<>>
  PROVE  CodexIInv'
BY DEF CodexIInv

LEMMA ServerNotifiesKeeps ==
  ASSUME CodexIInv, ServerNotifies
  PROVE  CodexIInv'
<1> USE TaskFacts DEF CodexIInv
<1>1. PICK m \in ServerMessages, kind \in {"frame", "other", "approval"} :
        /\ m.kind # "response"
        /\ serverOut' = Append(serverOut, m)
        /\ asked' = IF kind = "approval" THEN asked \cup {notices'} ELSE asked
  <2>1. PICK kind \in {"frame", "other", "approval"} :
          /\ serverOut' = Append(serverOut, Notice(kind, notices'))
          /\ asked' = IF kind = "approval" THEN asked \cup {notices'} ELSE asked
    BY Zenon DEF ServerNotifies
  <2>2. notices' \in Nat
    BY DEF ServerNotifies, CodexTypeOK
  <2>3. Notice(kind, notices') \in ServerMessages /\ Notice(kind, notices').kind # "response"
    BY <2>2 DEF Notice, ServerMessages
  <2> QED
    BY <2>1, <2>3
<1>2. /\ server = "runs" /\ Len(serverOut) < OutCapacity
      /\ notices' = notices + 1 /\ notices < MaxNotices
      /\ UNCHANGED <<task, nextId, pendingIds, result, channel, codexReady, codexOpener,
                     consumer, control, controls, server, serverIn, latestTurn, routing, lost>>
  BY DEF ServerNotifies, ownerVars
<1>3. /\ serverOut' \in Seq(ServerMessages) /\ Len(serverOut') = Len(serverOut) + 1
      /\ Elements(serverOut') = Elements(serverOut) \cup {m}
  BY <1>1, AppendFacts, ElementsFacts
<1>4. CodexTypeOK'
  <2>1. Len(serverOut') <= OutCapacity
    BY <1>2, <1>3, CodexBoundsAssumption
  <2>2. notices' \in 0 .. MaxNotices /\ notices' \in 1 .. MaxNotices
    BY <1>2, CodexBoundsAssumption DEF CodexTypeOK
  <2>3. asked' \subseteq 1 .. MaxNotices
    BY <2>2, <1>1 DEF CodexTypeOK
  <2> QED
    BY <2>1, <2>2, <2>3, <1>2, <1>3 DEF CodexTypeOK
<1>5. Answers' = Answers
  BY <1>1, <1>2, <1>3 DEF Answers
<1>6. OneRequest => OneRequest'
  BY <1>1, <1>2, <1>3, <1>5 DEF OneRequest, Awaits
<1>7. TurnsKnown => TurnsKnown'
  BY <1>2, <1>5 DEF TurnsKnown, Awaits
<1> QED
  BY <1>2, <1>4, <1>6, <1>7

LEMMA RouteResponseKeeps ==
  ASSUME CodexIInv, RouteResponse
  PROVE  CodexIInv'
<1> USE TaskFacts DEF CodexIInv
<1> DEFINE m == Head(serverOut)
<1>1. /\ routing /\ serverOut # <<>> /\ serverOut' = Tail(serverOut)
      /\ m.kind = "response" /\ pendingIds' = pendingIds \ {m.id}
      /\ result' = IF m.id \in pendingIds THEN <<m>> ELSE result
      /\ UNCHANGED <<task, nextId, channel, codexReady, codexOpener, consumer, control,
                     controls, server, serverIn, notices, asked, latestTurn, routing, lost>>
  BY DEF RouteResponse, ownerVars
<1>2. /\ m \in ServerMessages /\ serverOut' \in Seq(ServerMessages)
      /\ Len(serverOut') = Len(serverOut) - 1 /\ Len(serverOut) \in Nat
      /\ Elements(serverOut) = {m} \cup Elements(serverOut')
  BY <1>1, TailFacts, ElementsFacts
<1>3. <<m>> \in Seq(ServerMessages) /\ Len(<<m>>) = 1 /\ <<m>> # <<>> /\ <<m>>[1] = m
      /\ Elements(<<m>>) = {m}
  BY <1>2, ElementsFacts
<1>4. CodexTypeOK'
  <2>1. Len(serverOut') <= OutCapacity
    BY <1>2, CodexBoundsAssumption DEF CodexTypeOK
  <2>2. result' \in Seq(ServerMessages) /\ Len(result') <= 1
    BY <1>1, <1>3 DEF CodexTypeOK
  <2>3. server' # "gone" => pendingIds' \subseteq IF task'.pc = "await" THEN {task'.id} ELSE {}
    BY <1>1 DEF CodexTypeOK
  <2> QED
    BY <2>1, <2>2, <2>3, <1>1, <1>2 DEF CodexTypeOK
<1>5. ASSUME server = "runs", m.id \in pendingIds
      PROVE  OneRequest' /\ (TurnsKnown => TurnsKnown')
  <2>1. Awaits /\ m.id = task.id /\ result = <<>> /\ pendingIds' = {} /\ result' = <<m>>
    BY <1>1, <1>5 DEF OneRequest
  <2>2. Answers' = Answers
    BY <2>1, <1>1, <1>2, <1>3, ElementsFacts DEF Answers
  <2>3. OneRequest'
    BY <2>1, <2>2, <1>1, <1>2, <1>3, <1>5 DEF OneRequest, Awaits
  <2>4. TurnsKnown => TurnsKnown'
    BY <2>2, <1>1 DEF TurnsKnown, Awaits
  <2> QED
    BY <2>3, <2>4
<1>6. ASSUME server = "runs", m.id \notin pendingIds
      PROVE  OneRequest' /\ (TurnsKnown => TurnsKnown')
  <2>1. UNCHANGED <<pendingIds, result>>
    BY <1>1, <1>6
  <2>2. Answers' \subseteq Answers
    BY <2>1, <1>1, <1>2 DEF Answers
  <2>3. Awaits /\ Answers # {} => Answers' # {}
    <3>1. CASE result = <<>>
      <4>1. Awaits => m.id # task.id
        BY <3>1, <1>6 DEF OneRequest
      <4> QED
        BY <4>1, <2>1, <1>1, <1>2 DEF Answers
    <3>2. CASE result # <<>>
      <4>1. result[1] \in Elements(result)
        BY <3>2, TailFacts DEF Elements
      <4> QED
        BY <4>1, <3>2, <2>1, <1>1, <1>6 DEF Answers, OneRequest
    <3> QED
      BY <3>1, <3>2
  <2>4. OneRequest'
    BY <2>1, <2>2, <1>1, <1>2, <1>6 DEF OneRequest, Awaits
  <2>5. TurnsKnown => TurnsKnown'
    BY <2>2, <2>3, <1>1 DEF TurnsKnown, Awaits
  <2> QED
    BY <2>4, <2>5
<1>7. server \in {"runs", "gone"}
  BY DEF CodexTypeOK
<1> QED
  BY <1>1, <1>4, <1>5, <1>6, <1>7

LEMMA RouteNoticeKeeps ==
  ASSUME CodexIInv, RouteNotice
  PROVE  CodexIInv'
<1> USE TaskFacts DEF CodexIInv
<1> DEFINE m == Head(serverOut)
<1>1. /\ serverOut # <<>> /\ serverOut' = Tail(serverOut)
      /\ m.kind # "response" /\ channel' = Append(channel, m) /\ Len(channel) < ChannelSize
      /\ UNCHANGED <<task, nextId, pendingIds, result, codexReady, codexOpener, consumer,
                     control, controls, server, serverIn, notices, asked, latestTurn,
                     routing, lost>>
  BY DEF RouteNotice, ownerVars
<1>2. /\ m \in ServerMessages /\ serverOut' \in Seq(ServerMessages)
      /\ Len(serverOut') = Len(serverOut) - 1 /\ Len(serverOut) \in Nat
      /\ Elements(serverOut) = {m} \cup Elements(serverOut')
  BY <1>1, TailFacts, ElementsFacts
<1>3. channel' \in Seq(ServerMessages) /\ Len(channel') = Len(channel) + 1
  BY <1>1, <1>2, AppendFacts
<1>4. CodexTypeOK'
  <2>1. Len(serverOut') <= OutCapacity
    BY <1>2, CodexBoundsAssumption DEF CodexTypeOK
  <2>2. Len(channel') <= ChannelSize
    BY <1>1, <1>3, CodexBoundsAssumption DEF CodexTypeOK
  <2> QED
    BY <2>1, <2>2, <1>1, <1>2, <1>3 DEF CodexTypeOK
<1>5. Answers' = Answers
  BY <1>1, <1>2 DEF Answers
<1>6. OneRequest => OneRequest'
  BY <1>1, <1>2, <1>5 DEF OneRequest, Awaits
<1>7. TurnsKnown => TurnsKnown'
  BY <1>1, <1>5 DEF TurnsKnown, Awaits
<1> QED
  BY <1>1, <1>4, <1>6, <1>7

\* What a failed request leaves: the end of a start-up, or a loop that goes on.
LEMMA FailsDoes ==
  ASSUME CodexTypeOK, Fails, server = "gone" => serverIn = <<>>
  PROVE  /\ task' \in Tasks /\ ~Awaits' /\ task'.turn = task.turn
         /\ codexReady' \in {"none", "ok", "err"} /\ routing' \in BOOLEAN
         /\ serverIn' \in Seq(ServerRequests) /\ (server' = "gone" => serverIn' = <<>>)
         /\ \/ server' = "gone"
            \/ /\ UNCHANGED <<codexReady, server, serverIn, routing>>
               /\ task.method # "first turn"
<1>1. CASE StartingUp
  <2>1. task' = [task EXCEPT !.pc = "ended"] /\ server' = "gone" /\ serverIn' = <<>>
        /\ routing' = FALSE /\ codexReady' = "err"
    BY <1>1 DEF Fails, End
  <2>2. task' \in Tasks /\ task'.pc = "ended" /\ task'.turn = task.turn
    BY <2>1, TaskFacts DEF Tasks
  <2>3. <<>> \in Seq(ServerRequests)
    OBVIOUS
  <2> QED
    BY <2>1, <2>2, <2>3 DEF Awaits
<1>2. CASE ~StartingUp
  <2>1. task' = [task EXCEPT !.pc = "select"] /\ UNCHANGED <<codexReady, server, serverIn, routing>>
    BY <1>2 DEF Fails
  <2>2. task' \in Tasks /\ task'.pc = "select" /\ task'.turn = task.turn
    BY <2>1, TaskFacts DEF Tasks
  <2>3. task.method # "first turn"
    BY <1>2 DEF StartingUp
  <2> QED
    BY <2>1, <2>2, <2>3, TaskFacts DEF Awaits, CodexTypeOK
<1> QED
  BY <1>1, <1>2

\* Once the awaited request has come to its end, by its response, unless a turn
\* was lost, no request that starts a turn is under way.
LEMMA NoTurnUnderWay ==
  ASSUME CodexIInv, server = "runs", ~lost, Awaits,
         Answers # {} \/ task.method \notin Starting
  PROVE  \A i \in DOMAIN serverIn :
            /\ serverIn[i].method \notin Starting
            /\ serverIn[i].method = "interrupt" => serverIn[i].turn = latestTurn
BY DEF CodexIInv, OneRequest, TurnsKnown

\* The awaited request is given up: nothing is registered any more.
LEMMA GivenUp ==
  ASSUME CodexIInv, CodexTypeOK', ~Awaits', result' = <<>>, server' = "runs",
         pendingIds' = {}, nextId' = nextId,
         UNCHANGED <<serverIn, serverOut, server, latestTurn, routing>>,
         ~lost' => /\ task'.turn = latestTurn
                   /\ \A i \in DOMAIN serverIn :
                         /\ serverIn[i].method \notin Starting
                         /\ serverIn[i].method = "interrupt" => serverIn[i].turn = latestTurn
  PROVE  CodexIInv'
<1>1. OneRequest'
  BY DEF CodexIInv, OneRequest
<1>2. ~lost' => TurnsKnown'
  BY DEF TurnsKnown
<1> QED
  BY <1>1, <1>2 DEF CodexIInv

LEMMA SendRequestKeeps ==
  ASSUME CodexIInv, SendRequest
  PROVE  CodexIInv'
<1> USE TaskFacts DEF CodexIInv
<1>1. /\ task.pc = "request" /\ nextId' = nextId + 1 /\ pendingIds' = pendingIds \cup {nextId}
      /\ UNCHANGED <<result, channel, codexOpener, consumer, control, controls, serverOut,
                     notices, asked, latestTurn, lost>>
  BY DEF SendRequest, ownerVars
<1>2. CASE server = "gone"
  <2>1. Fails
    BY <1>2 DEF SendRequest
  <2>2. server' = "gone" /\ serverIn' = <<>>
    BY <2>1, <1>2, FailsDoes
  <2>3. CodexTypeOK'
    BY <1>1, <2>1, <2>2, FailsDoes DEF CodexTypeOK, Tasks, ServerRequests
  <2> QED
    BY <2>2, <2>3, GoneKept
<1>3. CASE server # "gone"
  <2> DEFINE q == Request(task.method, nextId, task.turn)
  <2>1. /\ serverIn' = Append(serverIn, q)
        /\ task' = [task EXCEPT !.pc = "await", !.id = nextId]
        /\ UNCHANGED <<codexReady, server, routing>>
    BY <1>3 DEF SendRequest
  <2>2. server = "runs" /\ ~Awaits
    BY <1>1, <1>3 DEF CodexTypeOK, Awaits
  <2>3. OneRequest /\ result = <<>> /\ pendingIds = {}
    BY <2>2 DEF OneRequest
  <2>4. task' \in Tasks /\ task'.pc = "await" /\ task'.id = nextId
        /\ task'.turn = task.turn /\ task'.method = task.method
    BY <2>1 DEF Tasks
  <2>5. q \in ServerRequests /\ q.id = nextId /\ q.method = task.method /\ q.turn = task.turn
    BY DEF Request, ServerRequests
  <2>6. /\ serverIn' \in Seq(ServerRequests) /\ Len(serverIn') = Len(serverIn) + 1
        /\ Len(serverIn) \in Nat
        /\ DOMAIN serverIn = 1 .. Len(serverIn) /\ DOMAIN serverIn' = 1 .. Len(serverIn) + 1
        /\ \A i \in 1 .. Len(serverIn) : serverIn'[i] = serverIn[i]
        /\ serverIn'[Len(serverIn) + 1] = q
    BY <2>1, <2>5, AppendFacts
  <2>11. ASSUME NEW i \in DOMAIN serverIn'
         PROVE  \/ /\ i \in DOMAIN serverIn /\ serverIn'[i] = serverIn[i]
                   /\ serverIn[i].id \in Nat
                \/ i = Len(serverIn') /\ serverIn'[i] = q
    <3> HIDE DEF q
    <3>1. CASE i = Len(serverIn) + 1
      BY <3>1, <2>6
    <3>2. CASE i \in 1 .. Len(serverIn)
      <4>1. serverIn[i] \in ServerRequests
        BY <3>2, <2>6
      <4>2. serverIn[i].id \in Nat
        BY <4>1 DEF ServerRequests
      <4> QED
        BY <3>2, <4>2, <2>6
    <3> QED
      BY <3>1, <3>2, <2>6
  <2>7. CodexTypeOK'
    <3>1. pendingIds' \subseteq {task'.id}
      BY <1>1, <2>3, <2>4
    <3>2. server' # "gone" => pendingIds' \subseteq IF task'.pc = "await" THEN {task'.id} ELSE {}
      BY <3>1, <2>4
    <3>3. nextId' \in Nat
      BY <1>1
    <3> HIDE DEF q
    <3> QED
      BY <3>2, <3>3, <1>1, <2>1, <2>4, <2>6 DEF CodexTypeOK, Tasks, ServerRequests
  <2>8. Answers' = {}
    <3>1. Elements(result') = {}
      BY <1>1, <2>3, ElementsFacts
    <3>2. \A m \in Elements(serverOut) : ~(m.kind = "response" /\ m.id = nextId)
      BY <2>3 DEF OneRequest
    <3> QED
      BY <3>1, <3>2, <1>1, <2>4 DEF Answers
  <2>9. OneRequest'
    <3>1. ASSUME NEW i \in DOMAIN serverIn' PROVE serverIn'[i].id < nextId'
      BY <1>1, <2>3, <2>5, <2>11 DEF OneRequest
    <3>2. ASSUME NEW i \in DOMAIN serverIn', serverIn'[i].id = task'.id
          PROVE  i = Len(serverIn') /\ serverIn'[i].method = task'.method
      BY <3>2, <2>3, <2>4, <2>5, <2>11 DEF OneRequest
    <3>3. ASSUME NEW m \in Elements(serverOut'), m.kind = "response" PROVE m.id < nextId'
      <4>1. m \in ServerMessages /\ m \in Elements(serverOut)
        BY <3>3, <1>1 DEF Elements
      <4>2. m.id \in Nat
        BY <4>1 DEF ServerMessages
      <4> QED
        BY <3>3, <4>1, <4>2, <1>1, <2>3 DEF OneRequest
    <3> QED
      BY <3>1, <3>2, <3>3, <1>1, <2>1, <2>3, <2>4, <2>8 DEF OneRequest, Awaits
  <2>10. ASSUME ~lost PROVE TurnsKnown'
    <3>1. task.turn = latestTurn
      BY <2>10, <2>2 DEF TurnsKnown
    <3>2. ASSUME NEW i \in DOMAIN serverIn'
          PROVE  /\ serverIn'[i].method \in Starting => serverIn'[i].id = task'.id
                 /\ serverIn'[i].method = "interrupt" => serverIn'[i].turn = latestTurn
      BY <2>10, <2>2, <2>4, <2>5, <2>11, <3>1 DEF TurnsKnown
    <3> QED
      BY <3>1, <3>2, <2>4, <2>8, <1>1 DEF TurnsKnown, Awaits
  <2> QED
    BY <1>1, <2>1, <2>2, <2>7, <2>9, <2>10
<1> QED
  BY <1>2, <1>3

LEMMA RequestClosesKeeps ==
  ASSUME CodexIInv, RequestCloses
  PROVE  CodexIInv'
<1>1. /\ Awaits /\ result = <<>> /\ task.id \notin pendingIds /\ Fails
      /\ UNCHANGED <<nextId, pendingIds, result, channel, codexOpener, consumer, control,
                     controls, serverOut, notices, asked, latestTurn, lost>>
  BY DEF RequestCloses, ownerVars, Awaits
<1>2. server = "gone"
  BY <1>1 DEF CodexIInv, CodexTypeOK, OneRequest
<1>3. server' = "gone" /\ serverIn' = <<>>
  BY <1>1, <1>2, FailsDoes DEF CodexIInv
<1>4. CodexTypeOK'
  BY <1>1, <1>3, FailsDoes DEF CodexIInv, CodexTypeOK, Tasks, ServerRequests
<1> QED
  BY <1>3, <1>4, GoneKept

LEMMA RequestTimesOutKeeps ==
  ASSUME CodexIInv, RequestTimesOut
  PROVE  CodexIInv'
<1>1. /\ Awaits /\ result = <<>> /\ task.id \in pendingIds
      /\ pendingIds' = pendingIds \ {task.id} /\ Fails
      /\ lost' = (lost \/ task.method = "turn")
      /\ UNCHANGED <<nextId, result, channel, codexOpener, consumer, control, controls,
                     serverOut, notices, asked, latestTurn>>
  BY DEF RequestTimesOut, ownerVars, Awaits, Deadline
<1>2. lost' \in BOOLEAN
  BY <1>1 DEF CodexIInv, CodexTypeOK
<1>3. server' # "gone" => pendingIds' = {}
  BY <1>1, FailsDoes DEF CodexIInv, CodexTypeOK, Awaits
<1>4. CodexTypeOK'
  BY <1>1, <1>2, <1>3, FailsDoes DEF CodexIInv, CodexTypeOK, Tasks, ServerRequests
<1>5. CASE server' = "gone"
  <2>1. serverIn' = <<>>
    BY <1>1, <1>5, FailsDoes DEF CodexIInv
  <2> QED
    BY <1>4, <1>5, <2>1, GoneKept
<1>6. CASE server' # "gone"
  <2>1. /\ UNCHANGED <<codexReady, server, serverIn, routing>>
        /\ task.method # "first turn" /\ ~Awaits' /\ task'.turn = task.turn
        /\ server = "runs"
    BY <1>1, <1>6, FailsDoes DEF CodexIInv, CodexTypeOK
  <2>2. ASSUME ~lost'
        PROVE  /\ task'.turn = latestTurn
               /\ \A i \in DOMAIN serverIn :
                     /\ serverIn[i].method \notin Starting
                     /\ serverIn[i].method = "interrupt" => serverIn[i].turn = latestTurn
    <3>1. ~lost /\ task.method \notin Starting
      BY <1>1, <2>1, <2>2 DEF Starting
    <3>2. task.turn = latestTurn
      BY <3>1, <2>1 DEF CodexIInv, TurnsKnown
    <3> QED
      BY <3>1, <3>2, <2>1, <1>1, NoTurnUnderWay
  <2> QED
    BY <1>1, <1>3, <1>4, <1>6, <2>1, <2>2, GivenUp
<1> QED
  BY <1>5, <1>6

LEMMA ResponseArrivesKeeps ==
  ASSUME CodexIInv, ResponseArrives
  PROVE  CodexIInv'
<1> DEFINE m == result[1]
<1>1. /\ Awaits /\ result # <<>> /\ result' = <<>>
      /\ UNCHANGED <<nextId, pendingIds, channel, codexOpener, consumer, control, controls,
                     serverOut, notices, asked, latestTurn, lost>>
  BY DEF ResponseArrives, ownerVars, Awaits
<1>2. m \in ServerMessages /\ m.turn \in Nat /\ m \in Elements(result)
  <2>1. m \in ServerMessages /\ m \in Elements(result)
    BY <1>1, TailFacts DEF CodexIInv, CodexTypeOK, Elements
  <2> QED
    BY <2>1 DEF ServerMessages
<1>3. server = "runs" => pendingIds = {} /\ m \in Answers
  BY <1>1, <1>2 DEF CodexIInv, OneRequest, Answers
<1>4. server = "runs" /\ ~lost =>
        /\ m.turn = latestTurn
        /\ (m.ok /\ task.method \in Starting) \/ task.turn = latestTurn
        /\ \A i \in DOMAIN serverIn :
              /\ serverIn[i].method \notin Starting
              /\ serverIn[i].method = "interrupt" => serverIn[i].turn = latestTurn
  BY <1>1, <1>3, NoTurnUnderWay DEF CodexIInv, TurnsKnown
<1>5. <<>> \in Seq(ServerMessages) /\ Len(<<>>) = 0
  OBVIOUS
<1>6. CASE m.ok
  <2>1. Succeeds(task.method, m.turn) /\ UNCHANGED <<server, serverIn, routing>>
    BY <1>6 DEF ResponseArrives
  <2>2. /\ task' \in Tasks /\ ~Awaits' /\ codexReady' \in {"none", "ok", "err"}
        /\ \/ task'.turn = m.turn
           \/ task'.turn = task.turn /\ task.method \notin Starting
    <3>1. task \in Tasks /\ task.method \in Methods /\ codexReady \in {"none", "ok", "err"}
      BY TaskFacts DEF CodexIInv, CodexTypeOK
    <3>2. CASE task.method = "initialize"
      <4>1. task' = [task EXCEPT !.pc = "request", !.method = "thread"] /\ UNCHANGED codexReady
        BY <3>2, <2>1 DEF Succeeds
      <4> QED
        BY <4>1, <3>1, <3>2 DEF Tasks, Methods, Awaits, Starting
    <3>3. CASE task.method = "thread"
      <4>1. task' = [task EXCEPT !.pc = "request", !.method = "first turn"] /\ UNCHANGED codexReady
        BY <3>3, <2>1 DEF Succeeds
      <4> QED
        BY <4>1, <3>1, <3>3 DEF Tasks, Methods, Awaits, Starting
    <3>4. CASE task.method \in {"first turn", "turn", "steer"}
      <4>1. /\ task' = [task EXCEPT !.pc = "select", !.turn = m.turn]
            /\ codexReady' = codexReady \/ codexReady' = "ok"
        BY <3>4, <2>1 DEF Succeeds, StartedTurn
      <4> QED
        BY <4>1, <3>1, <1>2 DEF Tasks, Awaits
    <3>5. CASE task.method = "interrupt"
      <4>1. task' = [task EXCEPT !.pc = "select"] /\ UNCHANGED codexReady
        BY <3>5, <2>1 DEF Succeeds
      <4> QED
        BY <4>1, <3>1, <3>5 DEF Tasks, Awaits, Starting
    <3> QED
      BY <3>1, <3>2, <3>3, <3>4, <3>5 DEF Methods
  <2>3. server' # "gone" => pendingIds' = {}
    BY <1>1, <1>3, <2>1 DEF CodexIInv, CodexTypeOK
  <2>4. CodexTypeOK'
    BY <1>1, <1>5, <2>1, <2>2, <2>3 DEF CodexIInv, CodexTypeOK, Tasks
  <2>5. CASE server = "gone"
    <3>1. server' = "gone" /\ serverIn' = <<>>
      BY <2>1, <2>5 DEF CodexIInv
    <3> QED
      BY <2>4, <3>1, GoneKept
  <2>6. CASE server # "gone"
    <3>1. server = "runs"
      BY <2>6 DEF CodexIInv, CodexTypeOK
    <3>2. ~lost => task'.turn = latestTurn
      BY <3>1, <1>4, <2>2
    <3> QED
      BY <1>1, <1>4, <2>1, <2>2, <2>3, <2>4, <3>1, <3>2, GivenUp
  <2> QED
    BY <2>5, <2>6
<1>7. CASE ~m.ok
  <2>1. Fails
    BY <1>7 DEF ResponseArrives
  <2>2. server' # "gone" => pendingIds' = {} /\ server' = "runs" /\ server = "runs"
    BY <1>1, <1>3, <2>1, FailsDoes DEF CodexIInv, CodexTypeOK
  <2>3. CodexTypeOK'
    <3>1. result' \in Seq(ServerMessages) /\ Len(result') <= 1
      BY <1>1, <1>5
    <3>2. server' # "gone" => pendingIds' \subseteq IF task'.pc = "await" THEN {task'.id} ELSE {}
      BY <2>2
    <3>3. /\ task' \in Tasks /\ codexReady' \in {"none", "ok", "err"} /\ routing' \in BOOLEAN
          /\ serverIn' \in Seq(ServerRequests) /\ server' \in {"runs", "gone"}
      BY <2>1, <2>2, FailsDoes DEF CodexIInv
    <3> QED
      BY <1>1, <3>1, <3>2, <3>3 DEF CodexIInv, CodexTypeOK, Tasks, ServerRequests
  <2>4. CASE server' = "gone"
    <3>1. serverIn' = <<>>
      BY <2>1, <2>4, FailsDoes DEF CodexIInv
    <3> QED
      BY <2>3, <2>4, <3>1, GoneKept
  <2>5. CASE server' # "gone"
    <3>1. /\ UNCHANGED <<server, serverIn, routing>> /\ ~Awaits' /\ task'.turn = task.turn
      BY <2>1, <2>5, FailsDoes DEF CodexIInv
    <3>2. ~lost => task'.turn = latestTurn
      BY <1>4, <1>7, <2>2, <2>5, <3>1
    <3> QED
      BY <1>1, <1>4, <2>2, <2>3, <2>5, <3>1, <3>2, GivenUp
  <2> QED
    BY <2>4, <2>5
<1> QED
  BY <1>6, <1>7

\* The steps of the bridge between two requests.
LEMMA SelectKeeps ==
  ASSUME CodexIInv, HandleNotice \/ ChannelCloses \/ HandleControl \/ ControlCloses
  PROVE  CodexIInv'
<1> USE TaskFacts DEF CodexIInv
<1>1. /\ task.pc = "select"
      /\ UNCHANGED <<nextId, pendingIds, result, serverIn, serverOut, server, latestTurn,
                     routing, lost, controls, codexReady, codexOpener, consumer, notices>>
  BY DEF HandleNotice, ChannelCloses, HandleControl, ControlCloses, ownerVars, appServerVars
<1>2. /\ \/ channel' = channel
         \/ channel # <<>> /\ channel' = Tail(channel)
      /\ asked' \subseteq asked
  BY DEF HandleNotice, ChannelCloses, HandleControl, ControlCloses, appServerVars
<1>3. channel' \in Seq(ServerMessages) /\ Len(channel') <= ChannelSize
  <2>1. CASE channel' = channel
    BY <2>1 DEF CodexTypeOK
  <2>2. CASE channel # <<>> /\ channel' = Tail(channel)
    <3>1. channel' \in Seq(ServerMessages) /\ Len(channel') = Len(channel) - 1
          /\ Len(channel) \in Nat /\ Len(channel) <= ChannelSize
      BY <2>2, TailFacts DEF CodexTypeOK
    <3> QED
      BY <3>1, CodexBoundsAssumption
  <2> QED
    BY <1>2, <2>1, <2>2
<1>4. /\ control' \in Seq(Commands)
      /\ \/ task' = task
         \/ task' = [task EXCEPT !.pc = "shutdown"]
         \/ \E method \in Methods : task' = [task EXCEPT !.pc = "request", !.method = method]
  <2>1. CASE HandleControl
    <3>1. control # <<>> /\ control' = Tail(control)
          /\ task' = IF Head(control) = "disconnect" THEN [task EXCEPT !.pc = "shutdown"]
                     ELSE [task EXCEPT !.pc = "request", !.method = Head(control)]
      BY <2>1 DEF HandleControl
    <3>2. Head(control) \in Commands /\ control' \in Seq(Commands)
      BY <3>1, TailFacts DEF CodexTypeOK
    <3>3. Head(control) = "disconnect" \/ Head(control) \in Methods
      BY <3>2 DEF Commands, Methods
    <3> QED
      BY <3>1, <3>2, <3>3
  <2>2. CASE HandleNotice
    BY <2>2 DEF HandleNotice, ownerVars, CodexTypeOK
  <2>3. CASE ChannelCloses \/ ControlCloses
    BY <2>3 DEF ChannelCloses, ControlCloses, ownerVars, CodexTypeOK
  <2> QED
    BY <2>1, <2>2, <2>3
<1>5. task' \in Tasks /\ ~Awaits /\ ~Awaits' /\ task'.id = task.id /\ task'.turn = task.turn
  BY <1>1, <1>4 DEF Tasks, Awaits
<1>6. CodexTypeOK'
  <2>1. server' # "gone" => pendingIds' \subseteq IF task'.pc = "await" THEN {task'.id} ELSE {}
    BY <1>1, <1>5 DEF CodexTypeOK, Awaits
  <2> QED
    BY <2>1, <1>1, <1>2, <1>3, <1>4, <1>5 DEF CodexTypeOK, Tasks
<1> QED
  BY <1>1, <1>5, <1>6, ExchangeKept

\* Ends of the server, of its reader or of the session.
LEMMA CodexEndsKeep ==
  ASSUME CodexIInv, ServerExits \/ RouterEnds \/ Shutdown
  PROVE  CodexIInv'
<1> USE TaskFacts DEF CodexIInv
<1>1. /\ server' = "gone" /\ serverIn' = <<>>
      /\ UNCHANGED <<nextId, result, channel, codexReady, codexOpener, consumer, control,
                     controls, serverOut, notices, asked, latestTurn, lost>>
  BY DEF ServerExits, RouterEnds, Shutdown, End, ownerVars
<1>2. serverIn' \in Seq(ServerRequests) /\ routing' \in BOOLEAN
  <2>1. serverIn' = <<>> \/ serverIn' = serverIn
    BY DEF ServerExits, RouterEnds, Shutdown, End
  <2>2. routing' = routing \/ routing' = FALSE
    BY Zenon DEF ServerExits, RouterEnds, Shutdown, End
  <2>3. <<>> \in Seq(ServerRequests)
    OBVIOUS
  <2>4. routing \in BOOLEAN
    BY DEF CodexTypeOK
  <2> QED
    BY <2>1, <2>2, <2>3, <2>4, Zenon
<1>3. task' \in Tasks
  BY DEF ServerExits, RouterEnds, Shutdown, End, Tasks
<1>4. CodexTypeOK'
  BY <1>1, <1>2, <1>3 DEF CodexTypeOK, Tasks, ServerRequests
<1> QED
  BY <1>1, <1>4, GoneKept

\* The opener and the owner of the handle.
LEMMA OwnersKeep ==
  ASSUME CodexIInv, CodexOpens \/ OwnerStep
  PROVE  CodexIInv'
<1> USE TaskFacts DEF CodexIInv
<1>1. /\ UNCHANGED <<task, nextId, pendingIds, result, channel, codexReady, server, serverIn,
                     serverOut, notices, asked, latestTurn, routing, lost>>
  BY DEF CodexOpens, OwnerStep, Command, HandleDropped, ConsumerLeaves, appServerVars
<1>2. /\ codexOpener' \in {"blocked", "open", "failed", "dropped"}
      /\ consumer' \in BOOLEAN
  BY DEF CodexOpens, OwnerStep, Command, HandleDropped, ConsumerLeaves, CodexTypeOK
<1>3. control' \in Seq(Commands) /\ controls' \in 0 .. MaxControls
  <2>1. CASE \E command \in Commands : Command(command)
    <3>1. PICK command \in Commands :
            /\ controls < MaxControls /\ controls' = controls + 1
            /\ control' = Append(control, command)
      BY <2>1 DEF Command
    <3>2. controls' \in 0 .. MaxControls
      BY <3>1, CodexBoundsAssumption DEF CodexTypeOK
    <3> QED
      BY <3>1, <3>2, AppendFacts DEF CodexTypeOK
  <2>2. CASE CodexOpens \/ HandleDropped \/ ConsumerLeaves
    BY <2>2 DEF CodexOpens, HandleDropped, ConsumerLeaves, CodexTypeOK
  <2> QED
    BY <2>1, <2>2 DEF OwnerStep
<1>4. CodexTypeOK'
  BY <1>1, <1>2, <1>3 DEF CodexTypeOK
<1> QED
  BY <1>1, <1>4, ExchangeKept

LEMMA CodexInitInvariant == CodexInit => CodexIInv
<1> SUFFICES ASSUME CodexInit PROVE CodexIInv
  OBVIOUS
<1> USE DEF CodexInit
<1>1. <<>> \in Seq(ServerMessages) /\ <<>> \in Seq(Commands) /\ <<>> \in Seq(ServerRequests)
      /\ Len(<<>>) = 0 /\ DOMAIN <<>> = {}
  OBVIOUS
<1>2. task \in Tasks /\ task.pc = "request" /\ task.turn = 0
  BY DEF Tasks, Methods
<1>3. CodexTypeOK
  <2>1. task \in Tasks /\ serverIn \in Seq(ServerRequests) /\ pendingIds = {}
    BY <1>1, <1>2
  <2>2. /\ Len(channel) <= ChannelSize /\ Len(serverOut) <= OutCapacity
        /\ controls \in 0 .. MaxControls /\ notices \in 0 .. MaxNotices
        /\ asked \subseteq 1 .. MaxNotices
    BY <1>1, CodexBoundsAssumption
  <2>3. /\ result \in Seq(ServerMessages) /\ Len(result) <= 1
        /\ channel \in Seq(ServerMessages) /\ serverOut \in Seq(ServerMessages)
        /\ control \in Seq(Commands) /\ nextId \in Nat /\ latestTurn \in Nat
    BY <1>1
  <2>4. /\ consumer \in BOOLEAN /\ routing \in BOOLEAN /\ lost \in BOOLEAN
        /\ codexReady = "none" /\ codexOpener = "blocked" /\ server = "runs"
    OBVIOUS
  <2> HIDE DEF CodexInit
  <2> QED
    BY <1>2, <2>1, <2>2, <2>3, <2>4 DEF CodexTypeOK, Tasks, ServerRequests
<1>4. OneRequest
  BY <1>1, <1>2, ElementsFacts DEF OneRequest, Awaits
<1>5. TurnsKnown
  BY <1>1, <1>2 DEF TurnsKnown, Awaits
<1> QED
  BY <1>3, <1>4, <1>5 DEF CodexIInv

LEMMA CodexNextInvariant == CodexIInv /\ [CodexNext]_codexVars => CodexIInv'
<1> SUFFICES ASSUME CodexIInv, [CodexNext]_codexVars PROVE CodexIInv'
  OBVIOUS
<1>1. CASE TaskStep
  <2>1. CASE SendRequest \/ ResponseArrives
    BY <2>1, SendRequestKeeps, ResponseArrivesKeeps
  <2>2. CASE RequestCloses \/ RequestTimesOut
    BY <2>2, RequestClosesKeeps, RequestTimesOutKeeps
  <2>3. CASE HandleNotice \/ ChannelCloses \/ HandleControl \/ ControlCloses
    BY <2>3, SelectKeeps
  <2>4. CASE Shutdown
    BY <2>4, CodexEndsKeep
  <2> QED
    BY <1>1, <2>1, <2>2, <2>3, <2>4 DEF TaskStep
<1>2. CASE RouterStep
  BY <1>2, RouteResponseKeeps, RouteNoticeKeeps, CodexEndsKeep DEF RouterStep
<1>3. CASE ServerStep
  BY <1>3, ServerAnswersKeeps, ServerNotifiesKeeps, CodexEndsKeep DEF ServerStep
<1>4. CASE CodexOpens \/ OwnerStep
  BY <1>4, OwnersKeep
<1>5. CASE UNCHANGED codexVars
  <2>1. UNCHANGED <<task, nextId, pendingIds, result, channel, control, controls, codexReady,
                    codexOpener, consumer, server, serverIn, serverOut, notices, asked,
                    latestTurn, routing, lost>>
    BY <1>5 DEF codexVars
  <2>2. CodexTypeOK'
    BY <2>1 DEF CodexIInv, CodexTypeOK
  <2> QED
    BY <2>1, <2>2, ExchangeKept
<1> QED
  BY <1>1, <1>2, <1>3, <1>4, <1>5 DEF CodexNext

LEMMA CodexInvariance == CodexSpec => []CodexIInv
BY CodexInitInvariant, CodexNextInvariant, PTL DEF CodexSpec

\* The types of the Codex session, and that nothing but the awaited request is
\* registered while the server runs.
THEOREM CodexTypeCorrect == CodexSpec => []CodexTypeOK
<1>1. CodexIInv => CodexTypeOK
  BY DEF CodexIInv
<1> QED
  BY <1>1, CodexInvariance, PTL

\* An interrupt at the head of the server's input has no start before it, and
\* names the turn that was latest when it was written.
THEOREM InterruptsHitLatestTurn == CodexSpec => []InterruptHitsLatestTurn
<1>1. CodexIInv => InterruptHitsLatestTurn
  <2> SUFFICES ASSUME CodexIInv, serverIn # <<>>, Head(serverIn).method = "interrupt", ~lost
               PROVE  Head(serverIn).turn = latestTurn
    BY DEF InterruptHitsLatestTurn
  <2>1. 1 \in DOMAIN serverIn /\ Head(serverIn) = serverIn[1]
    BY TailFacts, TaskFacts DEF CodexIInv
  <2>2. server = "runs"
    BY DEF CodexIInv, CodexTypeOK
  <2> QED
    BY <2>1, <2>2 DEF CodexIInv, TurnsKnown
<1> QED
  BY <1>1, CodexInvariance, PTL
===============================================================================
