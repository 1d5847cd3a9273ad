------------------------- MODULE SessionTurns_proofs -------------------------
(***************************************************************************)
(* Theorems about the turns of a session, for any number of prompts,       *)
(* steers and connections, any capacity of the channels and everything     *)
(* that may happen.                                                        *)
(***************************************************************************)
EXTENDS SessionTurns, SequenceTheorems, FiniteSetTheorems, WellFoundedInduction, TLAPS

USE TurnsAssumption DEF Local

-----------------------------------------------------------------------------
(***************************************************************************)
(* Types.                                                                  *)
(***************************************************************************)
Rows == [id : Nat, role : {"user", "steer", "assistant", "system"}, of : Request]
Events == [kind : {"text", "ack", "ask", "done", "error"}, of : Request]
Answers == [kind : {"resp", "refused"}, of : Turn]

(* TypeOK, and what the sequences hold.                                    *)
TypeInv ==
  /\ TypeOK
  /\ IsFiniteSet(view) /\ IsFiniteSet(relay)
  /\ queue \in [Turn -> Seq(Events)]
  /\ wire \in Seq(Events \cup Answers) /\ backlog \in Seq(Events)

(* A finite set of numbers that is not empty has a greatest one.           *)
LEMMA MaxExists ==
  ASSUME NEW S \in SUBSET Nat, IsFiniteSet(S), S # {}
  PROVE  Max(S) \in S /\ \A x \in S : Max(S) >= x
<1> DEFINE Has(U) == \E m \in U : \A x \in U : m >= x
           T == {U \in SUBSET S : U # {} /\ ~Has(U)}
<1>1. Has(S)
  <2>1. SUFFICES ASSUME T # {} PROVE FALSE
    OBVIOUS
  <2>2. IsWellFoundedOn(StrictSubsetOrdering(S), SUBSET S)
    BY FS_StrictSubsetOrderingWellFounded, FS_FiniteSubsetsOfFinite
  <2>3. PICK U \in T : \A V \in T : <<V, U>> \notin StrictSubsetOrdering(S)
    <3>1. T \subseteq SUBSET S
      OBVIOUS
    <3> HIDE DEF T
    <3>2. QED BY <2>1, <2>2, <3>1, WFMin
  <2>4. U \subseteq S /\ U # {} /\ ~Has(U)
    OBVIOUS
  <2>5. PICK x \in U : TRUE
    BY <2>4
  <2>6. U \ {x} # {}
    BY <2>4, <2>5
  <2>7. <<U \ {x}, U>> \in StrictSubsetOrdering(S)
    BY <2>4, <2>5 DEF StrictSubsetOrdering
  <2>8. Has(U \ {x})
    BY <2>3, <2>4, <2>6, <2>7
  <2>9. PICK y \in U \ {x} : \A z \in U \ {x} : y >= z
    BY <2>8
  <2>10. x \in Nat /\ y \in Nat /\ \A z \in U : z \in Nat
    BY <2>4
  <2>11. CASE y >= x
    BY <2>4, <2>9, <2>11
  <2>12. CASE x >= y
    <3>1. \A z \in U : x >= z
      BY <2>9, <2>10, <2>12
    <3>2. QED BY <2>4, <3>1
  <2>13. QED BY <2>10, <2>11, <2>12
<1> QED BY <1>1 DEF Max

LEMMA NextIdTyped ==
  ASSUME TypeInv
  PROVE  NextId \in Nat
<1>1. CASE view = {}
  BY <1>1 DEF NextId
<1>2. CASE view # {}
  <2>1. Max(view) \in Nat
    BY <1>2, MaxExists DEF TypeInv, TypeOK
  <2>2. QED BY <1>2, <2>1 DEF NextId
<1> QED BY <1>1, <1>2

LEMMA EventTyped ==
  ASSUME NEW r \in Request, NEW kind \in {"text", "ack", "ask", "done", "error"}
  PROVE  /\ Event(kind, r) \in Events
         /\ Event(kind, r).kind = kind /\ Event(kind, r).of = r
BY DEF Event, Events

LEMMA AnswerTyped ==
  ASSUME NEW t \in Turn, NEW kind \in {"resp", "refused"}
  PROVE  /\ Event(kind, t) \in Answers
         /\ Event(kind, t).kind = kind /\ Event(kind, t).of = t
BY DEF Event, Answers

(* A subscriber's queue is bounded.                                        *)
LEMMA ReceivedTyped ==
  ASSUME NEW q \in Seq(Events), Len(q) <= Cap, NEW e \in Events
  PROVE  Received(q, e) \in Seq(Events) /\ Len(Received(q, e)) <= Cap
<1>1. Len(q) \in Nat
  BY LenProperties
<1>2. CASE Len(q) < Cap
  <2>1. Append(q, e) \in Seq(Events) /\ Len(Append(q, e)) = Len(q) + 1
    BY AppendProperties
  <2>2. QED BY <1>1, <1>2, <2>1 DEF Received
<1>3. CASE ~(Len(q) < Cap)
  <2>1. q # <<>>
    BY <1>1, <1>3, EmptySeq
  <2>2. Tail(q) \in Seq(Events) /\ Len(Tail(q)) = Len(q) - 1
    BY <2>1, HeadTailProperties
  <2>3. Append(Tail(q), e) \in Seq(Events) /\ Len(Append(Tail(q), e)) = Len(Tail(q)) + 1
    BY <2>2, AppendProperties
  <2>4. QED BY <1>1, <1>3, <2>2, <2>3 DEF Received
<1> QED BY <1>2, <1>3

LEMMA BroadcastTyped ==
  ASSUME TypeInv, NEW c, NEW e \in Events
  PROVE  /\ Broadcast(c, e) \in [Turn -> Seq(Events)]
         /\ \A t \in Turn : Len(Broadcast(c, e)[t]) <= Cap
BY ReceivedTyped DEF Broadcast, TypeInv, TypeOK

LEMMA CopiesTyped ==
  ASSUME TypeInv, NEW e \in Events
  PROVE  /\ Copies(e) \in Seq(Events)
         /\ Len(Copies(e)) = Cardinality(relay) /\ Cardinality(relay) \in Nat
         /\ \A i \in 1..Cardinality(relay) : Copies(e)[i] = e
<1>1. Cardinality(relay) \in Nat
  BY FS_CardinalityType DEF TypeInv
<1>2. Copies(e) \in Seq(Events)
  BY <1>1, IsASeq DEF Copies
<1> QED BY <1>1, <1>2, LenProperties DEF Copies

(* Each live drain answers once.                                           *)
LEMMA ResponsesTyped ==
  ASSUME TypeInv
  PROVE  /\ Responses \in Seq(Answers)
         /\ \A i \in 1..Len(Responses) :
              Responses[i].kind = "resp" /\ Responses[i].of \in Live
         /\ \A i, j \in 1..Len(Responses) : Responses[i].of = Responses[j].of => i = j
<1> DEFINE ts == SetToSeq(Live)
<1>1. IsFiniteSet(Live) /\ Live \subseteq Turn
  BY FS_Subset DEF Live, TypeInv, TypeOK
<1>2. Cardinality(Live) \in Nat /\ ExistsBijection(1..Cardinality(Live), Live)
  BY <1>1, FS_CardinalityType
<1>3. \E f \in [1..Cardinality(Live) -> Live] : IsInjective(f)
  BY <1>2, Zenon DEF ExistsBijection, Bijection, Injection, IsInjective
<1>4. ts \in [1..Cardinality(Live) -> Live] /\ IsInjective(ts)
  BY <1>3 DEF SetToSeq
<1> HIDE DEF ts
<1>5. Responses = [i \in 1..Cardinality(Live) |-> Event("resp", ts[i])]
  BY <1>4 DEF Responses, ts
<1>6. \A i \in 1..Cardinality(Live) :
        /\ Event("resp", ts[i]) \in Answers
        /\ Event("resp", ts[i]).kind = "resp" /\ Event("resp", ts[i]).of = ts[i]
  BY <1>1, <1>4, AnswerTyped
<1>7. Responses \in Seq(Answers)
  BY <1>2, <1>5, <1>6, IsASeq
<1>8. Len(Responses) = Cardinality(Live)
  BY <1>2, <1>5, <1>7, LenProperties
<1>9. \A i \in 1..Cardinality(Live) :
        Responses[i].kind = "resp" /\ Responses[i].of = ts[i] /\ ts[i] \in Live
  BY <1>4, <1>5, <1>6
<1>10. \A i, j \in 1..Cardinality(Live) : ts[i] = ts[j] => i = j
  BY <1>4 DEF IsInjective
<1> QED BY <1>7, <1>8, <1>9, <1>10

(* Which step changes what.                                                *)
LEMMA RowsFrame ==
  Next =>
    \/ rows' = rows
    \/ \E t \in Turn : PostAppend(t) \/ StartFailed(t) \/ DrainEnd(t)
    \/ \E s \in Steer : SteerStore(s)
BY DEF Next, Task, SteerHandler, store, bridge, drain, handlers, orbit, agent, PostRead,
       PostApply, PostMark, Route, Ensured, EnsureFails, Send, SendFails, DrainText,
       DrainAsk, DrainSteerAck, Signal, Clear, RelayFails, SteerGate, SteerMark,
       SteerSend, CancelSend, CancelClear, AgentText, AgentAsk, AgentEnds, AxisRead,
       Connect, Disconnect

LEMMA ViewFrame ==
  Next =>
    \/ view' = view
    \/ \E t \in Turn : PostApply(t) \/ Signal(t)
    \/ \E s \in Steer : SteerStore(s)
BY DEF Next, Task, SteerHandler, store, bridge, drain, handlers, orbit, agent, PostRead,
       PostAppend, PostMark, Route, Ensured, EnsureFails, StartFailed, Send, SendFails,
       DrainText, DrainAsk, DrainSteerAck, DrainEnd, Clear, RelayFails, SteerGate,
       SteerMark, SteerSend, CancelSend, CancelClear, AgentText, AgentAsk, AgentEnds,
       AxisRead, Connect, Disconnect

LEMMA MarkFrame ==
  Next =>
    \/ inFlight' = inFlight
    \/ \E t \in Turn : PostMark(t) \/ Clear(t)
    \/ CancelClear
BY DEF Next, Task, SteerHandler, store, bridge, drain, handlers, orbit, agent, PostRead,
       PostAppend, PostApply, Route, Ensured, EnsureFails, StartFailed, Send, SendFails,
       DrainText, DrainAsk, DrainSteerAck, DrainEnd, Signal, RelayFails, SteerGate,
       SteerMark, SteerSend, SteerStore, CancelSend, AgentText, AgentAsk, AgentEnds,
       AxisRead, Connect, Disconnect

LEMMA PendingFrame ==
  Next =>
    \/ steerPending' = steerPending
    \/ \E t \in Turn : DrainSteerAck(t)
    \/ \E s \in Steer : SteerMark(s)
BY DEF Next, Task, SteerHandler, store, bridge, drain, handlers, orbit, agent, PostRead,
       PostAppend, PostApply, PostMark, Route, Ensured, EnsureFails, StartFailed, Send,
       SendFails, DrainText, DrainAsk, DrainEnd, Signal, Clear, RelayFails, SteerGate,
       SteerSend, SteerStore, CancelSend, CancelClear, AgentText, AgentAsk, AgentEnds,
       AxisRead, Connect, Disconnect

LEMMA BridgeFrame ==
  Next =>
    \/ awaiting' = awaiting /\ hosted' = hosted
    \/ \E t \in Turn : Ensured(t) \/ Clear(t)
BY DEF Next, Task, SteerHandler, store, bridge, drain, handlers, orbit, agent, PostRead,
       PostAppend, PostApply, PostMark, Route, EnsureFails, StartFailed, Send, SendFails,
       DrainText, DrainAsk, DrainSteerAck, DrainEnd, Signal, RelayFails, SteerGate,
       SteerMark, SteerSend, SteerStore, CancelSend, CancelClear, AgentText, AgentAsk,
       AgentEnds, AxisRead, Connect, Disconnect

LEMMA PlaceFrame ==
  Next =>
    \/ pc' = pc
    \/ \E t \in Turn : PostRead(t) \/ PostAppend(t) \/ PostApply(t) \/ PostMark(t)
                    \/ Route(t) \/ Ensured(t) \/ EnsureFails(t) \/ StartFailed(t)
                    \/ Send(t) \/ SendFails(t) \/ DrainEnd(t) \/ Signal(t)
                    \/ Clear(t)
    \/ AxisRead
BY DEF Next, Task, SteerHandler, store, bridge, drain, handlers, orbit, agent, DrainText,
       DrainAsk, DrainSteerAck, RelayFails, SteerGate, SteerMark, SteerSend, SteerStore,
       CancelSend, CancelClear, AgentText, AgentAsk, AgentEnds, Connect, Disconnect

LEMMA MidFrame ==
  Next =>
    \/ mid' = mid
    \/ \E t \in Turn : PostRead(t)
BY DEF Next, Task, SteerHandler, store, bridge, drain, handlers, orbit, agent,
       PostAppend, PostApply, PostMark, Route, Ensured, EnsureFails, StartFailed, Send,
       SendFails, DrainText, DrainAsk, DrainSteerAck, DrainEnd, Signal, Clear,
       RelayFails, SteerGate, SteerMark, SteerSend, SteerStore, CancelSend, CancelClear,
       AgentText, AgentAsk, AgentEnds, AxisRead, Connect, Disconnect

LEMMA ChannelFrame ==
  Next =>
    \/ chan' = chan
    \/ \E t \in Turn : Route(t)
BY DEF Next, Task, SteerHandler, store, bridge, drain, handlers, orbit, agent, PostRead,
       PostAppend, PostApply, PostMark, Ensured, EnsureFails, StartFailed, Send,
       SendFails, DrainText, DrainAsk, DrainSteerAck, DrainEnd, Signal, Clear,
       RelayFails, SteerGate, SteerMark, SteerSend, SteerStore, CancelSend, CancelClear,
       AgentText, AgentAsk, AgentEnds, AxisRead, Connect, Disconnect

LEMMA QueueFrame ==
  Next =>
    \/ queue' = queue
    \/ \E t \in Turn : DrainText(t) \/ DrainAsk(t) \/ DrainSteerAck(t) \/ DrainEnd(t)
    \/ \E r \in Request : AgentText(r) \/ AgentAsk(r) \/ AgentEnds(r)
    \/ AxisRead
BY DEF Next, Task, SteerHandler, store, bridge, drain, handlers, orbit, agent, PostRead,
       PostAppend, PostApply, PostMark, Route, Ensured, EnsureFails, StartFailed, Send,
       SendFails, Signal, Clear, RelayFails, SteerGate, SteerMark, SteerSend, SteerStore,
       CancelSend, CancelClear, Connect, Disconnect

LEMMA HeardFrame ==
  Next =>
    \/ muted' = muted /\ heard' = heard
    \/ \E t \in Turn : DrainText(t) \/ DrainSteerAck(t)
BY DEF Next, Task, SteerHandler, store, bridge, drain, handlers, orbit, agent, PostRead,
       PostAppend, PostApply, PostMark, Route, Ensured, EnsureFails, StartFailed, Send,
       SendFails, DrainAsk, DrainEnd, Signal, Clear, RelayFails, SteerGate, SteerMark,
       SteerSend, SteerStore, CancelSend, CancelClear, AgentText, AgentAsk, AgentEnds,
       AxisRead, Connect, Disconnect

LEMMA EndedFrame ==
  Next =>
    \/ endedBy' = endedBy
    \/ \E t \in Turn : DrainEnd(t)
BY DEF Next, Task, SteerHandler, store, bridge, drain, handlers, orbit, agent, PostRead,
       PostAppend, PostApply, PostMark, Route, Ensured, EnsureFails, StartFailed, Send,
       SendFails, DrainText, DrainAsk, DrainSteerAck, Signal, Clear, RelayFails,
       SteerGate, SteerMark, SteerSend, SteerStore, CancelSend, CancelClear, AgentText,
       AgentAsk, AgentEnds, AxisRead, Connect, Disconnect

LEMMA SignalledFrame ==
  Next =>
    \/ signalled' = signalled
    \/ \E t \in Turn : StartFailed(t) \/ SendFails(t) \/ DrainEnd(t) \/ Signal(t)
BY DEF Next, Task, SteerHandler, store, bridge, drain, handlers, orbit, agent, PostRead,
       PostAppend, PostApply, PostMark, Route, Ensured, EnsureFails, Send, DrainText,
       DrainAsk, DrainSteerAck, Clear, RelayFails, SteerGate, SteerMark, SteerSend,
       SteerStore, CancelSend, CancelClear, AgentText, AgentAsk, AgentEnds, AxisRead,
       Connect, Disconnect

LEMMA SteerFrame ==
  Next =>
    \/ steer' = steer
    \/ \E s \in Steer : SteerGate(s) \/ SteerMark(s) \/ SteerSend(s) \/ SteerStore(s)
BY DEF Next, Task, SteerHandler, store, bridge, drain, handlers, orbit, agent, PostRead,
       PostAppend, PostApply, PostMark, Route, Ensured, EnsureFails, StartFailed, Send,
       SendFails, DrainText, DrainAsk, DrainSteerAck, DrainEnd, Signal, Clear,
       RelayFails, CancelSend, CancelClear, AgentText, AgentAsk, AgentEnds, AxisRead,
       Connect, Disconnect

LEMMA CancelFrame ==
  Next =>
    \/ cancel' = cancel
    \/ CancelSend \/ CancelClear
BY DEF Next, Task, SteerHandler, store, bridge, drain, handlers, orbit, agent, PostRead,
       PostAppend, PostApply, PostMark, Route, Ensured, EnsureFails, StartFailed, Send,
       SendFails, DrainText, DrainAsk, DrainSteerAck, DrainEnd, Signal, Clear,
       RelayFails, SteerGate, SteerMark, SteerSend, SteerStore, AgentText, AgentAsk,
       AgentEnds, AxisRead, Connect, Disconnect

LEMMA LinkFrame ==
  Next =>
    \/ link' = link /\ opened' = opened
    \/ Connect \/ Disconnect
BY DEF Next, Task, SteerHandler, store, bridge, drain, handlers, orbit, agent, PostRead,
       PostAppend, PostApply, PostMark, Route, Ensured, EnsureFails, StartFailed, Send,
       SendFails, DrainText, DrainAsk, DrainSteerAck, DrainEnd, Signal, Clear,
       RelayFails, SteerGate, SteerMark, SteerSend, SteerStore, CancelSend, CancelClear,
       AgentText, AgentAsk, AgentEnds, AxisRead

LEMMA WireFrame ==
  Next =>
    \/ wire' = wire
    \/ \E t \in Turn : RelayFails(t)
    \/ \E r \in Request : AgentText(r) \/ AgentAsk(r) \/ AgentEnds(r)
    \/ AxisRead \/ Connect \/ Disconnect
BY DEF Next, Task, SteerHandler, store, bridge, drain, handlers, orbit, agent, PostRead,
       PostAppend, PostApply, PostMark, Route, Ensured, EnsureFails, StartFailed, Send,
       SendFails, DrainText, DrainAsk, DrainSteerAck, DrainEnd, Signal, Clear, SteerGate,
       SteerMark, SteerSend, SteerStore, CancelSend, CancelClear

LEMMA BacklogFrame ==
  Next =>
    \/ backlog' = backlog
    \/ \E r \in Request : AgentText(r) \/ AgentAsk(r) \/ AgentEnds(r)
    \/ Connect \/ Disconnect
BY DEF Next, Task, SteerHandler, store, bridge, drain, handlers, orbit, agent, PostRead,
       PostAppend, PostApply, PostMark, Route, Ensured, EnsureFails, StartFailed, Send,
       SendFails, DrainText, DrainAsk, DrainSteerAck, DrainEnd, Signal, Clear,
       RelayFails, SteerGate, SteerMark, SteerSend, SteerStore, CancelSend, CancelClear,
       AxisRead

LEMMA RelayFrame ==
  Next =>
    \/ relay' = relay
    \/ \E t \in Turn : Send(t) \/ RelayFails(t)
    \/ \E r \in Request : AgentText(r) \/ AgentAsk(r) \/ AgentEnds(r)
BY DEF Next, Task, SteerHandler, store, bridge, drain, handlers, orbit, agent, PostRead,
       PostAppend, PostApply, PostMark, Route, Ensured, EnsureFails, StartFailed,
       SendFails, DrainText, DrainAsk, DrainSteerAck, DrainEnd, Signal, Clear, SteerGate,
       SteerMark, SteerSend, SteerStore, CancelSend, CancelClear, AxisRead, Connect,
       Disconnect

LEMMA WorkingFrame ==
  Next =>
    \/ working' = working
    \/ \E t \in Turn : Send(t)
    \/ \E s \in Steer : SteerSend(s)
    \/ \E r \in Request : AgentEnds(r)
BY DEF Next, Task, SteerHandler, store, bridge, drain, handlers, orbit, agent, PostRead,
       PostAppend, PostApply, PostMark, Route, Ensured, EnsureFails, StartFailed,
       SendFails, DrainText, DrainAsk, DrainSteerAck, DrainEnd, Signal, Clear,
       RelayFails, SteerGate, SteerMark, SteerStore, CancelSend, CancelClear, AgentText,
       AgentAsk, AxisRead, Connect, Disconnect

LEMMA SpokenFrame ==
  Next =>
    \/ spoke' = spoke /\ asked' = asked
    \/ \E r \in Request : AgentText(r) \/ AgentAsk(r)
BY DEF Next, Task, SteerHandler, store, bridge, drain, handlers, orbit, agent, PostRead,
       PostAppend, PostApply, PostMark, Route, Ensured, EnsureFails, StartFailed, Send,
       SendFails, DrainText, DrainAsk, DrainSteerAck, DrainEnd, Signal, Clear,
       RelayFails, SteerGate, SteerMark, SteerSend, SteerStore, CancelSend, CancelClear,
       AgentEnds, AxisRead, Connect, Disconnect

LEMMA CrossedFrame ==
  Next =>
    \/ crossed' = crossed
    \/ \E t \in Turn : PostRead(t) \/ Ensured(t)
BY DEF Next, Task, SteerHandler, store, bridge, drain, handlers, orbit, agent,
       PostAppend, PostApply, PostMark, Route, EnsureFails, StartFailed, Send, SendFails,
       DrainText, DrainAsk, DrainSteerAck, DrainEnd, Signal, Clear, RelayFails,
       SteerGate, SteerMark, SteerSend, SteerStore, CancelSend, CancelClear, AgentText,
       AgentAsk, AgentEnds, AxisRead, Connect, Disconnect

(* Every variable keeps its type.                                          *)
LEMMA RowTyped ==
  ASSUME NEW id \in Nat, NEW role \in {"user", "steer", "assistant", "system"}, NEW r \in Request
  PROVE  /\ Row(id, role, r) \in Rows
         /\ Row(id, role, r).id = id /\ Row(id, role, r).role = role /\ Row(id, role, r).of = r
BY DEF Row, Rows

(* The log only grows, by one row.                                         *)
LEMMA RowsGrow ==
  ASSUME TypeInv, Next
  PROVE  rows' = rows \/ \E row \in Rows : rows' = Append(rows, row)
<1>1. ASSUME NEW t \in Turn, PostAppend(t)
      PROVE  rows' = rows \/ rows' = Append(rows, Row(mid[t], "user", t))
  BY <1>1 DEF PostAppend
<1>2. ASSUME NEW t \in Turn, StartFailed(t) \/ DrainEnd(t)
      PROVE  \/ rows' = rows \/ rows' = Append(rows, Row(Reply(t), "assistant", t))
             \/ rows' = Append(rows, Row(Reply(t), "system", t))
  BY <1>2 DEF StartFailed, DrainEnd, Stores
<1>3. ASSUME NEW s \in Steer, SteerStore(s)
      PROVE  rows' = Append(rows, Row(NextId, "steer", s))
  BY <1>3 DEF SteerStore
<1>4. \A t \in Turn : mid[t] \in Nat /\ Reply(t) \in Nat /\ t \in Request
  BY DEF TypeInv, TypeOK, Reply, Request
<1>5. NextId \in Nat /\ \A s \in Steer : s \in Request
  BY NextIdTyped DEF Request
<1>6. /\ \A t \in Turn : Row(mid[t], "user", t) \in Rows /\ Row(Reply(t), "assistant", t) \in Rows
                         /\ Row(Reply(t), "system", t) \in Rows
      /\ \A s \in Steer : Row(NextId, "steer", s) \in Rows
  BY <1>4, <1>5, RowTyped
<1> QED BY <1>1, <1>2, <1>3, <1>6, RowsFrame

LEMMA StoreTyped ==
  ASSUME TypeInv, Next
  PROVE  rows' \in Seq(Rows) /\ view' \subseteq Nat /\ IsFiniteSet(view')
<1>1. rows' \in Seq(Rows)
  <2>1. rows \in Seq(Rows)
    BY DEF TypeInv, TypeOK, Rows
  <2>2. QED BY <2>1, RowsGrow, AppendProperties
<1>2. view' = view \/ \E n \in Nat : view' = view \cup {n}
  <2>1. \A t \in Turn : mid[t] \in Nat /\ Reply(t) \in Nat
    BY DEF TypeInv, TypeOK, Reply
  <2>2. QED BY <2>1, ViewFrame, NextIdTyped DEF PostApply, Signal, SteerStore
<1>3. view \subseteq Nat /\ IsFiniteSet(view)
  BY DEF TypeInv, TypeOK
<1>4. CASE view' = view
  BY <1>1, <1>3, <1>4
<1>5. ASSUME NEW n \in Nat, view' = view \cup {n}
      PROVE  view' \subseteq Nat /\ IsFiniteSet(view')
  <2>1. IsFiniteSet(view \cup {n})
    BY <1>3, FS_AddElement
  <2>2. QED BY <1>3, <1>5, <2>1
<1> QED BY <1>1, <1>2, <1>4, <1>5

LEMMA BridgeTyped ==
  ASSUME TypeInv, Next
  PROVE  /\ inFlight' \in BOOLEAN /\ steerPending' \in Nat
         /\ awaiting' \in Request \cup {None} /\ hosted' \in BOOLEAN
<1>1. inFlight' \in BOOLEAN
  BY MarkFrame DEF PostMark, Clear, CancelClear, TypeInv, TypeOK
<1>2. steerPending' \in Nat
  BY PendingFrame DEF DrainSteerAck, SteerMark, TypeInv, TypeOK
<1>3. awaiting' \in Request \cup {None}
  BY BridgeFrame DEF Ensured, Clear, TypeInv, TypeOK
<1>4. hosted' \in BOOLEAN
  BY BridgeFrame DEF Ensured, Clear, TypeInv, TypeOK
<1> QED BY <1>1, <1>2, <1>3, <1>4

LEMMA FrameKinds ==
  ASSUME TypeInv, wire # <<>>
  PROVE  /\ Head(wire) \in Events \cup Answers
         /\ Tail(wire) \in Seq(Events \cup Answers)
         /\ Head(wire).kind \in {"resp", "refused"} => Head(wire) \in Answers /\ Head(wire).of \in Turn
         /\ Head(wire).kind \notin {"resp", "refused"} => Head(wire) \in Events
<1>1. Head(wire) \in Events \cup Answers /\ Tail(wire) \in Seq(Events \cup Answers)
  BY HeadTailProperties DEF TypeInv
<1> QED BY <1>1 DEF Events, Answers

LEMMA PlaceTyped ==
  ASSUME TypeInv, Next
  PROVE  pc' \in [Turn -> Places]
<1>1. pc \in [Turn -> Places]
  BY DEF TypeInv, TypeOK
<1>2. CASE AxisRead
  <2>1. CASE Head(wire).kind \in {"resp", "refused"}
    <3>1. \E to \in Places : pc' = [pc EXCEPT ![Head(wire).of] = to]
      BY <1>2, <2>1 DEF AxisRead, Places
    <3>2. QED BY <1>1, <3>1
  <2>2. CASE Head(wire).kind \notin {"resp", "refused"}
    BY <1>1, <1>2, <2>2 DEF AxisRead
  <2>3. QED BY <2>1, <2>2
<1>3. ASSUME NEW t \in Turn,
             \/ PostRead(t) \/ PostAppend(t) \/ PostApply(t) \/ PostMark(t) \/ Route(t)
             \/ Ensured(t) \/ EnsureFails(t) \/ StartFailed(t) \/ Send(t) \/ SendFails(t)
             \/ DrainEnd(t) \/ Signal(t) \/ Clear(t)
      PROVE  \E to \in Places : pc' = [pc EXCEPT ![t] = to]
  BY <1>3 DEF PostRead, PostAppend, PostApply, PostMark, Route, Ensured, EnsureFails,
     StartFailed, Send, SendFails, DrainEnd, Stores, Signal, Clear, Goes, Places
<1> QED BY <1>1, <1>2, <1>3, PlaceFrame

LEMMA ChannelTyped ==
  ASSUME TypeInv, Next
  PROVE  mid' \in [Turn -> Nat] /\ chan' \in [Turn -> (0..MaxConn) \cup {None}]
<1>1. mid' \in [Turn -> Nat]
  <2>1. mid \in [Turn -> Nat]
    BY DEF TypeInv, TypeOK
  <2>2. mid' = mid \/ \E t \in Turn : mid' = [mid EXCEPT ![t] = NextId]
    BY MidFrame DEF PostRead
  <2>3. QED BY <2>1, <2>2, NextIdTyped
<1>2. link \in 0..MaxConn
  BY DEF TypeInv, TypeOK
<1>3. chan' \in [Turn -> (0..MaxConn) \cup {None}]
  <2>1. chan \in [Turn -> (0..MaxConn) \cup {None}]
    BY DEF TypeInv, TypeOK
  <2>2. chan' = chan \/ \E t \in Turn : chan' = [chan EXCEPT ![t] = link]
    BY ChannelFrame DEF Route
  <2>3. QED BY <1>2, <2>1, <2>2
<1> QED BY <1>1, <1>3

(* What an agent says goes to the channel, to the wire or to the backlog.  *)
LEMMA EmitsTyped ==
  ASSUME TypeInv, NEW r \in Request, NEW kind \in {"text", "ack", "ask", "done", "error"},
         Emits(r, kind)
  PROVE  /\ queue' = queue \/ queue' = Broadcast(Local, Event(kind, r))
         /\ wire' \in Seq(Events \cup Answers) /\ backlog' \in Seq(Events)
         /\ relay' \subseteq relay
<1>1. Event(kind, r) \in Events
  BY EventTyped
<1> DEFINE e == Event(kind, r)
<1>2. Copies(e) \in Seq(Events) /\ Responses \in Seq(Answers) /\ <<>> \in Seq(Answers)
  BY <1>1, CopiesTyped, ResponsesTyped, EmptySeq
<1>3. Copies(e) \in Seq(Events \cup Answers) /\ Responses \in Seq(Events \cup Answers)
      /\ <<>> \in Seq(Events \cup Answers)
  BY <1>2, EmptySeq
<1>4. /\ wire \o Copies(e) \in Seq(Events \cup Answers)
      /\ backlog \o Copies(e) \in Seq(Events)
  BY <1>2, <1>3, ConcatProperties DEF TypeInv
<1>5. /\ (wire \o Copies(e)) \o Responses \in Seq(Events \cup Answers)
      /\ (wire \o Copies(e)) \o <<>> \in Seq(Events \cup Answers)
  BY <1>3, <1>4, ConcatProperties
<1>6. \/ wire' = wire
      \/ wire' = (wire \o Copies(e)) \o Responses \/ wire' = (wire \o Copies(e)) \o <<>>
  BY DEF Emits
<1>7. backlog' = backlog \/ backlog' = backlog \o Copies(e)
  BY DEF Emits
<1>8. relay' \subseteq relay
  BY DEF Emits, Live
<1>9. queue' = queue \/ queue' = Broadcast(Local, e)
  BY DEF Emits
<1> QED BY <1>4, <1>5, <1>6, <1>7, <1>8, <1>9 DEF TypeInv

(* The kinds of what agents emit.                                          *)
LEMMA AgentEmits ==
  ASSUME NEW r \in Request, AgentText(r) \/ AgentAsk(r) \/ AgentEnds(r)
  PROVE  \E kind \in {"text", "ack", "ask", "done", "error"} : Emits(r, kind)
BY DEF AgentText, AgentAsk, AgentEnds

LEMMA QueueTyped ==
  ASSUME TypeInv, Next
  PROVE  queue' \in [Turn -> Seq(Events)] /\ \A t \in Turn : Len(queue'[t]) <= Cap
<1>1. /\ queue \in [Turn -> Seq(Events)]
      /\ \A t \in Turn : Len(queue[t]) <= Cap /\ Len(queue[t]) \in Nat
  BY LenProperties DEF TypeInv, TypeOK
<1>2. ASSUME NEW t \in Turn, DrainText(t) \/ DrainAsk(t) \/ DrainSteerAck(t) \/ DrainEnd(t)
      PROVE  queue' \in [Turn -> Seq(Events)] /\ \A u \in Turn : Len(queue'[u]) <= Cap
  <2>1. queue[t] # <<>> /\ queue' = [queue EXCEPT ![t] = Tail(queue[t])]
    BY <1>2 DEF DrainText, DrainAsk, DrainSteerAck, DrainEnd, Drains, Consumes
  <2>2. Tail(queue[t]) \in Seq(Events) /\ Len(Tail(queue[t])) = Len(queue[t]) - 1
    BY <1>1, <2>1, HeadTailProperties
  <2>3. QED BY <1>1, <2>1, <2>2
<1>3. ASSUME NEW r \in Request, AgentText(r) \/ AgentAsk(r) \/ AgentEnds(r)
      PROVE  queue' \in [Turn -> Seq(Events)] /\ \A u \in Turn : Len(queue'[u]) <= Cap
  <2>1. PICK kind \in {"text", "ack", "ask", "done", "error"} : Emits(r, kind)
    BY <1>3, AgentEmits
  <2>2. queue' = queue \/ queue' = Broadcast(Local, Event(kind, r))
    BY <2>1, EmitsTyped
  <2>3. QED BY <1>1, <2>2, EventTyped, BroadcastTyped
<1>4. CASE AxisRead
  <2>1. queue' = queue \/ (Head(wire) \in Events /\ queue' = Broadcast(link, Head(wire)))
    BY <1>4, FrameKinds DEF AxisRead
  <2>2. QED BY <1>1, <2>1, BroadcastTyped
<1> QED BY <1>1, <1>2, <1>3, <1>4, QueueFrame

LEMMA HeadTyped ==
  ASSUME TypeInv, NEW t \in Turn, queue[t] # <<>>
  PROVE  /\ Head(queue[t]) \in Events /\ Head(queue[t]).of \in Request
         /\ Head(queue[t]).kind \in {"text", "ack", "ask", "done", "error"}
<1>1. Head(queue[t]) \in Events
  BY HeadTailProperties DEF TypeInv
<1> QED BY <1>1 DEF Events

LEMMA HeardTyped ==
  ASSUME TypeInv, Next
  PROVE  /\ muted' \in [Turn -> BOOLEAN] /\ heard' \in [Turn -> SUBSET Request]
         /\ endedBy' \in [Turn -> Request \cup {None}] /\ signalled' \subseteq Turn
<1>1. muted' \in [Turn -> BOOLEAN]
  <2>1. \/ muted' = muted \/ \E t \in Turn : muted' = [muted EXCEPT ![t] = TRUE]
        \/ \E t \in Turn : muted' = [muted EXCEPT ![t] = FALSE]
    BY HeardFrame DEF DrainText, DrainSteerAck
  <2>2. QED BY <2>1 DEF TypeInv, TypeOK
<1>2. heard' \in [Turn -> SUBSET Request]
  <2>1. heard' = heard \/ \E t \in Turn : /\ queue[t] # <<>>
          /\ heard' = [heard EXCEPT ![t] = heard[t] \cup {Head(queue[t]).of}]
    BY HeardFrame DEF DrainText, DrainSteerAck, Drains
  <2>2. heard \in [Turn -> SUBSET Request]
    BY DEF TypeInv, TypeOK
  <2>3. QED BY <2>1, <2>2, HeadTyped
<1>3. endedBy' \in [Turn -> Request \cup {None}]
  <2>1. endedBy' = endedBy \/ \E t \in Turn : /\ queue[t] # <<>>
          /\ endedBy' = [endedBy EXCEPT ![t] = Head(queue[t]).of]
    BY EndedFrame DEF DrainEnd, Drains
  <2>2. QED BY <2>1, HeadTyped DEF TypeInv, TypeOK
<1>4. signalled' \subseteq Turn
  BY SignalledFrame DEF StartFailed, SendFails, DrainEnd, Stores, Signal, TypeInv, TypeOK
<1> QED BY <1>1, <1>2, <1>3, <1>4

LEMMA HandlersTyped ==
  ASSUME TypeInv, Next
  PROVE  /\ steer' \in [Steer -> {"idle", "gated", "marked", "sent", "ended"}]
         /\ cancel' \in {"idle", "sent", "ended"}
<1>1. steer' \in [Steer -> {"idle", "gated", "marked", "sent", "ended"}]
  <2>1. steer' = steer \/ \E s \in Steer, to \in {"idle", "gated", "marked", "sent", "ended"} :
          steer' = [steer EXCEPT ![s] = to]
    BY SteerFrame DEF SteerGate, SteerMark, SteerSend, SteerStore, SteerGoes
  <2>2. QED BY <2>1 DEF TypeInv, TypeOK
<1>2. cancel' \in {"idle", "sent", "ended"}
  BY CancelFrame DEF CancelSend, CancelClear, TypeInv, TypeOK
<1> QED BY <1>1, <1>2

LEMMA AgentTyped ==
  ASSUME TypeInv, Next
  PROVE  /\ working' \subseteq Request /\ spoke' \subseteq Request /\ asked' \subseteq Turn
         /\ crossed' \in BOOLEAN
<1>1. working' \subseteq Request
  BY WorkingFrame DEF Send, SteerSend, AgentEnds, TypeInv, TypeOK, Request
<1>2. spoke' \subseteq Request /\ asked' \subseteq Turn
  BY SpokenFrame DEF AgentText, AgentAsk, TypeInv, TypeOK
<1>3. crossed' \in BOOLEAN
  BY CrossedFrame DEF PostRead, Ensured, TypeInv, TypeOK
<1> QED BY <1>1, <1>2, <1>3

LEMMA LinkTyped ==
  ASSUME TypeInv, Next
  PROVE  link' \in 0..opened' /\ opened' \in 0..MaxConn
BY LinkFrame DEF Connect, Disconnect, TypeInv, TypeOK

(* What is kept when the connection is lost are events.                    *)
LEMMA Ranked ==
  ASSUME NEW n \in Nat, NEW A \in SUBSET (1..n), NEW k \in 1..Cardinality(A)
  PROVE  \E i \in A : Cardinality({j \in A : j <= i}) = k
<1> DEFINE Up(i) == {j \in A : j <= i}
           S == {i \in 0..n : Cardinality(Up(i)) < k}
<1>0. \A j \in A : j \in Nat /\ 1 <= j /\ j <= n
  OBVIOUS
<1>1. IsFiniteSet(A) /\ Cardinality(A) \in Nat /\ k \in Nat /\ k <= Cardinality(A) /\ k > 0
  <2>1. IsFiniteSet(1..n)
    BY FS_Interval
  <2>2. IsFiniteSet(A)
    BY <2>1, FS_Subset
  <2>3. Cardinality(A) \in Nat
    BY <2>2, FS_CardinalityType
  <2>4. QED BY <2>2, <2>3
<1>2. \A i \in Nat : IsFiniteSet(Up(i)) /\ Cardinality(Up(i)) \in Nat
  <2>1. \A i \in Nat : Up(i) \in SUBSET A
    OBVIOUS
  <2>2. \A i \in Nat : IsFiniteSet(Up(i))
    BY <1>1, <2>1, FS_Subset
  <2>3. QED BY <2>2, FS_CardinalityType
<1>3. 0 \in S
  <2>1. \A j \in A : ~(j <= 0)
    BY <1>0
  <2>2. Up(0) = {}
    BY <2>1
  <2>3. QED BY <1>1, <2>2, FS_EmptySet
<1>4. n \notin S
  <2>1. Up(n) = A
    BY <1>0
  <2>2. QED BY <1>1, <2>1
<1>5. S \in SUBSET Nat /\ IsFiniteSet(S) /\ S # {}
  <2>1. IsFiniteSet(0..n)
    BY FS_Interval
  <2>2. S \in SUBSET (0..n)
    OBVIOUS
  <2>3. IsFiniteSet(S)
    BY <2>1, <2>2, FS_Subset
  <2>4. QED BY <1>3, <2>2, <2>3
<1>6. PICK m \in S : \A x \in S : m >= x
  <2> HIDE DEF S
  <2>1. QED BY <1>5, MaxExists
<1>7. m \in 0..n /\ m # n /\ m + 1 \in 1..n /\ Cardinality(Up(m)) < k
  BY <1>4
<1>8. m + 1 \notin S /\ ~(Cardinality(Up(m + 1)) < k)
  BY <1>6, <1>7
<1>9. CASE m + 1 \notin A
  <2>1. Up(m + 1) = Up(m)
    <3>1. \A j \in A : j <= m + 1 <=> j <= m
      BY <1>0, <1>7, <1>9
    <3>2. QED BY <3>1
  <2>2. QED BY <1>7, <1>8, <2>1
<1>10. CASE m + 1 \in A
  <2>1. Up(m + 1) = Up(m) \cup {m + 1} /\ m + 1 \notin Up(m)
    <3>1. \A j \in A : j <= m + 1 <=> j <= m \/ j = m + 1
      BY <1>0, <1>7
    <3>2. ~(m + 1 <= m)
      BY <1>7
    <3>3. QED BY <1>10, <3>1, <3>2
  <2> HIDE DEF Up
  <2>2. Cardinality(Up(m + 1)) = Cardinality(Up(m)) + 1
    BY <1>2, <1>7, <2>1, FS_AddElement
  <2>3. Cardinality(Up(m + 1)) = k
    BY <1>1, <1>2, <1>7, <1>8, <2>2
  <2>4. QED BY <1>10, <2>3 DEF Up
<1> QED BY <1>9, <1>10

LEMMA OnlyEvents ==
  ASSUME TypeInv
  PROVE  /\ Unread \in Seq(Events)
         /\ \A k \in 1..Len(Unread) : \E i \in 1..Len(wire) : Unread[k] = wire[i]
<1>0. PICK at : at = {i \in DOMAIN wire : IsEvent(wire[i])}
  OBVIOUS
<1>1. wire \in Seq(Events \cup Answers) /\ DOMAIN wire = 1..Len(wire) /\ Len(wire) \in Nat
  BY LenProperties DEF TypeInv
<1>2. at \in SUBSET (1..Len(wire))
  BY <1>0, <1>1
<1>3. Cardinality(at) \in Nat
  <2>1. IsFiniteSet(1..Len(wire))
    BY <1>1, FS_Interval
  <2>2. IsFiniteSet(at)
    BY <1>2, <2>1, FS_Subset
  <2>3. QED BY <2>2, FS_CardinalityType
<1>4. \A i \in at : wire[i] \in Events
  <2>1. \A i \in at : wire[i] \in Events \cup Answers /\ IsEvent(wire[i])
    BY <1>0, <1>1, ElementOfSeq
  <2>2. QED BY <2>1 DEF IsEvent, Answers
<1>5. ASSUME NEW k \in 1..Cardinality(at)
      PROVE  (CHOOSE i \in at : Cardinality({j \in at : j <= i}) = k) \in at
  <2>1. \E i \in at : Cardinality({j \in at : j <= i}) = k
    <3>1. PICK N \in Nat : at \in SUBSET (1..N)
      BY <1>1, <1>2
    <3>2. PICK B \in SUBSET (1..N) : B = at
      BY <3>1
    <3>3. PICK q \in 1..Cardinality(B) : q = k
      BY <3>2
    <3>4. PICK i \in B : Cardinality({j \in B : j <= i}) = q
      BY Ranked
    <3>5. {j \in B : j <= i} = {j \in at : j <= i}
      BY <3>2
    <3>6. QED BY <3>2, <3>3, <3>4, <3>5
  <2>2. QED BY <2>1
<1>6. Unread = [k \in 1..Cardinality(at) |->
                  wire[CHOOSE i \in at : Cardinality({j \in at : j <= i}) = k]]
  BY <1>0 DEF Unread
<1>7. \A k \in 1..Cardinality(at) :
        wire[CHOOSE i \in at : Cardinality({j \in at : j <= i}) = k] \in Events
  BY <1>4, <1>5
<1>8. Unread \in [1..Cardinality(at) -> Events]
  BY <1>6, <1>7
<1>9. Unread \in Seq(Events) /\ Len(Unread) = Cardinality(at)
  BY <1>3, <1>8, LenProperties
<1>10. \A k \in 1..Cardinality(at) : \E i \in at : Unread[k] = wire[i]
  BY <1>5, <1>6
<1> QED BY <1>1, <1>2, <1>9, <1>10

LEMMA WireTyped ==
  ASSUME TypeInv, Next
  PROVE  wire' \in Seq(Events \cup Answers) /\ backlog' \in Seq(Events)
<1>1. /\ wire \in Seq(Events \cup Answers) /\ backlog \in Seq(Events)
      /\ backlog \in Seq(Events \cup Answers)
      /\ <<>> \in Seq(Events \cup Answers) /\ <<>> \in Seq(Events)
  BY EmptySeq DEF TypeInv
<1>2. ASSUME NEW t \in Turn, RelayFails(t)
      PROVE  wire' \in Seq(Events \cup Answers) /\ backlog' \in Seq(Events)
  <2>1. Event("refused", t) \in Events \cup Answers
    BY AnswerTyped
  <2>2. wire' = Append(wire, Event("refused", t)) /\ backlog' = backlog
    BY <1>2 DEF RelayFails
  <2>3. QED BY <1>1, <2>1, <2>2, AppendProperties
<1>3. ASSUME NEW r \in Request, AgentText(r) \/ AgentAsk(r) \/ AgentEnds(r)
      PROVE  wire' \in Seq(Events \cup Answers) /\ backlog' \in Seq(Events)
  BY <1>3, AgentEmits, EmitsTyped
<1>4. CASE AxisRead
  BY <1>1, <1>4, FrameKinds DEF AxisRead
<1>5. CASE Connect
  BY <1>1, <1>5 DEF Connect
<1>6. CASE Disconnect
  <2>1. backlog \o Unread \in Seq(Events)
    BY <1>1, OnlyEvents, ConcatProperties
  <2>2. QED BY <1>1, <1>6, <2>1 DEF Disconnect
<1>7. CASE wire' = wire /\ backlog' = backlog
  BY <1>1, <1>7
<1>8. \/ wire' = wire /\ backlog' = backlog
      \/ \E t \in Turn : RelayFails(t)
      \/ \E r \in Request : AgentText(r) \/ AgentAsk(r) \/ AgentEnds(r)
      \/ AxisRead \/ Connect \/ Disconnect
  BY WireFrame, BacklogFrame
<1> QED BY <1>2, <1>3, <1>4, <1>5, <1>6, <1>7, <1>8

LEMMA RelayTyped ==
  ASSUME TypeInv, Next
  PROVE  relay' \subseteq Turn /\ IsFiniteSet(relay')
<1>1. relay \subseteq Turn /\ IsFiniteSet(relay)
  BY DEF TypeInv, TypeOK
<1>2. \/ relay' \subseteq relay
      \/ \E t \in Turn : relay' = relay \cup {t}
  <2>1. ASSUME NEW t \in Turn, Send(t) \/ RelayFails(t)
        PROVE  relay' \subseteq relay \/ relay' = relay \cup {t}
    BY <2>1 DEF Send, RelayFails
  <2>2. ASSUME NEW r \in Request, AgentText(r) \/ AgentAsk(r) \/ AgentEnds(r)
        PROVE  relay' \subseteq relay
    BY <2>2, AgentEmits, EmitsTyped
  <2>3. QED BY <2>1, <2>2, RelayFrame
<1>3. CASE relay' \subseteq relay
  BY <1>1, <1>3, FS_Subset
<1>4. ASSUME NEW t \in Turn, relay' = relay \cup {t}
      PROVE  relay' \subseteq Turn /\ IsFiniteSet(relay')
  BY <1>1, <1>4, FS_AddElement
<1> QED BY <1>2, <1>3, <1>4

LEMMA TypeStart ==
  Init => TypeInv
<1> SUFFICES ASSUME Init PROVE TypeInv
  OBVIOUS
<1>1. rows \in Seq(Rows) /\ wire \in Seq(Events \cup Answers) /\ backlog \in Seq(Events)
      /\ <<>> \in Seq(Events) /\ Len(<<>>) = 0
  BY EmptySeq DEF Init
<1>2. IsFiniteSet(view) /\ IsFiniteSet(relay)
  BY FS_EmptySet DEF Init
<1>3. queue \in [Turn -> Seq(Events)] /\ \A t \in Turn : Len(queue[t]) <= Cap
  BY <1>1 DEF Init
<1>4. /\ inFlight \in BOOLEAN /\ hosted \in BOOLEAN /\ crossed \in BOOLEAN
      /\ muted \in [Turn -> BOOLEAN]
  BY DEF Init
<1>5. /\ view \subseteq Nat /\ steerPending \in Nat /\ awaiting \in Request \cup {None}
      /\ pc \in [Turn -> Places] /\ mid \in [Turn -> Nat]
      /\ chan \in [Turn -> (0..MaxConn) \cup {None}]
      /\ heard \in [Turn -> SUBSET Request] /\ endedBy \in [Turn -> Request \cup {None}]
      /\ signalled \subseteq Turn
      /\ steer \in [Steer -> {"idle", "gated", "marked", "sent", "ended"}]
      /\ cancel \in {"idle", "sent", "ended"}
      /\ link \in 0..opened /\ opened \in 0..MaxConn /\ relay \subseteq Turn
      /\ working \subseteq Request /\ spoke \subseteq Request /\ asked \subseteq Turn
  BY DEF Init, Places
<1> QED BY <1>1, <1>2, <1>3, <1>4, <1>5 DEF TypeInv, TypeOK, Rows

LEMMA TypeStep ==
  TypeInv /\ [Next]_vars => TypeInv'
<1>1. ASSUME TypeInv, Next
      PROVE  TypeInv'
  BY <1>1, StoreTyped, BridgeTyped, PlaceTyped, ChannelTyped, QueueTyped, HeardTyped,
     HandlersTyped, LinkTyped, AgentTyped, WireTyped, RelayTyped DEF TypeInv, TypeOK, Rows
<1>2. ASSUME TypeInv, UNCHANGED vars
      PROVE  TypeInv'
  BY <1>2 DEF vars, store, bridge, drain, handlers, orbit, agent, TypeInv, TypeOK
<1> QED BY <1>1, <1>2

(* Every variable keeps its type, whatever happens: in particular a slow
   subscriber's queue stays within its capacity (the broadcast channel's
   Lagged error is skipped), and the connection numbers within their bound. *)
THEOREM TurnsCorrect == Spec => []TypeOK
<1>1. TypeInv => TypeOK
  BY DEF TypeInv
<1>2. QED BY <1>1, TypeStart, TypeStep, PTL DEF Spec

-----------------------------------------------------------------------------
(***************************************************************************)
(* The mark.                                                               *)
(***************************************************************************)
(* A turn moves by its own steps, or when the answer to its prompt is read. *)
LEMMA Moves ==
  ASSUME TypeInv, Next, NEW u \in Turn
  PROVE  \/ pc'[u] = pc[u]
         \/ PostRead(u) \/ PostAppend(u) \/ PostApply(u) \/ PostMark(u)
         \/ Route(u) \/ Ensured(u) \/ EnsureFails(u) \/ StartFailed(u)
         \/ Send(u) \/ SendFails(u) \/ DrainEnd(u) \/ Signal(u) \/ Clear(u)
         \/ /\ AxisRead
            /\ Head(wire) \in Answers /\ Head(wire).of = u
            /\ pc'[u] = IF Head(wire).kind = "resp" THEN "drain" ELSE "refused"
<1>1. pc \in [Turn -> Places]
  BY DEF TypeInv, TypeOK
<1>2. CASE AxisRead
  <2>1. CASE Head(wire).kind \in {"resp", "refused"}
    <3>1. Head(wire) \in Answers /\ Head(wire).of \in Turn
      BY <1>2, <2>1, FrameKinds DEF AxisRead
    <3>2. pc' = [pc EXCEPT ![Head(wire).of] =
                   IF Head(wire).kind = "resp" THEN "drain" ELSE "refused"]
      BY <1>2, <2>1 DEF AxisRead
    <3>3. CASE u = Head(wire).of
      <4>1. pc'[u] = IF Head(wire).kind = "resp" THEN "drain" ELSE "refused"
        BY <1>1, <3>2, <3>3
      <4>2. QED BY <1>2, <3>1, <3>3, <4>1
    <3>4. CASE u # Head(wire).of
      BY <1>1, <3>1, <3>2, <3>4
    <3>5. QED BY <3>3, <3>4
  <2>2. CASE Head(wire).kind \notin {"resp", "refused"}
    BY <1>2, <2>2 DEF AxisRead
  <2>3. QED BY <2>1, <2>2
<1>3. ASSUME NEW t \in Turn, t # u,
             \/ PostRead(t) \/ PostAppend(t) \/ PostApply(t) \/ PostMark(t) \/ Route(t)
             \/ Ensured(t) \/ EnsureFails(t) \/ StartFailed(t) \/ Send(t) \/ SendFails(t)
             \/ DrainEnd(t) \/ Signal(t) \/ Clear(t)
      PROVE  pc'[u] = pc[u]
  <2>1. \E to : pc' = [pc EXCEPT ![t] = to]
    BY <1>3 DEF PostRead, PostAppend, PostApply, PostMark, Route, Ensured, EnsureFails,
       StartFailed, Send, SendFails, DrainEnd, Stores, Signal, Clear, Goes
  <2>2. QED BY <1>1, <1>3, <2>1
<1> QED BY <1>2, <1>3, PlaceFrame

(* Where each of a turn's steps begins and where it leads.                  *)
LEMMA Steps ==
  ASSUME TypeInv, NEW u \in Turn
  PROVE  /\ PostRead(u) => pc[u] = "idle" /\ pc'[u] = "read"
         /\ PostAppend(u) => pc[u] = "read" /\ pc'[u] \in {"stored", "applied"}
         /\ PostApply(u) => pc[u] = "stored" /\ pc'[u] = "applied"
         /\ PostMark(u) => pc[u] = "applied" /\ pc'[u] = "start"
         /\ Route(u) => pc[u] = "start" /\ pc'[u] \in {"ensure", "failed"}
         /\ Ensured(u) => pc[u] = "ensure" /\ pc'[u] = "send"
         /\ EnsureFails(u) => pc[u] = "ensure" /\ pc'[u] = "failed"
         /\ StartFailed(u) => pc[u] = "failed" /\ pc'[u] \in {"reply", "clear"}
         /\ Send(u) => pc[u] = "send" /\ pc'[u] \in {"wait", "drain"}
         /\ SendFails(u) => pc[u] \in {"send", "wait", "refused"} /\ pc'[u] = "clear"
         /\ DrainEnd(u) => pc[u] = "drain" /\ pc'[u] \in {"reply", "clear"}
         /\ Signal(u) => pc[u] = "reply" /\ pc'[u] = "clear"
         /\ Clear(u) => pc[u] = "clear" /\ pc'[u] = "ended"
<1>1. pc \in [Turn -> Places]
  BY DEF TypeInv, TypeOK
<1> QED BY <1>1 DEF PostRead, PostAppend, PostApply, PostMark, Route, Ensured, EnsureFails,
       StartFailed, Send, SendFails, DrainEnd, Stores, Signal, Clear, Goes

LEMMA MarkStep ==
  TypeInv /\ MarkBelongsToTurn /\ [Next]_vars => MarkBelongsToTurn'
<1>1. ASSUME TypeInv, MarkBelongsToTurn, Next
      PROVE  MarkBelongsToTurn'
  <2> SUFFICES ASSUME inFlight'
               PROVE  \E t \in Turn : pc'[t] \notin Posting \cup {"ended"}
    BY DEF MarkBelongsToTurn
  <2>1. CASE \E t \in Turn : PostMark(t)
    BY <1>1, <2>1, Steps DEF Posting
  <2>2. CASE ~\E t \in Turn : PostMark(t)
    <3>1. (\A t \in Turn : ~Clear(t)) /\ ~CancelClear
      BY DEF Clear, CancelClear
    <3>2. inFlight
      BY <1>1, <2>2, <3>1, MarkFrame
    <3>3. PICK t \in Turn : pc[t] \notin Posting \cup {"ended"}
      BY <1>1, <3>2 DEF MarkBelongsToTurn
    <3>4. pc'[t] = pc[t] \/ pc'[t] \in {"ensure", "failed", "send", "reply", "clear", "wait",
                                       "drain", "refused"}
      BY <1>1, <2>2, <3>1, <3>3, Moves, Steps DEF Posting
    <3>5. QED BY <3>3, <3>4 DEF Posting
  <2>3. QED BY <2>1, <2>2
<1>2. ASSUME MarkBelongsToTurn, UNCHANGED vars
      PROVE  MarkBelongsToTurn'
  BY <1>2 DEF vars, bridge, MarkBelongsToTurn
<1> QED BY <1>1, <1>2

(* The session is shown as running only while some turn's task has still to
   clear the mark: no way out of the task (a start, a send or a response that
   fails, a lost connection, an error of the agent) leaves the mark behind. *)
THEOREM MarkIsNotForgotten == Spec => []MarkBelongsToTurn
<1>1. Init => MarkBelongsToTurn
  BY DEF Init, MarkBelongsToTurn
<1>2. QED BY <1>1, MarkStep, TypeStart, TypeStep, PTL DEF Spec

-----------------------------------------------------------------------------
(***************************************************************************)
(* Prompts and their answers.  A prompt is answered once, while its task   *)
(* waits for it: the Orbit drains it or has answered it, not both, and an  *)
(* answer never outlives the connection its prompt came on.                *)
(***************************************************************************)
IsAnswer(f) == f.kind \in {"resp", "refused"}
Answered == {wire[i].of : i \in {j \in 1..Len(wire) : IsAnswer(wire[j])}}

Drained == \A t \in relay : /\ chan[t] \in 1..opened /\ pc[t] \in {"wait", "clear", "ended"}
                            /\ chan[t] = link => pc[t] = "wait"
Awaited == \A t \in Answered : t \notin relay /\ pc[t] = "wait" /\ chan[t] = link
AnsweredOnce ==
  \A i, j \in 1..Len(wire) :
    IsAnswer(wire[i]) /\ IsAnswer(wire[j]) /\ wire[i].of = wire[j].of => i = j
Linked == link = Local => wire = <<>>

PromptInv == TypeInv /\ Drained /\ Awaited /\ AnsweredOnce /\ Linked

(* A turn that is drained or answered changes its place only by giving up
   after its connection was lost, and it keeps its channel. *)
LEMMA Waiting ==
  ASSUME PromptInv, Next, NEW t \in relay \cup Answered
  PROVE  /\ t \in Turn /\ chan'[t] = chan[t]
         /\ \/ pc'[t] = pc[t]
            \/ chan[t] # link /\ pc'[t] \in {"clear", "ended"}
            \/ AxisRead /\ Head(wire) \in Answers /\ Head(wire).of = t
<1>1. t \in Turn
  <2>1. ASSUME NEW i \in 1..Len(wire), IsAnswer(wire[i])
        PROVE  wire[i].of \in Turn
    <3>1. wire[i] \in Events \cup Answers
      BY ElementOfSeq DEF PromptInv, TypeInv
    <3>2. QED BY <2>1, <3>1 DEF IsAnswer, Events, Answers
  <2>2. QED BY <2>1 DEF PromptInv, TypeInv, TypeOK, Answered
<1>2. pc[t] \in {"wait", "clear", "ended"} /\ (chan[t] = link => pc[t] = "wait") /\ chan[t] # Local
  BY DEF PromptInv, Drained, Awaited, Answered, Linked
<1>3. TypeInv
  BY DEF PromptInv
<1>4. chan'[t] = chan[t]
  <2>1. \A u \in Turn : Route(u) => u # t /\ chan'[t] = chan[t]
    BY <1>1, <1>2, <1>3, Steps DEF Route, TypeInv, TypeOK
  <2>2. QED BY <2>1, ChannelFrame
<1>5. \/ pc'[t] = pc[t]
      \/ chan[t] # link /\ pc'[t] \in {"clear", "ended"}
      \/ AxisRead /\ Head(wire) \in Answers /\ Head(wire).of = t
  <2>1. SendFails(t) => chan[t] # link
    BY <1>2, <1>3, Steps DEF SendFails, Goes, Usable
  <2>2. QED BY <1>1, <1>2, <1>3, <2>1, Moves, Steps
<1> QED BY <1>1, <1>4, <1>5

(* No frame, drain or connection comes or goes.                            *)
LEMMA PromptsIdle ==
  ASSUME PromptInv, Next, wire' = wire, relay' = relay, link' = link, opened' = opened
  PROVE  Drained' /\ Awaited' /\ AnsweredOnce' /\ Linked'
<1>1. ~AxisRead
  <2>1. SUFFICES ASSUME AxisRead PROVE FALSE
    OBVIOUS
  <2>2. wire # <<>> /\ wire' = Tail(wire)
    BY <2>1 DEF AxisRead
  <2>3. wire \in Seq(Events \cup Answers)
    BY DEF PromptInv, TypeInv
  <2>4. Len(Tail(wire)) = Len(wire) - 1 /\ Len(wire) \in Nat
    BY <2>2, <2>3, HeadTailProperties, LenProperties
  <2>5. QED BY <2>2, <2>4
<1>2. Answered' = Answered
  BY DEF Answered, IsAnswer
<1>3. Drained'
  BY <1>1, Waiting DEF PromptInv, Drained
<1>4. Awaited'
  BY <1>1, <1>2, Waiting DEF PromptInv, Awaited
<1> QED BY <1>3, <1>4 DEF PromptInv, AnsweredOnce, Linked, IsAnswer

LEMMA PromptSent ==
  ASSUME PromptInv, Next, NEW u \in Turn, Send(u)
  PROVE  Drained' /\ Awaited' /\ AnsweredOnce' /\ Linked'
<1>1. /\ wire' = wire /\ link' = link /\ opened' = opened /\ chan' = chan
      /\ pc[u] = "send" /\ Usable(u)
      /\ IF chan[u] = Local THEN relay' = relay ELSE relay' = relay \cup {u} /\ pc' = [pc EXCEPT ![u] = "wait"]
  BY DEF Send, Goes, orbit
<1>2. CASE relay' = relay
  BY <1>1, <1>2, PromptsIdle
<1>3. CASE relay' = relay \cup {u} /\ chan[u] # Local /\ pc' = [pc EXCEPT ![u] = "wait"]
  <2>1. u \notin relay /\ u \notin Answered
    BY <1>1 DEF PromptInv, Drained, Awaited
  <2>2. link \in 0..opened /\ opened \in Nat /\ pc \in [Turn -> Places] /\ relay \subseteq Turn
    BY DEF PromptInv, TypeInv, TypeOK
  <2>3. chan[u] = link /\ link \in 1..opened
    BY <1>1, <1>3, <2>2 DEF Usable
  <2>4. Answered' = Answered
    BY <1>1 DEF Answered, IsAnswer
  <2>5. \A t \in Turn : t # u => pc'[t] = pc[t]
    BY <1>3, <2>2
  <2>6. pc'[u] = "wait"
    BY <1>3, <2>2
  <2>7. Drained'
    <3>1. \A t \in relay : t # u /\ pc'[t] = pc[t]
      BY <2>1, <2>2, <2>5
    <3>2. QED BY <1>1, <1>3, <2>3, <2>6, <3>1 DEF PromptInv, Drained
  <2>8. Awaited'
    <3>1. \A t \in Answered : t \in Turn /\ t # u
      BY <2>1, Waiting
    <3>2. QED BY <1>1, <1>3, <2>4, <2>5, <3>1 DEF PromptInv, Awaited
  <2>9. QED BY <1>1, <2>7, <2>8 DEF PromptInv, AnsweredOnce, Linked, IsAnswer
<1> QED BY <1>1, <1>2, <1>3

(* Frames are added at the end of the wire.                                *)
LEMMA Longer ==
  ASSUME TypeInv, NEW fs \in Seq(Events \cup Answers), wire' = wire \o fs
  PROVE  /\ Len(wire') = Len(wire) + Len(fs) /\ Len(wire) \in Nat /\ Len(fs) \in Nat
         /\ \A i \in 1..Len(wire) : wire'[i] = wire[i]
         /\ \A i \in 1..Len(wire') : i \notin 1..Len(wire) =>
              i - Len(wire) \in 1..Len(fs) /\ wire'[i] = fs[i - Len(wire)]
<1>1. wire \in Seq(Events \cup Answers) /\ Len(wire) \in Nat /\ Len(fs) \in Nat
  BY LenProperties DEF TypeInv
<1>2. Len(wire \o fs) = Len(wire) + Len(fs)
      /\ \A i \in 1..(Len(wire) + Len(fs)) :
           (wire \o fs)[i] = IF i <= Len(wire) THEN wire[i] ELSE fs[i - Len(wire)]
  BY <1>1, ConcatProperties
<1> QED BY <1>1, <1>2

(* New answers for turns that wait and are drained no more keep the pairing. *)
LEMMA Answers1 ==
  ASSUME PromptInv, NEW fs \in Seq(Events \cup Answers), wire' = wire \o fs,
         relay' \subseteq relay, pc' = pc, chan' = chan, link' = link, opened' = opened,
         link # Local \/ fs = <<>>,
         \A i \in 1..Len(fs) : IsAnswer(fs[i]) => fs[i].of \in Live /\ fs[i].of \notin relay',
         \A i, j \in 1..Len(fs) :
           IsAnswer(fs[i]) /\ IsAnswer(fs[j]) /\ fs[i].of = fs[j].of => i = j
  PROVE  Drained' /\ Awaited' /\ AnsweredOnce' /\ Linked'
<1>1. TypeInv
  BY DEF PromptInv
<1>2. Drained'
  BY DEF PromptInv, Drained
<1>3. Awaited'
  <2>1. SUFFICES ASSUME NEW i \in 1..Len(wire'), IsAnswer(wire'[i])
                 PROVE  wire'[i].of \notin relay' /\ pc[wire'[i].of] = "wait" /\ chan[wire'[i].of] = link
    BY DEF Awaited, Answered, IsAnswer
  <2>2. CASE i \in 1..Len(wire)
    <3>1. wire[i].of \in Answered
      BY <1>1, <2>1, <2>2, Longer DEF Answered
    <3>2. QED BY <1>1, <2>2, <3>1, Longer DEF PromptInv, Awaited
  <2>3. CASE i \notin 1..Len(wire)
    <3>1. wire'[i].of \in Live /\ wire'[i].of \notin relay'
      BY <1>1, <2>1, <2>3, Longer
    <3>2. QED BY <3>1 DEF PromptInv, Drained, Live
  <2>4. QED BY <2>2, <2>3
<1>4. AnsweredOnce'
  <2>1. SUFFICES ASSUME NEW i \in 1..Len(wire'), NEW j \in 1..Len(wire'), IsAnswer(wire'[i]),
                        IsAnswer(wire'[j]), wire'[i].of = wire'[j].of
                 PROVE  i = j
    BY DEF AnsweredOnce, IsAnswer
  <2>2. \A k \in 1..Len(wire) : IsAnswer(wire[k]) => wire[k].of \notin relay
    BY DEF PromptInv, Awaited, Answered
  <2>3. \A k \in 1..Len(fs) : IsAnswer(fs[k]) => fs[k].of \in relay
    BY DEF Live
  <2>4. CASE i \in 1..Len(wire) /\ j \in 1..Len(wire)
    BY <1>1, <2>1, <2>4, Longer DEF PromptInv, AnsweredOnce
  <2>5. CASE i \in 1..Len(wire) /\ j \notin 1..Len(wire)
    BY <1>1, <2>1, <2>2, <2>3, <2>5, Longer
  <2>6. CASE i \notin 1..Len(wire) /\ j \in 1..Len(wire)
    BY <1>1, <2>1, <2>2, <2>3, <2>6, Longer
  <2>7. CASE i \notin 1..Len(wire) /\ j \notin 1..Len(wire)
    <3>1. i - Len(wire) = j - Len(wire)
      BY <1>1, <2>1, <2>7, Longer
    <3>2. QED BY <1>1, <3>1, Longer
  <2>8. QED BY <2>4, <2>5, <2>6, <2>7
<1>5. Linked'
  <2>1. CASE fs = <<>>
    <3>1. wire' = wire
      BY <1>1, <2>1, ConcatProperties, EmptySeq DEF TypeInv
    <3>2. QED BY <3>1 DEF PromptInv, Linked
  <2>2. CASE link # Local
    BY <2>2 DEF Linked
  <2>3. QED BY <2>1, <2>2
<1> QED BY <1>2, <1>3, <1>4, <1>5

LEMMA PromptEmits ==
  ASSUME PromptInv, Next, NEW r \in Request,
         AgentText(r) \/ AgentAsk(r) \/ AgentEnds(r)
  PROVE  Drained' /\ Awaited' /\ AnsweredOnce' /\ Linked'
<1>1. PICK kind \in {"text", "ack", "ask", "done", "error"} : Emits(r, kind)
  BY AgentEmits
<1>2. pc' = pc /\ chan' = chan /\ link' = link /\ opened' = opened
  BY DEF AgentText, AgentAsk, AgentEnds
<1>3. TypeInv /\ wire \in Seq(Events \cup Answers) /\ relay' \subseteq relay
  BY <1>1, EmitsTyped DEF PromptInv, TypeInv
<1>4. PICK e \in Events : e = Event(kind, r) /\ ~IsAnswer(e)
  BY EventTyped DEF IsAnswer
<1>5. /\ Copies(e) \in Seq(Events) /\ Len(Copies(e)) = Cardinality(relay)
      /\ Cardinality(relay) \in Nat /\ \A i \in 1..Cardinality(relay) : Copies(e)[i] = e
      /\ Copies(e) \in Seq(Events \cup Answers)
  BY <1>3, <1>4, CopiesTyped
<1>6. CASE wire' = wire
  <2>1. PICK fs \in Seq(Events \cup Answers) : fs = <<>>
    BY EmptySeq
  <2>2. wire' = wire \o fs /\ Len(fs) = 0
    BY <1>3, <1>6, <2>1, ConcatEmptySeq, EmptySeq
  <2>3. /\ \A i \in 1..Len(fs) : fs[i].of \in Live /\ fs[i].of \notin relay'
        /\ \A i, j \in 1..Len(fs) : i = j
    BY <2>2
  <2>4. QED BY <1>2, <1>3, <2>1, <2>2, <2>3, Answers1
<1>7. ASSUME NEW fs \in Seq(Answers), wire' = (wire \o Copies(e)) \o fs, link # Local,
             \A i \in 1..Len(fs) : IsAnswer(fs[i]) => fs[i].of \in Live /\ fs[i].of \notin relay',
             \A i, j \in 1..Len(fs) : fs[i].of = fs[j].of => i = j
      PROVE  Drained' /\ Awaited' /\ AnsweredOnce' /\ Linked'
  <2>0. fs \in Seq(Events \cup Answers)
    OBVIOUS
  <2>1. fs \in Seq(Events \cup Answers) /\ Copies(e) \o fs \in Seq(Events \cup Answers)
    BY <1>5, <2>0, ConcatProperties
  <2>2. PICK gs \in Seq(Events \cup Answers) : gs = Copies(e) \o fs
    BY <2>1
  <2>3. wire' = wire \o gs
    <3>1. (wire \o Copies(e)) \o fs = wire \o (Copies(e) \o fs)
      BY <1>3, <1>5, <2>1, ConcatAssociative
    <3>2. QED BY <1>7, <2>2, <3>1
  <2>4. PICK n \in Nat : n = Cardinality(relay)
    BY <1>5
  <2>5. Len(gs) = n + Len(fs) /\ Len(fs) \in Nat
        /\ \A i \in 1..Len(gs) : IF i <= n THEN gs[i] = e ELSE i - n \in 1..Len(fs) /\ gs[i] = fs[i - n]
    <3>1. Len(gs) = Len(Copies(e)) + Len(fs) /\ Len(fs) \in Nat
      <4>1. Len(Copies(e) \o fs) = Len(Copies(e)) + Len(fs)
        BY <1>5, <2>0, ConcatProperties
      <4>2. Len(fs) \in Nat
        BY <2>0, LenProperties
      <4>3. QED BY <2>2, <4>1, <4>2
    <3>2. \A i \in 1..(Len(Copies(e)) + Len(fs)) :
            gs[i] = IF i <= Len(Copies(e)) THEN Copies(e)[i] ELSE fs[i - Len(Copies(e))]
      BY <1>5, <2>1, <2>2, ConcatProperties
    <3>3. Len(Copies(e)) = n
      BY <1>5, <2>4
    <3>4. Len(gs) = n + Len(fs) /\ Len(fs) \in Nat
      BY <3>1, <3>3
    <3>5. \A i \in 1..Len(gs) : i <= n => gs[i] = e
      BY <1>5, <3>2, <3>3, <3>4
    <3>6. \A i \in 1..Len(gs) : ~(i <= n) => i - n \in 1..Len(fs) /\ gs[i] = fs[i - n]
      BY <2>4, <3>2, <3>3, <3>4
    <3>7. QED BY <3>4, <3>5, <3>6
  <2>6. \A i \in 1..Len(gs) : IsAnswer(gs[i]) => gs[i].of \in Live /\ gs[i].of \notin relay'
    BY <1>4, <1>7, <2>5
  <2>7. \A i, j \in 1..Len(gs) :
          IsAnswer(gs[i]) /\ IsAnswer(gs[j]) /\ gs[i].of = gs[j].of => i = j
    <3>1. SUFFICES ASSUME NEW i \in 1..Len(gs), NEW j \in 1..Len(gs), IsAnswer(gs[i]),
                          IsAnswer(gs[j]), gs[i].of = gs[j].of
                   PROVE  i = j
      OBVIOUS
    <3>2. /\ i - n \in 1..Len(fs) /\ gs[i] = fs[i - n]
          /\ j - n \in 1..Len(fs) /\ gs[j] = fs[j - n]
      BY <1>4, <2>5, <3>1
    <3>3. i - n = j - n
      BY <1>7, <3>1, <3>2
    <3>4. QED BY <2>5, <3>3
  <2>8. QED BY <1>2, <1>3, <1>7, <2>3, <2>6, <2>7, Answers1
<1>8. CASE wire' = (wire \o Copies(e)) \o Responses /\ relay' = {} /\ link # Local
  BY <1>3, <1>7, <1>8, ResponsesTyped
<1>9. CASE wire' = (wire \o Copies(e)) \o <<>> /\ link # Local
  <2>1. PICK fs \in Seq(Answers) : fs = <<>> /\ Len(fs) = 0
    BY EmptySeq
  <2>2. /\ \A i \in 1..Len(fs) : fs[i].of \in Live /\ fs[i].of \notin relay'
        /\ \A i, j \in 1..Len(fs) : i = j
    BY <2>1
  <2>3. QED BY <1>7, <1>9, <2>1, <2>2
<1>10. \/ wire' = wire
       \/ wire' = (wire \o Copies(e)) \o Responses /\ relay' = {} /\ link # Local
       \/ wire' = (wire \o Copies(e)) \o <<>> /\ link # Local
  BY <1>1, <1>4 DEF Emits
<1> QED BY <1>6, <1>8, <1>9, <1>10

LEMMA PromptRefused ==
  ASSUME PromptInv, Next, NEW t \in Turn, RelayFails(t)
  PROVE  Drained' /\ Awaited' /\ AnsweredOnce' /\ Linked'
<1>1. /\ t \in Live /\ relay' = relay \ {t} /\ wire' = Append(wire, Event("refused", t))
      /\ pc' = pc /\ chan' = chan /\ link' = link /\ opened' = opened
  BY DEF RelayFails
<1>2. PICK f \in Events \cup Answers : f = Event("refused", t) /\ f.of = t
  BY AnswerTyped
<1>3. PICK fs \in Seq(Events \cup Answers) : fs = <<f>> /\ Len(fs) = 1 /\ fs[1] = f
  <2>1. <<f>> \in Seq(Events \cup Answers)
    BY <1>2
  <2>2. QED BY <2>1
<1>4. wire' = wire \o fs
  BY <1>1, <1>2, <1>3, AppendIsConcat DEF PromptInv, TypeInv
<1>5. link # Local
  BY <1>1 DEF PromptInv, Drained, Live
<1>6. \A i \in 1..Len(fs) : fs[i].of \in Live /\ fs[i].of \notin relay'
  BY <1>1, <1>2, <1>3
<1>7. \A i, j \in 1..Len(fs) : i = j
  BY <1>3
<1> QED BY <1>1, <1>4, <1>5, <1>6, <1>7, Answers1

LEMMA PromptRead ==
  ASSUME PromptInv, Next, AxisRead
  PROVE  Drained' /\ Awaited' /\ AnsweredOnce' /\ Linked'
<1>1. /\ wire # <<>> /\ wire' = Tail(wire) /\ chan' = chan /\ link' = link /\ opened' = opened
      /\ relay' = relay
  BY DEF AxisRead
<1>2. /\ wire \in Seq(Events \cup Answers) /\ Len(wire) \in Nat \ {0} /\ wire[1] = Head(wire)
      /\ Len(wire') = Len(wire) - 1 /\ \A i \in 1..(Len(wire) - 1) : wire'[i] = wire[i + 1]
  BY <1>1, HeadTailProperties, LenProperties, EmptySeq DEF PromptInv, TypeInv
<1>3. Answered' \subseteq Answered
  BY <1>2 DEF Answered, IsAnswer
<1>4. IsAnswer(Head(wire)) => Head(wire).of \in Answered /\ Head(wire).of \notin Answered'
  <2>1. SUFFICES ASSUME IsAnswer(Head(wire))
                 PROVE  Head(wire).of \in Answered /\ Head(wire).of \notin Answered'
    OBVIOUS
  <2>2. Head(wire).of \in Answered
    BY <1>2, <2>1 DEF Answered
  <2>3. \A i \in 1..(Len(wire) - 1) : IsAnswer(wire[i + 1]) => wire[i + 1].of # wire[1].of
    BY <1>2, <2>1 DEF PromptInv, AnsweredOnce
  <2>4. QED BY <1>2, <2>2, <2>3 DEF Answered, IsAnswer
<1>5. \A t \in relay \cup Answered' : \/ pc'[t] = pc[t]
                                      \/ chan[t] # link /\ pc'[t] \in {"clear", "ended"}
  <2>1. Head(wire) \in Answers => IsAnswer(Head(wire))
    BY DEF Answers, IsAnswer
  <2>2. \A t \in relay \cup Answered' : ~(Head(wire) \in Answers /\ Head(wire).of = t)
    BY <1>4, <2>1 DEF PromptInv, Awaited
  <2>3. ASSUME NEW t \in relay \cup Answered'
        PROVE  pc'[t] = pc[t] \/ (chan[t] # link /\ pc'[t] \in {"clear", "ended"})
    <3>1. t \in relay \cup Answered
      BY <1>3
    <3>2. QED BY <2>2, <3>1, Waiting
  <2>4. QED BY <2>3
<1>6. Drained'
  BY <1>1, <1>5 DEF PromptInv, Drained
<1>7. Awaited'
  BY <1>1, <1>3, <1>5 DEF PromptInv, Awaited
<1>8. AnsweredOnce'
  <2>1. SUFFICES ASSUME NEW i \in 1..Len(wire'), NEW j \in 1..Len(wire'), IsAnswer(wire'[i]),
                        IsAnswer(wire'[j]), wire'[i].of = wire'[j].of
                 PROVE  i = j
    BY DEF AnsweredOnce, IsAnswer
  <2>2. i + 1 = j + 1
    BY <1>2, <2>1 DEF PromptInv, AnsweredOnce
  <2>3. QED BY <2>2
<1>9. Linked'
  BY <1>1 DEF PromptInv, Linked
<1> QED BY <1>6, <1>7, <1>8, <1>9

LEMMA PromptLink ==
  ASSUME PromptInv, Next, Connect \/ Disconnect
  PROVE  Drained' /\ Awaited' /\ AnsweredOnce' /\ Linked'
<1>1. pc' = pc /\ chan' = chan /\ relay' = relay
  BY DEF Connect, Disconnect
<1>2. wire' \in Seq(Events)
  BY EmptySeq DEF Connect, Disconnect, PromptInv, TypeInv
<1>3. \A i \in 1..Len(wire') : ~IsAnswer(wire'[i])
  <2>1. \A i \in 1..Len(wire') : wire'[i] \in Events
    BY <1>2, ElementOfSeq
  <2>2. QED BY <2>1 DEF IsAnswer, Events
<1>4. Awaited' /\ AnsweredOnce'
  BY <1>3 DEF Awaited, Answered, AnsweredOnce, IsAnswer
<1>5. link' \notin 1..opened /\ opened' \in Nat /\ opened' >= opened /\ opened \in Nat
      /\ (link' = Local => wire' = <<>>)
  BY DEF Connect, Disconnect, PromptInv, TypeInv, TypeOK
<1>6. Drained'
  BY <1>1, <1>5 DEF PromptInv, Drained
<1> QED BY <1>4, <1>5, <1>6 DEF Linked

LEMMA PromptStep ==
  PromptInv /\ [Next]_vars => PromptInv'
<1>1. ASSUME PromptInv, Next
      PROVE  Drained' /\ Awaited' /\ AnsweredOnce' /\ Linked'
  <2>1. \/ wire' = wire /\ relay' = relay /\ link' = link /\ opened' = opened
        \/ \E t \in Turn : Send(t) \/ RelayFails(t)
        \/ \E r \in Request : AgentText(r) \/ AgentAsk(r) \/ AgentEnds(r)
        \/ AxisRead \/ Connect \/ Disconnect
    BY <1>1, WireFrame, RelayFrame, LinkFrame
  <2>2. QED BY <1>1, <2>1, PromptsIdle, PromptSent, PromptEmits, PromptRefused, PromptRead, PromptLink
<1>2. ASSUME PromptInv, UNCHANGED vars
      PROVE  Drained' /\ Awaited' /\ AnsweredOnce' /\ Linked'
  BY <1>2 DEF vars, orbit, PromptInv, Drained, Awaited, Answered, AnsweredOnce, Linked, IsAnswer
<1> QED BY <1>1, <1>2, TypeStep DEF PromptInv

LEMMA PromptStart ==
  Init => PromptInv
BY TypeStart DEF Init, PromptInv, Drained, Awaited, Answered, AnsweredOnce, Linked

-----------------------------------------------------------------------------
(***************************************************************************)
(* Replies are stored before they are signalled.                           *)
(***************************************************************************)
HasRow(t) == \E i \in DOMAIN rows : rows[i].id = Reply(t) /\ rows[i].of = t
EndStored ==
  "io" \notin Happens =>
    \A t \in Turn : endedBy[t] # None => pc[t] \in Over /\ HasRow(t)
SignalLast ==
  "io" \notin Happens =>
    \A t \in signalled : /\ pc[t] \in {"clear", "ended"}
                         /\ endedBy[t] # None => Reply(t) \in view

(* A row stays in the log, the one just appended is there.                  *)
LEMMA RowStays ==
  ASSUME TypeInv, Next, NEW t \in Turn, HasRow(t), mid'[t] = mid[t]
  PROVE  HasRow(t)'
<1>1. rows \in Seq(Rows)
  BY DEF TypeInv, TypeOK, Rows
<1>2. CASE rows' = rows
  BY <1>2 DEF HasRow, Reply
<1>3. ASSUME NEW row \in Rows, rows' = Append(rows, row)
      PROVE  HasRow(t)'
  <2>1. PICK i \in DOMAIN rows : rows[i].id = Reply(t) /\ rows[i].of = t
    BY DEF HasRow
  <2>2. i \in DOMAIN rows' /\ rows'[i] = rows[i]
    BY <1>1, <1>3, <2>1, AppendProperties, LenProperties
  <2>3. QED BY <2>1, <2>2 DEF HasRow, Reply
<1> QED BY <1>2, <1>3, RowsGrow

LEMMA RowAdded ==
  ASSUME TypeInv, NEW t \in Turn, NEW role \in {"assistant", "system"},
         rows' = Append(rows, Row(Reply(t), role, t)), mid'[t] = mid[t]
  PROVE  HasRow(t)'
<1>1. rows \in Seq(Rows) /\ Reply(t) \in Nat /\ t \in Request
  BY DEF TypeInv, TypeOK, Rows, Reply, Request
<1>2. Row(Reply(t), role, t) \in Rows /\ Row(Reply(t), role, t).id = Reply(t)
      /\ Row(Reply(t), role, t).of = t
  BY <1>1, RowTyped
<1>3. Len(rows) + 1 \in DOMAIN rows' /\ rows'[Len(rows) + 1] = Row(Reply(t), role, t)
  BY <1>1, <1>2, AppendProperties, LenProperties
<1> QED BY <1>2, <1>3 DEF HasRow, Reply

(* A message stays in the view.                                            *)
LEMMA ViewGrows ==
  Next => view \subseteq view'
BY ViewFrame DEF PostApply, Signal, SteerStore

(* Only the answer to a prompt that waits puts a turn back to work.         *)
LEMMA PlaceAhead ==
  ASSUME PromptInv, Next, NEW t \in Turn, pc[t] \in Over
  PROVE  /\ pc'[t] \in Over /\ mid'[t] = mid[t]
         /\ pc[t] \in {"clear", "ended"} => pc'[t] \in {"clear", "ended"}
<1>1. TypeInv
  BY DEF PromptInv
<1>2. ~(AxisRead /\ Head(wire) \in Answers /\ Head(wire).of = t)
  <2>1. SUFFICES ASSUME AxisRead, Head(wire) \in Answers, Head(wire).of = t
                 PROVE  FALSE
    OBVIOUS
  <2>2. wire # <<>> /\ wire \in Seq(Events \cup Answers)
    BY <1>1, <2>1 DEF AxisRead, TypeInv
  <2>3. Len(wire) \in Nat \ {0} /\ wire[1] = Head(wire)
    BY <2>2, LenProperties, EmptySeq
  <2>4. t \in Answered
    BY <2>1, <2>3 DEF Answered, Answers, IsAnswer
  <2>5. QED BY <2>4 DEF PromptInv, Awaited, Over
<1>3. /\ pc'[t] \in Over
      /\ pc[t] \in {"clear", "ended"} => pc'[t] \in {"clear", "ended"}
  BY <1>1, <1>2, Moves, Steps DEF Over
<1>4. mid'[t] = mid[t]
  <2>1. \A u \in Turn : PostRead(u) => u # t /\ mid'[t] = mid[t]
    BY <1>1, Steps DEF PostRead, TypeInv, TypeOK, Over
  <2>2. QED BY <2>1, MidFrame
<1> QED BY <1>3, <1>4

LEMMA EndStoredStep ==
  ASSUME PromptInv, Next, EndStored
  PROVE  EndStored'
<1> SUFFICES ASSUME "io" \notin Happens, NEW t \in Turn, endedBy'[t] # None
             PROVE  pc'[t] \in Over /\ HasRow(t)'
  BY DEF EndStored
<1>1. TypeInv /\ endedBy \in [Turn -> Request \cup {None}]
  BY DEF PromptInv, TypeInv, TypeOK
<1>2. CASE endedBy[t] # None
  <2>1. pc[t] \in Over /\ HasRow(t)
    BY <1>2 DEF EndStored
  <2>2. QED BY <1>1, <2>1, PlaceAhead, RowStays
<1>3. CASE endedBy[t] = None
  <2>1. DrainEnd(t)
    <3>1. \A u \in Turn : DrainEnd(u) => u = t
      BY <1>1, <1>3 DEF DrainEnd
    <3>2. QED BY <1>3, <3>1, EndedFrame
  <2>2. /\ mid' = mid
        /\ \E role \in {"assistant", "system"} :
             Goes(t, "drain", "reply") /\ rows' = Append(rows, Row(Reply(t), role, t))
    BY <2>1 DEF DrainEnd, Stores
  <2>3. pc'[t] = "reply"
    BY <1>1, <2>2 DEF Goes, TypeInv, TypeOK
  <2>4. QED BY <1>1, <2>2, <2>3, RowAdded DEF Over
<1> QED BY <1>2, <1>3

LEMMA SignalLastStep ==
  ASSUME PromptInv, Next, EndStored, SignalLast
  PROVE  SignalLast'
<1> SUFFICES ASSUME "io" \notin Happens, NEW t \in signalled'
             PROVE  /\ pc'[t] \in {"clear", "ended"}
                    /\ endedBy'[t] # None => Reply(t)' \in view'
  BY DEF SignalLast
<1>1. /\ TypeInv /\ endedBy \in [Turn -> Request \cup {None}] /\ signalled \subseteq Turn
      /\ pc \in [Turn -> Places] /\ t \in Turn
  BY HeardTyped DEF PromptInv, TypeInv, TypeOK
<1>2. CASE t \in signalled
  <2>1. pc[t] \in {"clear", "ended"} /\ (endedBy[t] # None => Reply(t) \in view)
    BY <1>2 DEF SignalLast
  <2>2. pc'[t] \in {"clear", "ended"} /\ mid'[t] = mid[t]
    BY <1>1, <2>1, PlaceAhead DEF Over
  <2>3. endedBy'[t] = endedBy[t]
    <3>1. \A u \in Turn : DrainEnd(u) => u # t /\ endedBy'[t] = endedBy[t]
      BY <1>1, <2>1, Steps DEF DrainEnd
    <3>2. QED BY <3>1, EndedFrame
  <2>4. QED BY <2>1, <2>2, <2>3, ViewGrows DEF Reply
<1>3. CASE t \notin signalled
  <2>1. StartFailed(t) \/ SendFails(t) \/ DrainEnd(t) \/ Signal(t)
    <3>1. \A u \in Turn : StartFailed(u) \/ SendFails(u) \/ DrainEnd(u) \/ Signal(u) => 
                            signalled' \subseteq signalled \cup {u}
      BY DEF StartFailed, SendFails, DrainEnd, Stores, Signal
    <3>2. QED BY <1>3, <3>1, SignalledFrame
  <2>2. CASE StartFailed(t) \/ DrainEnd(t)
    <3>1. signalled' = signalled
      BY <2>2 DEF StartFailed, DrainEnd, Stores
    <3>2. QED BY <1>3, <3>1
  <2>3. CASE SendFails(t)
    <3>1. endedBy[t] = None
      BY <1>1, <2>3, Steps DEF EndStored, Over
    <3>2. endedBy' = endedBy /\ pc'[t] = "clear"
      BY <1>1, <2>3, Steps DEF SendFails, drain
    <3>3. QED BY <3>1, <3>2
  <2>4. CASE Signal(t)
    <3>1. pc'[t] = "clear" /\ view' = view \cup {Reply(t)} /\ mid' = mid
      BY <1>1, <2>4, Steps DEF Signal
    <3>2. QED BY <3>1 DEF Reply
  <2>5. QED BY <2>1, <2>2, <2>3, <2>4
<1> QED BY <1>2, <1>3

StoredInv == PromptInv /\ EndStored /\ SignalLast

LEMMA StoredStep ==
  StoredInv /\ [Next]_vars => StoredInv'
<1>1. ASSUME StoredInv, Next
      PROVE  EndStored' /\ SignalLast'
  BY <1>1, EndStoredStep, SignalLastStep DEF StoredInv
<1>2. ASSUME StoredInv, UNCHANGED vars
      PROVE  EndStored' /\ SignalLast'
  BY <1>2 DEF vars, store, drain, StoredInv, EndStored, SignalLast, HasRow, Reply
<1> QED BY <1>1, <1>2, PromptStep DEF StoredInv

(* A turn that ended on its agent's event is signalled after its row is in
   the log and in the views, unless the log refuses an append: the client
   that refetches on message.done finds the reply. It rests on an answer
   reaching a turn only while it waits for one. *)
THEOREM StoredIsFirst == Spec => []StoredFirst
<1>1. Init => StoredInv
  BY PromptStart DEF Init, StoredInv, EndStored, SignalLast
<1>2. StoredInv => StoredFirst
  <2>1. StoredInv => signalled \subseteq Turn
    BY DEF StoredInv, PromptInv, TypeInv, TypeOK
  <2>2. QED BY <2>1 DEF StoredInv, EndStored, SignalLast, StoredFirst, HasRow
<1>3. QED BY <1>1, <1>2, StoredStep, PTL DEF Spec


-----------------------------------------------------------------------------
(***************************************************************************)
(* Replies are whole.  While turns do not cross, at most one of them       *)
(* reads, and every event on the way is its own or a steer's.  What the    *)
(* drain could get wrong is whose done it takes for what: a steer's is     *)
(* told from the turn's by steer_pending alone.  The invariant therefore   *)
(* counts: the steers that owe a done, or whose done is still to be read,  *)
(* are at most steerPending, and one more once the turn's own done was     *)
(* taken for an acknowledgement.                                           *)
(***************************************************************************)
Before == Posting \cup {"start", "ensure", "failed"}
Reading(t) == pc[t] \in {"send", "wait", "refused", "drain"}
Active(t) == pc[t] \notin {"idle", "ended"}

Ends(e, r) == e.kind \in {"done", "error"} /\ e.of = r
EndIn(q, r) == \E i \in 1..Len(q) : Ends(q[i], r)
EndsOnce(q, r) == \A i, j \in 1..Len(q) : Ends(q[i], r) /\ Ends(q[j], r) => i = j
Only(q, t) == \A i \in 1..Len(q) : q[i].of = t

(* A turn on an Orbit hears itself, one of the process steers as well.     *)
Fits(e, t, c) == e.of = t \/ (e.of \in Steer /\ e.kind # "text" /\ c = Local)
AllFit(q, t, c) == \A i \in 1..Len(q) : Fits(q[i], t, c)

(* The turn's own end is still to come, or to be read.                     *)
OnWire(t) == chan[t] = link /\ EndIn(wire, t)
Own(t) == pc[t] = "send" \/ t \in working \/ EndIn(queue[t], t) \/ OnWire(t)

(* The steers that are marked or at work, and those whose end is unread.   *)
Open == {s \in Steer : steer[s] = "marked" \/ s \in working}
Left == {s \in Steer : \E t \in Turn : Reading(t) /\ EndIn(queue[t], s)}
Due == Open \cup Left
Spare == \E t \in Turn : pc[t] = "drain" /\ ~Own(t)

Based ==
  /\ relay \subseteq working
  /\ \A s \in Steer : s \in working => steer[s] \in {"sent", "ended"}
  /\ \A t \in Turn : pc[t] \in Before => queue[t] = <<>> /\ heard[t] = {}
  /\ \A t \in Turn : pc[t] = "ensure" \/ Reading(t) => chan[t] \in 0..opened

Alone == \A t, u \in Turn : Active(t) /\ Active(u) => t = u

Clean(t) ==
  /\ working \cap Turn \subseteq {t} /\ (pc[t] = "send" => t \notin working)
  /\ Only(wire, t) /\ Only(backlog, t)
  /\ AllFit(queue[t], t, chan[t]) /\ heard[t] \subseteq {t}

Once(t) ==
  /\ \A r \in Request : EndsOnce(queue[t], r)
  /\ chan[t] = link => EndsOnce(wire, t) /\ ~(EndIn(queue[t], t) /\ EndIn(wire, t))
  /\ t \in working \/ pc[t] = "send" => ~EndIn(queue[t], t) /\ ~OnWire(t)
  /\ \A s \in Steer : EndIn(queue[t], s) => s \notin working /\ steer[s] \in {"sent", "ended"}

Counted ==
  /\ IsFiniteSet(Due)
  /\ \/ Cardinality(Due) <= steerPending
     \/ Spare /\ Cardinality(Due) <= steerPending + 1

Replied ==
  \A i \in 1..Len(rows) : rows[i].role = "assistant" =>
    /\ rows[i].of \in Turn /\ pc[rows[i].of] \in Over
    /\ rows[i].of \notin working /\ heard[rows[i].of] \subseteq {rows[i].of}

Whole == Alone /\ (\A t \in Turn : Reading(t) => Clean(t) /\ Once(t)) /\ Counted /\ Replied
CutInv == PromptInv /\ Based /\ (~crossed => Whole)

(* The ends in a sequence that loses its head or grows.                    *)
LEMMA EndsOfTail ==
  ASSUME NEW S, NEW q \in Seq(S), q # <<>>, NEW r
  PROVE  /\ EndIn(q, r) <=> Ends(Head(q), r) \/ EndIn(Tail(q), r)
         /\ EndsOnce(q, r) => EndsOnce(Tail(q), r)
         /\ EndsOnce(q, r) /\ Ends(Head(q), r) => ~EndIn(Tail(q), r)
         /\ \A t : Only(q, t) => Head(q).of = t /\ Only(Tail(q), t)
         /\ \A t, c : AllFit(q, t, c) => Fits(Head(q), t, c) /\ AllFit(Tail(q), t, c)
<1>1. /\ Len(q) \in Nat \ {0} /\ Head(q) = q[1] /\ Tail(q) \in Seq(S)
      /\ Len(Tail(q)) = Len(q) - 1
      /\ \A i \in 1..(Len(q) - 1) : Tail(q)[i] = q[i + 1]
  BY HeadTailProperties, LenProperties, EmptySeq
<1>2. \A i \in 1..Len(Tail(q)) : i + 1 \in 1..Len(q) /\ Tail(q)[i] = q[i + 1]
  BY <1>1
<1>3. \A i \in 1..Len(q) : i = 1 \/ (i - 1 \in 1..Len(Tail(q)) /\ q[i] = Tail(q)[i - 1])
  BY <1>1
<1>4. 1 \in 1..Len(q)
  BY <1>1
<1>5. EndIn(q, r) <=> Ends(Head(q), r) \/ EndIn(Tail(q), r)
  <2>1. EndIn(q, r) => Ends(Head(q), r) \/ EndIn(Tail(q), r)
    BY <1>1, <1>3 DEF EndIn
  <2>2. Ends(Head(q), r) \/ EndIn(Tail(q), r) => EndIn(q, r)
    BY <1>1, <1>2, <1>4 DEF EndIn
  <2>3. QED BY <2>1, <2>2
<1>6. EndsOnce(q, r) => EndsOnce(Tail(q), r)
  <2>1. SUFFICES ASSUME EndsOnce(q, r), NEW i \in 1..Len(Tail(q)), NEW j \in 1..Len(Tail(q)),
                        Ends(Tail(q)[i], r), Ends(Tail(q)[j], r)
                 PROVE  i = j
    BY DEF EndsOnce
  <2>2. i + 1 = j + 1
    BY <1>2, <2>1 DEF EndsOnce
  <2>3. QED BY <2>2
<1>7. EndsOnce(q, r) /\ Ends(Head(q), r) => ~EndIn(Tail(q), r)
  <2>1. SUFFICES ASSUME EndsOnce(q, r), Ends(Head(q), r), NEW i \in 1..Len(Tail(q)),
                        Ends(Tail(q)[i], r)
                 PROVE  FALSE
    BY DEF EndIn
  <2>2. i + 1 = 1
    BY <1>1, <1>2, <1>4, <2>1 DEF EndsOnce
  <2>3. QED BY <2>2
<1>8. \A t : Only(q, t) => Head(q).of = t /\ Only(Tail(q), t)
  BY <1>1, <1>2, <1>4 DEF Only
<1>9. \A t, c : AllFit(q, t, c) => Fits(Head(q), t, c) /\ AllFit(Tail(q), t, c)
  BY <1>1, <1>2, <1>4 DEF AllFit
<1> QED BY <1>5, <1>6, <1>7, <1>8, <1>9

LEMMA EndsOfConcat ==
  ASSUME NEW S, NEW q \in Seq(S), NEW g \in Seq(S), NEW r
  PROVE  /\ EndIn(q \o g, r) <=> EndIn(q, r) \/ EndIn(g, r)
         /\ EndsOnce(q, r) /\ EndsOnce(g, r) /\ ~(EndIn(q, r) /\ EndIn(g, r)) => EndsOnce(q \o g, r)
         /\ \A t : Only(q, t) /\ Only(g, t) => Only(q \o g, t)
         /\ \A t, c : AllFit(q, t, c) /\ AllFit(g, t, c) => AllFit(q \o g, t, c)
<1>1. /\ Len(q) \in Nat /\ Len(g) \in Nat /\ Len(q \o g) = Len(q) + Len(g)
      /\ \A i \in 1..(Len(q) + Len(g)) :
           (q \o g)[i] = IF i <= Len(q) THEN q[i] ELSE g[i - Len(q)]
  BY ConcatProperties, LenProperties
<1>2. \A i \in 1..Len(q) : i \in 1..Len(q \o g) /\ (q \o g)[i] = q[i]
  BY <1>1
<1>3. \A i \in 1..Len(g) : Len(q) + i \in 1..Len(q \o g) /\ (q \o g)[Len(q) + i] = g[i]
  <2>1. SUFFICES ASSUME NEW i \in 1..Len(g)
                 PROVE  Len(q) + i \in 1..Len(q \o g) /\ (q \o g)[Len(q) + i] = g[i]
    OBVIOUS
  <2>2. Len(q) + i \in 1..(Len(q) + Len(g)) /\ ~(Len(q) + i <= Len(q)) /\ (Len(q) + i) - Len(q) = i
    BY <1>1
  <2>3. QED BY <1>1, <2>2
<1>4. \A i \in 1..Len(q \o g) :
        \/ i \in 1..Len(q) /\ (q \o g)[i] = q[i]
        \/ i - Len(q) \in 1..Len(g) /\ (q \o g)[i] = g[i - Len(q)]
  BY <1>1
<1>5. EndIn(q \o g, r) <=> EndIn(q, r) \/ EndIn(g, r)
  <2>1. EndIn(q \o g, r) => EndIn(q, r) \/ EndIn(g, r)
    BY <1>4 DEF EndIn
  <2>2. EndIn(q, r) \/ EndIn(g, r) => EndIn(q \o g, r)
    BY <1>2, <1>3 DEF EndIn
  <2>3. QED BY <2>1, <2>2
<1>6. EndsOnce(q, r) /\ EndsOnce(g, r) /\ ~(EndIn(q, r) /\ EndIn(g, r)) => EndsOnce(q \o g, r)
  <2>1. SUFFICES ASSUME EndsOnce(q, r), EndsOnce(g, r), ~(EndIn(q, r) /\ EndIn(g, r)),
                        NEW i \in 1..Len(q \o g), NEW j \in 1..Len(q \o g),
                        Ends((q \o g)[i], r), Ends((q \o g)[j], r)
                 PROVE  i = j
    BY DEF EndsOnce
  <2>2. CASE i \in 1..Len(q) /\ (q \o g)[i] = q[i] /\ j \in 1..Len(q) /\ (q \o g)[j] = q[j]
    BY <2>1, <2>2 DEF EndsOnce
  <2>3. CASE /\ i - Len(q) \in 1..Len(g) /\ (q \o g)[i] = g[i - Len(q)]
             /\ j - Len(q) \in 1..Len(g) /\ (q \o g)[j] = g[j - Len(q)]
    <3>1. i - Len(q) = j - Len(q)
      BY <2>1, <2>3 DEF EndsOnce
    <3>2. QED BY <1>1, <3>1
  <2>4. CASE i \in 1..Len(q) /\ (q \o g)[i] = q[i] /\ j - Len(q) \in 1..Len(g) /\ (q \o g)[j] = g[j - Len(q)]
    BY <2>1, <2>4 DEF EndIn
  <2>5. CASE j \in 1..Len(q) /\ (q \o g)[j] = q[j] /\ i - Len(q) \in 1..Len(g) /\ (q \o g)[i] = g[i - Len(q)]
    BY <2>1, <2>5 DEF EndIn
  <2>6. QED BY <1>4, <2>1, <2>2, <2>3, <2>4, <2>5
<1>7. \A t : Only(q, t) /\ Only(g, t) => Only(q \o g, t)
  BY <1>4 DEF Only
<1>8. \A t, c : AllFit(q, t, c) /\ AllFit(g, t, c) => AllFit(q \o g, t, c)
  BY <1>4 DEF AllFit
<1> QED BY <1>5, <1>6, <1>7, <1>8

LEMMA EndsOfOne ==
  ASSUME NEW S, NEW e \in S, NEW r
  PROVE  /\ <<e>> \in Seq(S)
         /\ EndIn(<<e>>, r) <=> Ends(e, r)
         /\ EndsOnce(<<e>>, r)
         /\ \A t : Only(<<e>>, t) <=> e.of = t
         /\ \A t, c : AllFit(<<e>>, t, c) <=> Fits(e, t, c)
<1>1. <<e>> \in Seq(S) /\ Len(<<e>>) = 1 /\ <<e>>[1] = e /\ \A i \in 1..Len(<<e>>) : i = 1
  OBVIOUS
<1>2. 1 \in 1..Len(<<e>>)
  BY <1>1
<1> QED BY <1>1, <1>2 DEF EndIn, EndsOnce, Only, AllFit

LEMMA EndsOfNone ==
  ASSUME NEW r
  PROVE  /\ ~EndIn(<<>>, r) /\ EndsOnce(<<>>, r)
         /\ \A t : Only(<<>>, t)
         /\ \A t, c : AllFit(<<>>, t, c)
<1>1. \A i \in 1..Len(<<>>) : FALSE
  OBVIOUS
<1> QED BY <1>1 DEF EndIn, EndsOnce, Only, AllFit

(* What a subscriber receives.                                             *)
LEMMA EndsReceived ==
  ASSUME NEW q \in Seq(Events), NEW e \in Events, NEW r
  PROVE  /\ EndIn(Received(q, e), r) => EndIn(q, r) \/ Ends(e, r)
         /\ EndsOnce(q, r) /\ ~(EndIn(q, r) /\ Ends(e, r)) => EndsOnce(Received(q, e), r)
         /\ \A t, c : AllFit(q, t, c) /\ Fits(e, t, c) => AllFit(Received(q, e), t, c)
<1>1. ASSUME NEW p \in Seq(Events)
      PROVE  /\ EndIn(Append(p, e), r) => EndIn(p, r) \/ Ends(e, r)
             /\ EndsOnce(p, r) /\ ~(EndIn(p, r) /\ Ends(e, r)) => EndsOnce(Append(p, e), r)
             /\ \A t, c : AllFit(p, t, c) /\ Fits(e, t, c) => AllFit(Append(p, e), t, c)
  <2>1. Append(p, e) = p \o <<e>>
    BY AppendIsConcat
  <2>2. /\ <<e>> \in Seq(Events)
        /\ EndIn(<<e>>, r) <=> Ends(e, r)
        /\ EndsOnce(<<e>>, r)
        /\ \A t, c : AllFit(<<e>>, t, c) <=> Fits(e, t, c)
    BY EndsOfOne
  <2>3. /\ EndIn(p \o <<e>>, r) <=> EndIn(p, r) \/ EndIn(<<e>>, r)
        /\ EndsOnce(p, r) /\ EndsOnce(<<e>>, r) /\ ~(EndIn(p, r) /\ EndIn(<<e>>, r)) => EndsOnce(p \o <<e>>, r)
        /\ \A t, c : AllFit(p, t, c) /\ AllFit(<<e>>, t, c) => AllFit(p \o <<e>>, t, c)
    BY <2>2, EndsOfConcat
  <2>4. QED BY <2>1, <2>2, <2>3
<1>2. CASE Len(q) < Cap
  <2>1. Received(q, e) = Append(q, e)
    BY <1>2 DEF Received
  <2>2. QED BY <1>1, <2>1
<1>3. CASE ~(Len(q) < Cap)
  <2>1. Received(q, e) = Append(Tail(q), e)
    BY <1>3 DEF Received
  <2>2. q # <<>>
    BY <1>3, EmptySeq
  <2>3. Tail(q) \in Seq(Events)
    BY <2>2, HeadTailProperties
  <2>4. /\ EndIn(Tail(q), r) => EndIn(q, r)
        /\ EndsOnce(q, r) => EndsOnce(Tail(q), r)
        /\ \A t, c : AllFit(q, t, c) => AllFit(Tail(q), t, c)
    BY <2>2, EndsOfTail
  <2>5. PICK p \in Seq(Events) : p = Tail(q)
    BY <2>3
  <2>6. /\ EndIn(Append(p, e), r) => EndIn(p, r) \/ Ends(e, r)
        /\ EndsOnce(p, r) /\ ~(EndIn(p, r) /\ Ends(e, r)) => EndsOnce(Append(p, e), r)
        /\ \A t, c : AllFit(p, t, c) /\ Fits(e, t, c) => AllFit(Append(p, e), t, c)
    BY <1>1
  <2>7. Received(q, e) = Append(p, e)
    BY <2>1, <2>5
  <2>8. /\ EndIn(p, r) => EndIn(q, r)
        /\ EndsOnce(q, r) => EndsOnce(p, r)
        /\ \A t, c : AllFit(q, t, c) => AllFit(p, t, c)
    BY <2>4, <2>5
  <2>9. QED BY <2>6, <2>7, <2>8
<1> QED BY <1>2, <1>3

(* An answer is read by the turn that waits for it.                        *)
LEMMA AnswerAwaited ==
  ASSUME PromptInv, NEW t \in Turn, wire # <<>>, Head(wire) \in Answers, Head(wire).of = t
  PROVE  pc[t] = "wait" /\ chan[t] = link
<1>1. wire \in Seq(Events \cup Answers)
  BY DEF PromptInv, TypeInv
<1>2. Len(wire) \in Nat \ {0} /\ wire[1] = Head(wire)
  BY <1>1, LenProperties, EmptySeq
<1>3. t \in Answered
  BY <1>2 DEF Answered, Answers, IsAnswer
<1> QED BY <1>3 DEF PromptInv, Awaited

LEMMA Ahead ==
  ASSUME PromptInv, Next, NEW t \in Turn
  PROVE  /\ pc[t] = "ended" => pc'[t] = "ended"
         /\ pc[t] = "idle" => pc'[t] = "idle" \/ PostRead(t)
         /\ pc'[t] \in {"send", "wait", "refused", "drain"} => Reading(t) \/ Ensured(t)
         /\ pc'[t] = "ensure" => pc[t] = "ensure" \/ Route(t)
         /\ pc'[t] \in Before => pc[t] \in Before
         /\ pc[t] = "drain" => pc'[t] = "drain" \/ DrainEnd(t)
         /\ pc'[t] = "send" => pc[t] = "send" \/ Ensured(t)
<1>1. TypeInv
  BY DEF PromptInv
<1>2. AxisRead /\ Head(wire) \in Answers /\ Head(wire).of = t => pc[t] = "wait"
  BY AnswerAwaited DEF AxisRead
<1>3. \/ pc'[t] = pc[t]
      \/ PostRead(t) \/ PostAppend(t) \/ PostApply(t) \/ PostMark(t)
      \/ Route(t) \/ Ensured(t) \/ EnsureFails(t) \/ StartFailed(t)
      \/ Send(t) \/ SendFails(t) \/ DrainEnd(t) \/ Signal(t) \/ Clear(t)
      \/ pc[t] = "wait" /\ pc'[t] \in {"drain", "refused"}
  BY <1>1, <1>2, Moves
<1> QED BY <1>1, <1>3, Steps DEF Before, Posting, Reading

(* A turn's task runs between its start and its end.                       *)
LEMMA TaskActive ==
  ASSUME TypeInv, NEW t \in Turn, Task(t)
  PROVE  Active(t)
BY DEF Task, PostAppend, PostApply, PostMark, Route, Ensured, EnsureFails, StartFailed,
   Stores, Send, SendFails, DrainText, DrainAsk, DrainSteerAck, DrainEnd, Drains, Signal,
   Clear, Goes, Active

(* Only a subscriber's queue and text change.                              *)
LEMMA QueueSource ==
  ASSUME PromptInv, Next, NEW t \in Turn
  PROVE  \/ queue'[t] = queue[t]
         \/ /\ DrainText(t) \/ DrainAsk(t) \/ DrainSteerAck(t) \/ DrainEnd(t)
            /\ pc[t] = "drain" /\ queue[t] # <<>> /\ queue'[t] = Tail(queue[t])
         \/ /\ \E r \in Request : AgentText(r) \/ AgentAsk(r) \/ AgentEnds(r)
            /\ chan[t] = Local /\ pc[t] \in {"send", "wait", "drain"}
         \/ /\ AxisRead /\ Head(wire) \in Events
            /\ chan[t] = link /\ pc[t] \in {"send", "wait", "drain"}
            /\ queue'[t] = Received(queue[t], Head(wire))
<1>1. TypeInv /\ queue \in [Turn -> Seq(Events)]
  BY DEF PromptInv, TypeInv
<1>2. ASSUME NEW u \in Turn, DrainText(u) \/ DrainAsk(u) \/ DrainSteerAck(u) \/ DrainEnd(u)
      PROVE  \/ queue'[t] = queue[t]
             \/ u = t /\ pc[t] = "drain" /\ queue[t] # <<>> /\ queue'[t] = Tail(queue[t])
  BY <1>1, <1>2 DEF DrainText, DrainAsk, DrainSteerAck, DrainEnd, Drains, Consumes
<1>3. ASSUME NEW r \in Request, AgentText(r) \/ AgentAsk(r) \/ AgentEnds(r)
      PROVE  queue'[t] = queue[t] \/ (chan[t] = Local /\ pc[t] \in {"send", "wait", "drain"})
  <2>1. PICK kind \in {"text", "ack", "ask", "done", "error"} : Emits(r, kind)
    BY <1>3, AgentEmits
  <2>2. queue' = queue \/ queue' = Broadcast(Local, Event(kind, r))
    BY <1>1, <2>1, EmitsTyped
  <2>3. QED BY <2>2 DEF Broadcast
<1>4. CASE AxisRead
  <2>1. queue' = queue \/ (Head(wire) \in Events /\ queue' = Broadcast(link, Head(wire)))
    BY <1>1, <1>4, FrameKinds DEF AxisRead
  <2>2. QED BY <1>4, <2>1 DEF Broadcast
<1> QED BY <1>2, <1>3, <1>4, QueueFrame

LEMMA HeardSource ==
  ASSUME PromptInv, Next, NEW t \in Turn
  PROVE  \/ heard'[t] = heard[t]
         \/ /\ DrainText(t) /\ queue[t] # <<>> /\ pc[t] = "drain"
            /\ Head(queue[t]).kind = "text" /\ heard'[t] = heard[t] \cup {Head(queue[t]).of}
<1>1. heard \in [Turn -> SUBSET Request]
  BY DEF PromptInv, TypeInv, TypeOK
<1>2. ASSUME NEW u \in Turn, DrainText(u)
      PROVE  \/ heard'[t] = heard[t]
             \/ /\ u = t /\ queue[t] # <<>> /\ pc[t] = "drain"
                /\ Head(queue[t]).kind = "text" /\ heard'[t] = heard[t] \cup {Head(queue[t]).of}
  <2>1. pc[u] = "drain" /\ queue[u] # <<>> /\ Head(queue[u]).kind \in {"text", "ack"}
    BY <1>2 DEF DrainText, Drains
  <2>2. \/ heard' = heard
        \/ /\ Head(queue[u]).kind # "ack"
           /\ heard' = [heard EXCEPT ![u] = heard[u] \cup {Head(queue[u]).of}]
    BY <1>2 DEF DrainText
  <2>3. QED BY <1>1, <2>1, <2>2
<1>3. \A u \in Turn : DrainSteerAck(u) => heard' = heard
  BY DEF DrainSteerAck
<1> QED BY <1>2, <1>3, HeardFrame

(* Steers go ahead, and only a marked one is set to work.                  *)
LEMMA SteersAhead ==
  ASSUME TypeInv, Next, NEW s \in Steer
  PROVE  /\ steer[s] \in {"sent", "ended"} =>
              steer'[s] \in {"sent", "ended"} /\ (s \in working' => s \in working)
         /\ s \in working' => s \in working \/ (steer[s] = "marked" /\ steer'[s] = "sent")
         /\ steer'[s] = "marked" => steer[s] = "marked" \/ SteerMark(s)
<1>1. steer \in [Steer -> {"idle", "gated", "marked", "sent", "ended"}] /\ s \notin Turn
  BY DEF TypeInv, TypeOK
<1>2. ASSUME NEW p \in Steer, SteerGate(p) \/ SteerMark(p) \/ SteerSend(p) \/ SteerStore(p)
      PROVE  /\ steer[s] \in {"sent", "ended"} => steer'[s] \in {"sent", "ended"}
             /\ steer'[s] = "marked" => steer[s] = "marked" \/ SteerMark(s)
  BY <1>1, <1>2 DEF SteerGate, SteerMark, SteerSend, SteerStore, SteerGoes
<1>3. /\ steer[s] \in {"sent", "ended"} => steer'[s] \in {"sent", "ended"}
      /\ steer'[s] = "marked" => steer[s] = "marked" \/ SteerMark(s)
  BY <1>2, SteerFrame
<1>4. s \in working' => s \in working \/ (steer[s] = "marked" /\ steer'[s] = "sent")
  <2>1. ASSUME NEW p \in Steer, SteerSend(p)
        PROVE  s \in working' => s \in working \/ (steer[s] = "marked" /\ steer'[s] = "sent")
    BY <1>1, <2>1 DEF SteerSend, SteerGoes
  <2>2. ASSUME NEW u \in Turn, Send(u)
        PROVE  s \in working' => s \in working
    BY <1>1, <2>2 DEF Send
  <2>3. ASSUME NEW r \in Request, AgentEnds(r)
        PROVE  s \in working' => s \in working
    BY <2>3 DEF AgentEnds
  <2>4. QED BY <2>1, <2>2, <2>3, WorkingFrame
<1> QED BY <1>3, <1>4

(* A prompt is set to work when it is sent.                                *)
LEMMA PromptWorks ==
  ASSUME TypeInv, Next, NEW t \in Turn, t \in working', t \notin working
  PROVE  Send(t) /\ pc[t] = "send" /\ pc'[t] \in {"wait", "drain"}
<1>1. \A u \in Turn : Send(u) => u = t
  BY DEF Send
<1>2. \A s \in Steer : ~SteerSend(s)
  BY DEF SteerSend
<1>3. \A r \in Request : ~AgentEnds(r)
  BY DEF AgentEnds
<1>4. Send(t)
  BY <1>1, <1>2, <1>3, WorkingFrame
<1> QED BY <1>4, Steps

(* A connected turn's channel stays.                                       *)
LEMMA ChannelStays ==
  ASSUME TypeInv, Next, NEW t \in Turn, pc[t] # "start"
  PROVE  chan'[t] = chan[t]
<1>1. \A u \in Turn : Route(u) => (u # t /\ chan' = [chan EXCEPT ![u] = link]) \/ chan' = chan
  BY Steps DEF Route
<1> QED BY <1>1, ChannelFrame DEF TypeInv, TypeOK

(* A turn that runs through an Orbit hands its end to the wire or to the
   backlog, and its drains end with it.                                    *)
LEMMA EmitsWhere ==
  ASSUME PromptInv, NEW r \in Request, NEW kind \in {"text", "ack", "ask", "done", "error"},
         Emits(r, kind)
  PROVE  \/ /\ ~OnOrbit(r) /\ queue' = Broadcast(Local, Event(kind, r))
            /\ wire' = wire /\ backlog' = backlog /\ relay' = relay
         \/ /\ OnOrbit(r) /\ queue' = queue
            /\ \/ link = Local /\ backlog' = backlog \o Copies(Event(kind, r)) /\ wire' = wire
               \/ /\ link # Local /\ backlog' = backlog
                  /\ wire' = (wire \o Copies(Event(kind, r))) \o <<>>
               \/ /\ link # Local /\ backlog' = backlog
                  /\ wire' = (wire \o Copies(Event(kind, r))) \o Responses
            /\ relay' \subseteq relay /\ (kind \in {"done", "error"} => relay' = {})
<1>1. IsTerminal(Event(kind, r)) <=> kind \in {"done", "error"}
  BY DEF IsTerminal, Event
<1>2. CASE ~OnOrbit(r)
  BY <1>2 DEF Emits
<1>3. CASE OnOrbit(r)
  <2>1. queue' = queue
    BY <1>3 DEF Emits
  <2>2. relay' \subseteq relay /\ (kind \in {"done", "error"} => relay' = {})
    BY <1>1, <1>3 DEF Emits, Live
  <2>3. \/ link = Local /\ backlog' = backlog \o Copies(Event(kind, r)) /\ wire' = wire
        \/ /\ link # Local /\ backlog' = backlog
           /\ wire' = (wire \o Copies(Event(kind, r))) \o <<>>
        \/ /\ link # Local /\ backlog' = backlog
           /\ wire' = (wire \o Copies(Event(kind, r))) \o Responses
    BY <1>3 DEF Emits
  <2>4. QED BY <1>3, <2>1, <2>2, <2>3
<1> QED BY <1>2, <1>3

(* The steers' ends that are still owed: a step adds at most a marked one. *)
LEMMA OpenGrows ==
  ASSUME TypeInv, Next, NEW s \in Steer, steer'[s] = "marked" \/ s \in working'
  PROVE  s \in Open \/ (SteerMark(s) /\ steer'[s] = "marked")
BY SteersAhead DEF Open

LEMMA LeftGrows ==
  ASSUME PromptInv, Based, Next, NEW s \in Steer, NEW t \in Turn,
         pc'[t] \in {"send", "wait", "refused", "drain"}, EndIn(queue'[t], s)
  PROVE  \/ s \in Due
         \/ AxisRead /\ wire # <<>> /\ Head(wire) \in Events /\ Reading(t) /\ Ends(Head(wire), s)
<1>1. TypeInv /\ queue \in [Turn -> Seq(Events)] /\ queue[t] \in Seq(Events)
  BY DEF PromptInv, TypeInv
<1>2. CASE Ensured(t)
  <2>1. queue' = queue /\ pc[t] \in Before
    BY <1>1, <1>2, Steps DEF Ensured, drain, Before
  <2>2. QED BY <2>1, EndsOfNone DEF Based
<1>3. CASE Reading(t)
  <2>1. EndIn(queue[t], s) => s \in Due
    BY <1>3 DEF Due, Left
  <2>2. CASE queue'[t] = queue[t]
    BY <2>1, <2>2
  <2>3. CASE queue[t] # <<>> /\ queue'[t] = Tail(queue[t])
    <3>1. EndIn(queue[t], s)
      BY <1>1, <2>3, EndsOfTail
    <3>2. QED BY <2>1, <3>1
  <2>4. ASSUME NEW r \in Request, AgentText(r) \/ AgentAsk(r) \/ AgentEnds(r)
        PROVE  s \in Due
    <3>1. PICK kind \in {"text", "ack", "ask", "done", "error"} :
            Emits(r, kind) /\ r \in working
      BY <2>4 DEF AgentText, AgentAsk, AgentEnds
    <3>2. Event(kind, r) \in Events /\ Event(kind, r).of = r
      BY EventTyped
    <3>3. queue' = queue \/ queue' = Broadcast(Local, Event(kind, r))
      BY <1>1, <3>1, EmitsTyped
    <3>4. queue'[t] = queue[t] \/ queue'[t] = Received(queue[t], Event(kind, r))
      BY <3>3 DEF Broadcast
    <3>5. EndIn(queue[t], s) \/ Ends(Event(kind, r), s)
      BY <1>1, <3>2, <3>4, EndsReceived
    <3>6. Ends(Event(kind, r), s) => s \in Open
      BY <3>1, <3>2 DEF Ends, Open
    <3>7. QED BY <2>1, <3>5, <3>6 DEF Due
  <2>5. CASE AxisRead /\ Head(wire) \in Events /\ queue'[t] = Received(queue[t], Head(wire))
    <3>1. EndIn(queue[t], s) \/ Ends(Head(wire), s)
      BY <1>1, <2>5, EndsReceived
    <3>2. QED BY <1>3, <2>1, <2>5, <3>1 DEF AxisRead
  <2>6. QED BY <2>2, <2>3, <2>4, <2>5, QueueSource
<1> QED BY <1>2, <1>3, Ahead

LEMMA BasedStep ==
  ASSUME PromptInv, Based, Next
  PROVE  Based'
<1>1. TypeInv
  BY DEF PromptInv
<1>2. relay' \subseteq working'
  <2>1. relay \subseteq working
    BY DEF Based
  <2>2. ASSUME NEW r \in Request, AgentEnds(r)
        PROVE  relay' \subseteq working'
    <3>1. PICK kind \in {"done", "error"} : Emits(r, kind) /\ working' = working \ {r}
      BY <2>2 DEF AgentEnds
    <3>2. CASE relay' = {}
      BY <3>2
    <3>3. CASE ~OnOrbit(r) /\ relay' = relay
      <4>1. r \notin relay
        BY <3>3 DEF PromptInv, Drained, OnOrbit, TypeInv, TypeOK
      <4>2. QED BY <2>1, <3>1, <3>3, <4>1
    <3>4. QED BY <3>1, <3>2, <3>3, EmitsWhere
  <2>3. ASSUME NEW r \in Request, AgentText(r) \/ AgentAsk(r)
        PROVE  relay' \subseteq working'
    <3>1. working' = working
      BY <2>3 DEF AgentText, AgentAsk
    <3>2. relay' \subseteq relay
      BY <1>1, <2>3, AgentEmits, EmitsTyped
    <3>3. QED BY <2>1, <3>1, <3>2
  <2>4. ASSUME NEW t \in Turn, Send(t)
        PROVE  relay' \subseteq working'
    BY <2>1, <2>4 DEF Send
  <2>5. ASSUME NEW t \in Turn, RelayFails(t)
        PROVE  relay' \subseteq working'
    BY <2>1, <2>5 DEF RelayFails, agent
  <2>6. CASE relay' = relay /\ working \subseteq working'
    BY <2>1, <2>6
  <2>7. \A s \in Steer : SteerSend(s) => working \subseteq working'
    BY DEF SteerSend
  <2>8. QED BY <2>2, <2>3, <2>4, <2>5, <2>6, <2>7, RelayFrame, WorkingFrame
<1>3. \A s \in Steer : s \in working' => steer'[s] \in {"sent", "ended"}
  <2>1. ASSUME NEW s \in Steer, s \in working'
        PROVE  steer'[s] \in {"sent", "ended"}
    BY <1>1, <2>1, SteersAhead DEF Based
  <2>2. QED BY <2>1
<1>4. \A t \in Turn : pc'[t] \in Before => queue'[t] = <<>> /\ heard'[t] = {}
  <2>1. SUFFICES ASSUME NEW t \in Turn, pc'[t] \in Before
                 PROVE  queue'[t] = <<>> /\ heard'[t] = {}
    OBVIOUS
  <2>2. pc[t] \in Before
    BY <2>1, Ahead
  <2>3. queue'[t] = queue[t]
    BY <2>2, QueueSource DEF Before, Posting
  <2>4. heard'[t] = heard[t]
    BY <2>2, HeardSource DEF Before, Posting
  <2>5. QED BY <2>2, <2>3, <2>4 DEF Based
<1>5. \A t \in Turn : pc'[t] \in {"ensure", "send", "wait", "refused", "drain"} => chan'[t] \in 0..opened'
  <2>1. SUFFICES ASSUME NEW t \in Turn, pc'[t] \in {"ensure", "send", "wait", "refused", "drain"}
                 PROVE  chan'[t] \in 0..opened'
    OBVIOUS
  <2>2. opened \in Nat /\ opened' \in Nat /\ opened <= opened' /\ link \in 0..opened
    <3>1. opened' = opened \/ opened' = opened + 1
      BY LinkFrame DEF Connect, Disconnect
    <3>2. QED BY <1>1, <3>1 DEF TypeInv, TypeOK
  <2>3. CASE Route(t)
    <3>1. pc[t] = "start" /\ pc'[t] # "failed"
      BY <1>1, <2>1, <2>3, Steps
    <3>2. pc \in [Turn -> Places] /\ chan \in [Turn -> (0..MaxConn) \cup {None}]
      BY <1>1 DEF TypeInv, TypeOK
    <3>3. chan' = [chan EXCEPT ![t] = link]
      BY <2>3, <3>1, <3>2 DEF Route, Goes
    <3>4. chan'[t] = link
      BY <3>2, <3>3
    <3>5. QED BY <2>2, <3>4
  <2>4. CASE pc[t] = "ensure" \/ Reading(t)
    <3>1. chan'[t] = chan[t]
      BY <1>1, <2>4, ChannelStays DEF Reading
    <3>2. chan[t] \in 0..opened
      BY <2>4 DEF Based
    <3>3. QED BY <2>2, <3>1, <3>2
  <2>5. Ensured(t) => pc[t] = "ensure"
    BY <1>1, Steps
  <2>6. QED BY <2>1, <2>3, <2>4, <2>5, Ahead
<1> QED BY <1>2, <1>3, <1>4, <1>5 DEF Based, Reading

(* A turn's other steps are not possible while one reads and none crosses.  *)
LEMMA Bystanders ==
  ASSUME CutInv, Next, ~crossed', NEW t \in Turn, Reading(t), NEW u \in Turn,
         PostRead(u) \/ Task(u) \/ RelayFails(u)
  PROVE  u = t /\ ~PostRead(u)
<1>1. TypeInv /\ ~crossed /\ Alone /\ Clean(t) /\ Active(t)
  <2>1. ~crossed
    BY CrossedFrame DEF PostRead, Ensured
  <2>2. QED BY <2>1 DEF CutInv, Whole, PromptInv, Reading, Active
<1>2. ~PostRead(u)
  BY <1>1 DEF PostRead, Active
<1>3. Task(u) => u = t
  BY <1>1, TaskActive DEF Alone
<1>4. RelayFails(u) => u = t
  BY <1>1 DEF RelayFails, Live, CutInv, Based, Clean
<1> QED BY <1>2, <1>3, <1>4

LEMMA NotCrossedYet ==
  Next /\ ~crossed' => ~crossed
BY CrossedFrame DEF PostRead, Ensured

(* A turn begins to read with nothing on the way.                           *)
LEMMA ReadsAfresh ==
  ASSUME CutInv, Next, ~crossed', NEW t \in Turn, Ensured(t)
  PROVE  Clean(t)' /\ Once(t)'
<1>1. TypeInv /\ pc[t] = "ensure" /\ queue[t] = <<>> /\ heard[t] = {}
  BY Steps DEF CutInv, PromptInv, Based, Ensured, Goes, Before
<1>2. /\ queue' = queue /\ heard' = heard /\ wire' = wire /\ backlog' = backlog /\ chan' = chan
      /\ link' = link /\ working' = working /\ steer' = steer
  BY DEF Ensured, drain, orbit, handlers
<1>3. working \cap Turn = {} /\ wire = <<>> /\ backlog = <<>>
  BY DEF Ensured
<1>4. Only(wire, t) /\ Only(backlog, t) /\ AllFit(queue[t], t, chan[t])
  BY <1>1, <1>3, EndsOfNone
<1>5. Clean(t)'
  BY <1>1, <1>2, <1>3, <1>4 DEF Clean, Only, AllFit, Fits
<1>6. \A r : ~EndIn(queue[t], r) /\ EndsOnce(queue[t], r) /\ ~EndIn(wire, r) /\ EndsOnce(wire, r)
  BY <1>1, <1>3, EndsOfNone
<1>7. Once(t)'
  BY <1>2, <1>6 DEF Once, OnWire, EndIn, EndsOnce, Ends
<1> QED BY <1>5, <1>7

(* What holds of a turn that reads on, whatever the step.                    *)
LEMMA ReadsOn ==
  ASSUME CutInv, Next, ~crossed', NEW t \in Turn, Reading(t),
         pc'[t] \in {"send", "wait", "refused", "drain"}
  PROVE  /\ PromptInv /\ TypeInv /\ Based /\ Clean(t) /\ Once(t) /\ relay \subseteq {t}
         /\ chan'[t] = chan[t] /\ (pc'[t] = "send" => pc[t] = "send")
         /\ working' \cap Turn \subseteq {t} /\ (pc'[t] = "send" => t \notin working')
         /\ t \in working' => t \in working \/ pc[t] = "send"
         /\ heard'[t] \subseteq {t}
<1>1. PromptInv /\ TypeInv /\ Based /\ Clean(t) /\ Once(t)
  BY NotCrossedYet DEF CutInv, PromptInv, Whole
<1>2. relay \subseteq {t}
  BY <1>1 DEF Based, Clean, TypeInv, TypeOK
<1>3. chan'[t] = chan[t]
  BY <1>1, ChannelStays DEF Reading
<1>4. pc'[t] = "send" => pc[t] = "send"
  <2>1. ~Ensured(t)
    BY <1>1, Steps DEF Reading
  <2>2. QED BY <1>1, <2>1, Ahead
<1>5. \A u \in Turn : u \in working' => u = t /\ (u \in working \/ (pc[t] = "send" /\ pc'[t] # "send"))
  <2>1. SUFFICES ASSUME NEW u \in Turn, u \in working', u \notin working
                 PROVE  u = t /\ pc[t] = "send" /\ pc'[t] # "send"
    BY <1>1 DEF Clean
  <2>2. Send(u) /\ pc[u] = "send" /\ pc'[u] # "send"
    BY <1>1, <2>1, PromptWorks
  <2>3. u = t
    BY <2>2, Bystanders DEF Task
  <2>4. QED BY <2>2, <2>3
<1>6. heard'[t] \subseteq {t}
  <2>1. CASE heard'[t] = heard[t]
    BY <1>1, <2>1 DEF Clean
  <2>2. CASE queue[t] # <<>> /\ Head(queue[t]).kind = "text" /\ heard'[t] = heard[t] \cup {Head(queue[t]).of}
    <3>1. Fits(Head(queue[t]), t, chan[t])
      BY <1>1, <2>2, EndsOfTail DEF TypeInv, Clean
    <3>2. Head(queue[t]).of = t
      BY <2>2, <3>1 DEF Fits
    <3>3. QED BY <1>1, <2>2, <3>2 DEF Clean
  <2>3. QED BY <1>1, <2>1, <2>2, HeardSource
<1> QED BY <1>1, <1>2, <1>3, <1>4, <1>5, <1>6 DEF Clean

(* The sequences decide the rest: Clean and Once follow from what they hold. *)
LEMMA ReadsOnWith ==
  ASSUME CutInv, Next, ~crossed', NEW t \in Turn, Reading(t),
         pc'[t] \in {"send", "wait", "refused", "drain"},
         Only(wire', t), Only(backlog', t), AllFit(queue'[t], t, chan[t]),
         \A r \in Request : EndsOnce(queue'[t], r),
         chan[t] = link' => EndsOnce(wire', t) /\ ~(EndIn(queue'[t], t) /\ EndIn(wire', t)),
         EndIn(queue'[t], t) \/ (chan[t] = link' /\ EndIn(wire', t)) =>
           \/ EndIn(queue[t], t) \/ OnWire(t)
           \/ pc[t] # "send" /\ t \in working /\ t \notin working',
         \A s \in Steer : EndIn(queue'[t], s) =>
           EndIn(queue[t], s) \/ (s \in working /\ s \notin working')
  PROVE  /\ Clean(t)' /\ Once(t)'
         /\ pc'[t] # "send" /\ (t \in working' \/ EndIn(queue'[t], t) \/ (chan'[t] = link' /\ EndIn(wire', t)))
              => Own(t)
<1>1. /\ PromptInv /\ TypeInv /\ Based /\ Clean(t) /\ Once(t) /\ relay \subseteq {t}
      /\ chan'[t] = chan[t] /\ (pc'[t] = "send" => pc[t] = "send")
      /\ working' \cap Turn \subseteq {t} /\ (pc'[t] = "send" => t \notin working')
      /\ t \in working' => t \in working \/ pc[t] = "send"
      /\ heard'[t] \subseteq {t}
  BY ReadsOn
<1>2. Clean(t)'
  BY <1>1 DEF Clean, Only, AllFit, Fits
<1>3. t \in working' \/ pc'[t] = "send" => ~EndIn(queue'[t], t) /\ ~(chan[t] = link' /\ EndIn(wire', t))
  <2>1. SUFFICES ASSUME t \in working' \/ pc'[t] = "send",
                        EndIn(queue'[t], t) \/ (chan[t] = link' /\ EndIn(wire', t))
                 PROVE  FALSE
    OBVIOUS
  <2>2. t \in working \/ pc[t] = "send"
    BY <1>1, <2>1
  <2>3. ~EndIn(queue[t], t) /\ ~OnWire(t)
    BY <1>1, <2>2 DEF Once
  <2>4. QED BY <1>1, <2>1, <2>3
<1>4. \A s \in Steer : EndIn(queue'[t], s) => s \notin working' /\ steer'[s] \in {"sent", "ended"}
  <2>1. SUFFICES ASSUME NEW s \in Steer, EndIn(queue'[t], s)
                 PROVE  s \notin working' /\ steer'[s] \in {"sent", "ended"}
    OBVIOUS
  <2>2. CASE EndIn(queue[t], s)
    BY <1>1, <2>2, SteersAhead DEF Once
  <2>3. CASE s \in working /\ s \notin working'
    BY <1>1, <2>3, SteersAhead DEF Based
  <2>4. QED BY <2>1, <2>2, <2>3
<1>5. Once(t)'
  BY <1>1, <1>3, <1>4 DEF Once, OnWire, EndIn, EndsOnce, Ends
<1>6. QED BY <1>1, <1>2, <1>5 DEF Own

(* The turn's own end does not come from nowhere.                           *)
OwnKept(t) ==
  pc'[t] # "send" /\ (t \in working' \/ EndIn(queue'[t], t) \/ (chan'[t] = link' /\ EndIn(wire', t)))
    => Own(t)

LEMMA KeptDraining ==
  ASSUME CutInv, Next, ~crossed', NEW t \in Turn, Reading(t),
         pc'[t] \in {"send", "wait", "refused", "drain"},
         wire' = wire, backlog' = backlog, link' = link,
         queue'[t] = queue[t] \/ (queue[t] # <<>> /\ queue'[t] = Tail(queue[t]))
  PROVE  Clean(t)' /\ Once(t)' /\ OwnKept(t)
<1>1. Clean(t) /\ Once(t) /\ queue[t] \in Seq(Events)
  BY ReadsOn DEF TypeInv
<1>2. \A r : /\ EndIn(queue'[t], r) => EndIn(queue[t], r)
             /\ EndsOnce(queue[t], r) => EndsOnce(queue'[t], r)
  BY <1>1, EndsOfTail
<1>3. AllFit(queue'[t], t, chan[t])
  BY <1>1, EndsOfTail DEF Clean
<1>4. /\ Only(wire', t) /\ Only(backlog', t)
      /\ \A r \in Request : EndsOnce(queue'[t], r)
      /\ chan[t] = link' => EndsOnce(wire', t) /\ ~(EndIn(queue'[t], t) /\ EndIn(wire', t))
  BY <1>1, <1>2 DEF Clean, Once
<1>5. EndIn(queue'[t], t) \/ (chan[t] = link' /\ EndIn(wire', t)) => EndIn(queue[t], t) \/ OnWire(t)
  BY <1>2 DEF OnWire
<1> QED BY <1>2, <1>3, <1>4, <1>5, ReadsOnWith DEF OwnKept

LEMMA KeptLinking ==
  ASSUME CutInv, Next, ~crossed', NEW t \in Turn, Reading(t),
         pc'[t] \in {"send", "wait", "refused", "drain"}, Connect \/ Disconnect
  PROVE  Clean(t)' /\ Once(t)' /\ OwnKept(t)
<1>1. Clean(t) /\ Once(t) /\ queue' = queue /\ TypeInv
  BY ReadsOn DEF Connect, Disconnect, drain
<1>2. \A r : ~EndIn(<<>>, r) /\ EndsOnce(<<>>, r) /\ Only(<<>>, t)
  BY EndsOfNone
<1>3. /\ Only(wire', t) /\ Only(backlog', t)
      /\ chan[t] = link' => ~EndIn(wire', t) /\ EndsOnce(wire', t)
  <2>1. CASE Connect
    <3>1. wire' = backlog /\ backlog' = <<>> /\ link' = opened + 1
      BY <2>1 DEF Connect
    <3>2. chan[t] # link'
      BY <1>1, <3>1 DEF CutInv, Based, TypeInv, TypeOK
    <3>3. QED BY <1>1, <1>2, <3>1, <3>2 DEF Clean
  <2>2. CASE Disconnect
    <3>1. wire' = <<>> /\ backlog' = backlog \o Unread
      BY <2>2 DEF Disconnect
    <3>2. Unread \in Seq(Events) /\ backlog \in Seq(Events)
      BY <1>1, OnlyEvents DEF TypeInv
    <3>3. Only(Unread, t)
      BY <1>1, OnlyEvents DEF Only, Clean
    <3>4. Only(backlog', t)
      BY <1>1, <3>1, <3>2, <3>3, EndsOfConcat DEF Clean
    <3>5. QED BY <1>2, <3>1, <3>4
  <2>3. QED BY <2>1, <2>2
<1>4. /\ AllFit(queue'[t], t, chan[t]) /\ \A r \in Request : EndsOnce(queue'[t], r)
      /\ \A r : EndIn(queue'[t], r) => EndIn(queue[t], r)
  BY <1>1 DEF Clean, Once
<1> QED BY <1>3, <1>4, ReadsOnWith DEF OwnKept

LEMMA KeptReading ==
  ASSUME CutInv, Next, ~crossed', NEW t \in Turn, Reading(t),
         pc'[t] \in {"send", "wait", "refused", "drain"}, AxisRead
  PROVE  Clean(t)' /\ Once(t)' /\ OwnKept(t)
<1>1. Clean(t) /\ Once(t) /\ PromptInv /\ TypeInv
  BY ReadsOn
<1>2. wire # <<>> /\ wire' = Tail(wire) /\ backlog' = backlog /\ link' = link
  BY DEF AxisRead
<1>3. wire \in Seq(Events \cup Answers) /\ queue[t] \in Seq(Events)
  BY <1>1 DEF TypeInv
<1>4. Head(wire).of = t /\ Only(wire', t) /\ Only(backlog', t)
  BY <1>1, <1>2, <1>3, EndsOfTail DEF Clean
<1>5. EndIn(wire', t) => EndIn(wire, t)
  BY <1>2, <1>3, EndsOfTail
<1>6. EndsOnce(wire, t) => EndsOnce(wire', t)
  BY <1>2, <1>3, EndsOfTail
<1>7. CASE queue'[t] = queue[t]
  <2>1. /\ AllFit(queue'[t], t, chan[t]) /\ \A r \in Request : EndsOnce(queue'[t], r)
        /\ \A r : EndIn(queue'[t], r) => EndIn(queue[t], r)
    BY <1>1, <1>7 DEF Clean, Once
  <2>2. /\ chan[t] = link' => EndsOnce(wire', t) /\ ~(EndIn(queue'[t], t) /\ EndIn(wire', t))
        /\ EndIn(queue'[t], t) \/ (chan[t] = link' /\ EndIn(wire', t)) => EndIn(queue[t], t) \/ OnWire(t)
    BY <1>1, <1>2, <1>5, <1>6, <2>1 DEF Once, OnWire
  <2>3. QED BY <1>4, <2>1, <2>2, ReadsOnWith DEF OwnKept
<1>8. CASE Head(wire) \in Events /\ chan[t] = link /\ queue'[t] = Received(queue[t], Head(wire))
  <2> DEFINE f == Head(wire)
  <2>1. /\ \A r : EndIn(queue'[t], r) => EndIn(queue[t], r) \/ Ends(f, r)
        /\ \A r : EndsOnce(queue[t], r) /\ ~(EndIn(queue[t], r) /\ Ends(f, r)) => EndsOnce(queue'[t], r)
        /\ AllFit(queue[t], t, chan[t]) /\ Fits(f, t, chan[t]) => AllFit(queue'[t], t, chan[t])
    <3>1. PICK Q \in Seq(Events) : Q = queue[t]
      BY <1>3
    <3>2. /\ \A r : EndIn(Received(Q, f), r) => EndIn(Q, r) \/ Ends(f, r)
          /\ \A r : EndsOnce(Q, r) /\ ~(EndIn(Q, r) /\ Ends(f, r)) => EndsOnce(Received(Q, f), r)
          /\ AllFit(Q, t, chan[t]) /\ Fits(f, t, chan[t]) => AllFit(Received(Q, f), t, chan[t])
      BY <1>8, EndsReceived
    <3>3. QED BY <1>8, <3>1, <3>2
  <2>2. EndsOnce(wire, t) /\ ~(EndIn(queue[t], t) /\ EndIn(wire, t))
    BY <1>1, <1>8 DEF Once
  <2>3. /\ Ends(f, t) => EndIn(wire, t) /\ ~EndIn(wire', t)
        /\ \A r : Ends(f, r) => r = t
    BY <1>2, <1>3, <1>4, <2>2, EndsOfTail DEF Ends
  <2>4. AllFit(queue'[t], t, chan[t])
    BY <1>1, <1>4, <2>1 DEF Clean, Fits
  <2>5. \A r \in Request : EndsOnce(queue'[t], r)
    BY <1>1, <2>1, <2>2, <2>3 DEF Once
  <2>6. EndsOnce(wire', t) /\ ~(EndIn(queue'[t], t) /\ EndIn(wire', t))
    BY <1>5, <1>6, <2>1, <2>2, <2>3
  <2>7. EndIn(queue'[t], t) \/ (chan[t] = link' /\ EndIn(wire', t)) => EndIn(queue[t], t) \/ OnWire(t)
    BY <1>2, <1>5, <1>8, <2>1, <2>3 DEF OnWire
  <2>8. \A s \in Steer : EndIn(queue'[t], s) => EndIn(queue[t], s)
    BY <2>1, <2>3
  <2> HIDE DEF f
  <2>9. QED BY <1>4, <2>4, <2>5, <2>6, <2>7, <2>8, ReadsOnWith DEF OwnKept
<1>9. \/ queue'[t] = queue[t]
      \/ Head(wire) \in Events /\ chan[t] = link /\ queue'[t] = Received(queue[t], Head(wire))
  <2>1. queue' = queue \/ (Head(wire) \in Events /\ queue' = Broadcast(link, Head(wire)))
    BY <1>1, FrameKinds DEF AxisRead
  <2>2. QED BY <2>1 DEF Broadcast
<1> QED BY <1>7, <1>8, <1>9

LEMMA KeptRefusing ==
  ASSUME CutInv, Next, ~crossed', NEW t \in Turn, Reading(t),
         pc'[t] \in {"send", "wait", "refused", "drain"}, RelayFails(t)
  PROVE  Clean(t)' /\ Once(t)' /\ OwnKept(t)
<1>1. Clean(t) /\ Once(t) /\ TypeInv
  BY ReadsOn
<1>2. PICK f \in Events \cup Answers : f = Event("refused", t) /\ f.of = t /\ f.kind = "refused"
  BY AnswerTyped
<1>3. /\ wire' = Append(wire, f) /\ backlog' = backlog /\ link' = link /\ queue' = queue
  BY <1>2 DEF RelayFails, drain
<1>4. wire \in Seq(Events \cup Answers) /\ wire' = wire \o <<f>>
  BY <1>1, <1>2, <1>3, AppendIsConcat DEF TypeInv
<1>5. /\ <<f>> \in Seq(Events \cup Answers)
      /\ EndsOnce(<<f>>, t) /\ Only(<<f>>, t) /\ ~EndIn(<<f>>, t)
  BY <1>2, EndsOfOne DEF Ends
<1>6. Only(wire', t) /\ (EndIn(wire', t) <=> EndIn(wire, t)) /\ (EndsOnce(wire, t) => EndsOnce(wire', t))
  BY <1>1, <1>4, <1>5, EndsOfConcat DEF Clean
<1>7. /\ AllFit(queue'[t], t, chan[t]) /\ \A r \in Request : EndsOnce(queue'[t], r)
      /\ \A r : EndIn(queue'[t], r) => EndIn(queue[t], r)
  BY <1>1, <1>3 DEF Clean, Once
<1>8. /\ chan[t] = link' => EndsOnce(wire', t) /\ ~(EndIn(queue'[t], t) /\ EndIn(wire', t))
      /\ EndIn(queue'[t], t) \/ (chan[t] = link' /\ EndIn(wire', t)) => EndIn(queue[t], t) \/ OnWire(t)
  BY <1>1, <1>3, <1>6, <1>7 DEF Once, OnWire
<1>9. Only(backlog', t)
  BY <1>1, <1>3 DEF Clean
<1> QED BY <1>6, <1>7, <1>8, <1>9, ReadsOnWith DEF OwnKept

(* Who is at work speaks, and an end is its last word.                      *)
LEMMA AgentSays ==
  ASSUME NEW r \in Request, AgentText(r) \/ AgentAsk(r) \/ AgentEnds(r)
  PROVE  \E kind \in {"text", "ack", "ask", "done", "error"} :
           /\ Emits(r, kind) /\ r \in working /\ link' = link
           /\ kind \in {"done", "error"} => r \notin working'
           /\ kind = "text" => r \notin Steer
BY DEF AgentText, AgentAsk, AgentEnds

LEMMA EndsOfCopies ==
  ASSUME TypeInv, NEW t, relay \subseteq {t}, NEW e \in Events, e.of = t
  PROVE  /\ Copies(e) \in Seq(Events)
         /\ EndIn(Copies(e), t) => Ends(e, t)
         /\ EndsOnce(Copies(e), t) /\ Only(Copies(e), t)
         /\ Responses \in Seq(Answers)
         /\ ~EndIn(Responses, t) /\ EndsOnce(Responses, t) /\ Only(Responses, t)
<1>1. /\ Copies(e) \in Seq(Events) /\ Len(Copies(e)) = Cardinality(relay)
      /\ Cardinality(relay) \in Nat /\ \A i \in 1..Cardinality(relay) : Copies(e)[i] = e
  BY CopiesTyped
<1>2. Cardinality(relay) <= 1
  <2>1. IsFiniteSet({t}) /\ Cardinality({t}) = 1
    BY FS_Singleton
  <2>2. QED BY <2>1, FS_Subset
<1>3. EndIn(Copies(e), t) => Ends(e, t)
  BY <1>1 DEF EndIn
<1>4. EndsOnce(Copies(e), t) /\ Only(Copies(e), t)
  <2>1. \A i, j \in 1..Len(Copies(e)) : i = j
    BY <1>1, <1>2
  <2>2. QED BY <1>1, <2>1 DEF EndsOnce, Only
<1>5. /\ Responses \in Seq(Answers)
      /\ \A i \in 1..Len(Responses) : Responses[i].kind = "resp" /\ Responses[i].of = t
  BY ResponsesTyped DEF Live
<1>6. ~EndIn(Responses, t) /\ EndsOnce(Responses, t) /\ Only(Responses, t)
  BY <1>5 DEF EndIn, EndsOnce, Only, Ends
<1> QED BY <1>1, <1>3, <1>4, <1>5, <1>6

LEMMA KeptEmitting ==
  ASSUME CutInv, Next, ~crossed', NEW t \in Turn, Reading(t),
         pc'[t] \in {"send", "wait", "refused", "drain"},
         NEW r \in Request, AgentText(r) \/ AgentAsk(r) \/ AgentEnds(r)
  PROVE  Clean(t)' /\ Once(t)' /\ OwnKept(t)
<1>1. Clean(t) /\ Once(t) /\ PromptInv /\ TypeInv /\ Based /\ relay \subseteq {t}
  BY ReadsOn
<1>2. PICK kind \in {"text", "ack", "ask", "done", "error"} :
        /\ Emits(r, kind) /\ r \in working /\ link' = link
        /\ kind \in {"done", "error"} => r \notin working'
        /\ kind = "text" => r \notin Steer
  BY AgentSays
<1>3. PICK e \in Events : e = Event(kind, r) /\ e.kind = kind /\ e.of = r
  BY EventTyped
<1>4. r = t \/ r \in Steer
  BY <1>1, <1>2 DEF Clean, Request
<1>5. /\ wire \in Seq(Events \cup Answers) /\ backlog \in Seq(Events) /\ queue[t] \in Seq(Events)
  BY <1>1 DEF TypeInv
<1>6. /\ \A q : Ends(e, q) => q = r /\ r \notin working'
  BY <1>2, <1>3 DEF Ends
<1>7. Ends(e, t) => pc[t] # "send" /\ t \in working /\ t \notin working' /\ ~EndIn(queue[t], t) /\ ~OnWire(t)
  BY <1>1, <1>2, <1>6 DEF Clean, Once
<1>8. CASE queue'[t] = queue[t] /\ wire' = wire /\ backlog' = backlog
  BY <1>2, <1>8, KeptDraining
<1>9. CASE /\ queue'[t] = Received(queue[t], e) /\ chan[t] = Local
           /\ wire' = wire /\ backlog' = backlog
  <2>1. /\ \A q : EndIn(queue'[t], q) => EndIn(queue[t], q) \/ Ends(e, q)
        /\ \A q : EndsOnce(queue[t], q) /\ ~(EndIn(queue[t], q) /\ Ends(e, q)) => EndsOnce(queue'[t], q)
        /\ AllFit(queue[t], t, chan[t]) /\ Fits(e, t, chan[t]) => AllFit(queue'[t], t, chan[t])
    <3>1. PICK Q \in Seq(Events) : Q = queue[t]
      BY <1>5
    <3>2. /\ \A q : EndIn(Received(Q, e), q) => EndIn(Q, q) \/ Ends(e, q)
          /\ \A q : EndsOnce(Q, q) /\ ~(EndIn(Q, q) /\ Ends(e, q)) => EndsOnce(Received(Q, e), q)
          /\ AllFit(Q, t, chan[t]) /\ Fits(e, t, chan[t]) => AllFit(Received(Q, e), t, chan[t])
      BY EndsReceived
    <3>3. QED BY <1>9, <3>1, <3>2
  <2>2. AllFit(queue'[t], t, chan[t])
    BY <1>1, <1>2, <1>3, <1>4, <1>9, <2>1 DEF Clean, Fits
  <2>3. r \in Steer => ~EndIn(queue[t], r)
    BY <1>1, <1>2 DEF Once
  <2>4. \A q \in Request : EndsOnce(queue'[t], q)
    BY <1>1, <1>4, <1>6, <1>7, <2>1, <2>3 DEF Once
  <2>5. chan[t] = link' => EndsOnce(wire', t) /\ ~(EndIn(queue'[t], t) /\ EndIn(wire', t))
    BY <1>1, <1>2, <1>7, <1>9, <2>1 DEF Once, OnWire
  <2>6. EndIn(queue'[t], t) \/ (chan[t] = link' /\ EndIn(wire', t)) =>
           \/ EndIn(queue[t], t) \/ OnWire(t)
           \/ pc[t] # "send" /\ t \in working /\ t \notin working'
    BY <1>2, <1>7, <1>9, <2>1 DEF OnWire
  <2>7. \A s \in Steer : EndIn(queue'[t], s) =>
           EndIn(queue[t], s) \/ (s \in working /\ s \notin working')
    BY <1>2, <1>6, <2>1
  <2>8. Only(wire', t) /\ Only(backlog', t)
    BY <1>1, <1>9 DEF Clean
  <2>9. QED BY <2>2, <2>4, <2>5, <2>6, <2>7, <2>8, ReadsOnWith DEF OwnKept
<1>10. CASE OnOrbit(r) /\ queue' = queue
  <2>1. r = t /\ chan[t] # Local
    BY <1>4, <1>10 DEF OnOrbit
  <2>2. /\ Copies(e) \in Seq(Events)
        /\ EndIn(Copies(e), t) => Ends(e, t)
        /\ EndsOnce(Copies(e), t) /\ Only(Copies(e), t)
        /\ Responses \in Seq(Answers)
        /\ ~EndIn(Responses, t) /\ EndsOnce(Responses, t) /\ Only(Responses, t)
    BY <1>1, <1>3, <2>1, EndsOfCopies
  <2>3. /\ AllFit(queue'[t], t, chan[t]) /\ \A q \in Request : EndsOnce(queue'[t], q)
        /\ \A q : EndIn(queue'[t], q) => EndIn(queue[t], q)
    BY <1>1, <1>10 DEF Clean, Once
  <2>4. CASE link = Local /\ backlog' = backlog \o Copies(e) /\ wire' = wire
    <3>1. Only(backlog', t)
      BY <1>1, <1>5, <2>2, <2>4, EndsOfConcat DEF Clean
    <3>2. chan[t] # link'
      BY <1>2, <2>1, <2>4
    <3>3. Only(wire', t)
      BY <1>1, <2>4 DEF Clean
    <3>4. QED BY <2>3, <3>1, <3>2, <3>3, ReadsOnWith DEF OwnKept
  <2>5. ASSUME NEW fs \in Seq(Events \cup Answers), ~EndIn(fs, t), EndsOnce(fs, t), Only(fs, t),
               backlog' = backlog, wire' = (wire \o Copies(e)) \o fs
        PROVE  Clean(t)' /\ Once(t)' /\ OwnKept(t)
    <3>1. Copies(e) \in Seq(Events \cup Answers) /\ wire \o Copies(e) \in Seq(Events \cup Answers)
      BY <1>5, <2>2, ConcatProperties
    <3>2. PICK w \in Seq(Events \cup Answers) : w = wire \o Copies(e)
      BY <3>1
    <3>3. /\ EndIn(w, t) <=> EndIn(wire, t) \/ EndIn(Copies(e), t)
          /\ EndsOnce(wire, t) /\ EndsOnce(Copies(e), t) /\ ~(EndIn(wire, t) /\ EndIn(Copies(e), t)) => EndsOnce(w, t)
          /\ Only(wire, t) /\ Only(Copies(e), t) => Only(w, t)
      BY <1>5, <3>1, <3>2, EndsOfConcat
    <3>4. /\ EndIn(wire', t) <=> EndIn(w, t) \/ EndIn(fs, t)
          /\ EndsOnce(w, t) /\ EndsOnce(fs, t) /\ ~(EndIn(w, t) /\ EndIn(fs, t)) => EndsOnce(wire', t)
          /\ Only(w, t) /\ Only(fs, t) => Only(wire', t)
      BY <2>5, <3>2, EndsOfConcat
    <3>5. Only(wire', t) /\ Only(backlog', t)
      BY <1>1, <2>2, <2>5, <3>3, <3>4 DEF Clean
    <3>6. EndIn(wire', t) => EndIn(wire, t) \/ Ends(e, t)
      BY <2>2, <2>5, <3>3, <3>4
    <3>7. chan[t] = link' => EndsOnce(wire', t) /\ ~(EndIn(queue'[t], t) /\ EndIn(wire', t))
      BY <1>1, <1>2, <1>7, <2>2, <2>3, <2>5, <3>3, <3>4, <3>6 DEF Once, OnWire
    <3>8. EndIn(queue'[t], t) \/ (chan[t] = link' /\ EndIn(wire', t)) =>
            \/ EndIn(queue[t], t) \/ OnWire(t)
            \/ pc[t] # "send" /\ t \in working /\ t \notin working'
      BY <1>2, <1>7, <2>3, <3>6 DEF OnWire
    <3>9. QED BY <2>3, <3>5, <3>7, <3>8, ReadsOnWith DEF OwnKept
  <2>6. /\ <<>> \in Seq(Events \cup Answers) /\ ~EndIn(<<>>, t) /\ EndsOnce(<<>>, t) /\ Only(<<>>, t)
        /\ Responses \in Seq(Events \cup Answers)
    BY <2>2, EndsOfNone, EmptySeq
  <2>7. \/ link = Local /\ backlog' = backlog \o Copies(e) /\ wire' = wire
        \/ backlog' = backlog /\ wire' = (wire \o Copies(e)) \o <<>>
        \/ backlog' = backlog /\ wire' = (wire \o Copies(e)) \o Responses
    BY <1>1, <1>2, <1>3, <1>10, EmitsWhere
  <2>8. QED BY <2>2, <2>4, <2>5, <2>6, <2>7
<1>11. \/ queue'[t] = queue[t] /\ wire' = wire /\ backlog' = backlog
       \/ /\ queue'[t] = Received(queue[t], e) /\ chan[t] = Local
          /\ wire' = wire /\ backlog' = backlog
       \/ OnOrbit(r) /\ queue' = queue
  <2>1. \/ queue' = Broadcast(Local, e) /\ wire' = wire /\ backlog' = backlog
        \/ OnOrbit(r) /\ queue' = queue
    BY <1>1, <1>2, <1>3, EmitsWhere
  <2>2. QED BY <2>1 DEF Broadcast
<1> QED BY <1>8, <1>9, <1>10, <1>11

(* A turn that reads keeps to itself, and an end of its own is not made up. *)
LEMMA ReaderStep ==
  ASSUME CutInv, Next, ~crossed', NEW t \in Turn, Reading(t),
         pc'[t] \in {"send", "wait", "refused", "drain"}
  PROVE  Clean(t)' /\ Once(t)' /\ OwnKept(t)
<1>1. PromptInv
  BY DEF CutInv
<1>2. CASE \E r \in Request : AgentText(r) \/ AgentAsk(r) \/ AgentEnds(r)
  BY <1>2, KeptEmitting
<1>3. CASE AxisRead
  BY <1>3, KeptReading
<1>4. CASE Connect \/ Disconnect
  BY <1>4, KeptLinking
<1>5. CASE \E u \in Turn : RelayFails(u)
  BY <1>5, Bystanders, KeptRefusing
<1>6. CASE wire' = wire /\ backlog' = backlog /\ link' = link
  <2>1. CASE queue'[t] = queue[t] \/ (queue[t] # <<>> /\ queue'[t] = Tail(queue[t]))
    BY <1>6, <2>1, KeptDraining
  <2>2. QED BY <1>1, <1>2, <1>3, <2>1, QueueSource
<1> QED BY <1>2, <1>3, <1>4, <1>5, <1>6, WireFrame, BacklogFrame, LinkFrame

(* One turn at a time.                                                      *)
LEMMA AloneStep ==
  ASSUME CutInv, Next, ~crossed'
  PROVE  Alone'
<1>1. PromptInv /\ TypeInv /\ Alone
  BY NotCrossedYet DEF CutInv, PromptInv, Whole
<1>2. \A t \in Turn : pc'[t] \notin {"idle", "ended"} => Active(t) \/ PostRead(t)
  BY <1>1, Ahead DEF Active
<1>3. ASSUME NEW t \in Turn, PostRead(t), NEW u \in Turn, pc'[u] \notin {"idle", "ended"}
      PROVE  u = t
  <2>1. ~Active(u)
    BY <1>3 DEF PostRead, Active
  <2>2. CASE u # t
    <3>1. pc'[u] = pc[u]
      BY <1>1, <1>3, <2>2 DEF PostRead, Goes, TypeInv, TypeOK
    <3>2. QED BY <1>3, <2>1, <3>1 DEF Active
  <2>3. QED BY <2>2
<1>4. SUFFICES ASSUME NEW t \in Turn, NEW u \in Turn,
                      pc'[t] \notin {"idle", "ended"}, pc'[u] \notin {"idle", "ended"}
               PROVE  t = u
  BY DEF Alone, Active
<1>5. CASE Active(t) /\ Active(u)
  BY <1>1, <1>5 DEF Alone
<1> QED BY <1>2, <1>3, <1>4, <1>5

(* A steer comes to owe an end only when it is marked.                      *)
LEMMA DueGrows ==
  ASSUME CutInv, Next, ~crossed', NEW s \in Steer, s \in Due'
  PROVE  s \in Due \/ (SteerMark(s) /\ steer'[s] = "marked")
<1>1. PromptInv /\ TypeInv /\ Based /\ ~crossed
  BY NotCrossedYet DEF CutInv, PromptInv
<1>2. CASE steer'[s] = "marked" \/ s \in working'
  BY <1>1, <1>2, OpenGrows DEF Due
<1>3. ASSUME NEW t \in Turn, pc'[t] \in {"send", "wait", "refused", "drain"}, EndIn(queue'[t], s)
      PROVE  s \in Due
  <2>1. ASSUME wire # <<>>, Reading(t), Ends(Head(wire), s)
        PROVE  FALSE
    <3>1. Only(wire, t) /\ wire \in Seq(Events \cup Answers)
      BY <1>1, <2>1 DEF CutInv, Whole, Clean, TypeInv
    <3>2. Head(wire).of = t
      BY <2>1, <3>1, EndsOfTail
    <3>3. QED BY <2>1, <3>2 DEF Ends
  <2>2. QED BY <1>1, <1>3, <2>1, LeftGrows
<1>4. \/ steer'[s] = "marked" \/ s \in working'
      \/ \E t \in Turn : pc'[t] \in {"send", "wait", "refused", "drain"} /\ EndIn(queue'[t], s)
  BY DEF Due, Open, Left, Reading, EndIn, Ends
<1> QED BY <1>2, <1>3, <1>4

LEMMA SpareStays ==
  ASSUME CutInv, Next, ~crossed', Spare, \A t \in Turn : ~DrainEnd(t)
  PROVE  Spare'
<1>1. PICK t \in Turn : pc[t] = "drain" /\ ~Own(t)
  BY DEF Spare
<1>2. pc'[t] = "drain"
  BY <1>1, Ahead DEF CutInv
<1>3. OwnKept(t)
  BY <1>1, <1>2, ReaderStep DEF Reading
<1>4. ~Own(t)'
  BY <1>1, <1>2, <1>3 DEF OwnKept, Own, OnWire, EndIn, Ends
<1> QED BY <1>2, <1>4 DEF Spare

(* No turn but the one that reads may have an end to spare.                 *)
LEMMA NothingSpare ==
  ASSUME CutInv, ~crossed, NEW t \in Turn, Reading(t), Own(t)
  PROVE  ~Spare /\ IsFiniteSet(Due) /\ Cardinality(Due) <= steerPending
<1>1. ~Spare
  BY DEF CutInv, Whole, Alone, Active, Reading, Spare
<1> QED BY <1>1 DEF CutInv, Whole, Counted

LEMMA OneMore ==
  ASSUME NEW S, IsFiniteSet(S), NEW x, NEW D, D \subseteq S \cup {x}
  PROVE  IsFiniteSet(D) /\ Cardinality(D) \in Nat /\ Cardinality(D) <= Cardinality(S) + 1
<1>1. Cardinality(S) \in Nat
  BY FS_CardinalityType
<1>2. CASE x \in S
  <2>1. D \subseteq S
    BY <1>2
  <2>2. IsFiniteSet(D) /\ Cardinality(D) <= Cardinality(S)
    BY <2>1, FS_Subset
  <2>3. Cardinality(D) \in Nat
    BY <2>2, FS_CardinalityType
  <2>4. QED BY <1>1, <2>2, <2>3
<1>3. CASE x \notin S
  <2>1. PICK E : E = S \cup {x}
    OBVIOUS
  <2>2. IsFiniteSet(E) /\ Cardinality(E) = Cardinality(S) + 1
    BY <1>3, <2>1, FS_AddElement
  <2>3. IsFiniteSet(D) /\ Cardinality(D) <= Cardinality(E)
    BY <2>1, <2>2, FS_Subset
  <2>4. Cardinality(D) \in Nat
    BY <2>3, FS_CardinalityType
  <2>5. QED BY <1>1, <2>2, <2>3, <2>4
<1> QED BY <1>2, <1>3

(* Every step keeps the count.                                             *)
LEMMA CountedStep ==
  ASSUME CutInv, Next, ~crossed'
  PROVE  Counted'
<1>1. /\ PromptInv /\ TypeInv /\ Based /\ Alone /\ Counted /\ ~crossed
      /\ \A t \in Turn : Reading(t) => Clean(t) /\ Once(t)
  BY NotCrossedYet DEF CutInv, PromptInv, Whole
<1>2. IsFiniteSet(Due) /\ Cardinality(Due) \in Nat /\ steerPending \in Nat
  BY <1>1, FS_CardinalityType DEF Counted, TypeInv, TypeOK
<1>3. Due' \subseteq Steer /\ Due \subseteq Steer
  BY DEF Due, Open, Left
<1>4. ASSUME NEW D, D \subseteq Due
      PROVE  IsFiniteSet(D) /\ Cardinality(D) <= Cardinality(Due) /\ Cardinality(D) \in Nat
  BY <1>2, <1>4, FS_Subset, FS_CardinalityType
<1>5. PICK D : D = Due'
  OBVIOUS
<1>6. ASSUME NEW s \in Steer, SteerMark(s), steer'[s] = "marked"
      PROVE  Counted'
  <2>1. /\ steer[s] = "gated" /\ steer' = [steer EXCEPT ![s] = "marked"] /\ pc' = pc
        /\ steerPending' = steerPending + 1
    BY <1>1, <1>6 DEF SteerMark, SteerGoes, TypeInv, TypeOK
  <2>2. \A p \in Steer : SteerMark(p) => p = s
    BY <1>1, <2>1 DEF SteerMark, SteerGoes, TypeInv, TypeOK
  <2>3. D \subseteq Due \cup {s}
    BY <1>3, <1>5, <2>2, DueGrows
  <2>5. IsFiniteSet(D) /\ Cardinality(D) \in Nat /\ Cardinality(D) <= Cardinality(Due) + 1
    BY <1>2, <2>3, OneMore
  <2>6. Spare => Spare'
    <3>1. \A t \in Turn : ~DrainEnd(t)
      BY <1>1, <2>1, Steps
    <3>2. QED BY <3>1, SpareStays
  <2>7. QED BY <1>1, <1>2, <1>5, <2>1, <2>5, <2>6 DEF Counted
<1>7. ASSUME NEW t \in Turn, pc[t] = "drain", queue[t] # <<>>,
             queue'[t] = Tail(queue[t]), Head(queue[t]).kind \in {"done", "error"},
             steer' = steer, working' = working
      PROVE  /\ D \subseteq Due
             /\ ~Own(t) => Cardinality(D) + 1 <= Cardinality(Due)
             /\ Head(queue[t]).of # t => Cardinality(D) + 1 <= Cardinality(Due)
             /\ Head(queue[t]).of = t => Own(t) /\ t \notin working /\ ~EndIn(queue'[t], t) /\ ~OnWire(t)
  <2>1. Reading(t) /\ Clean(t) /\ Once(t) /\ queue[t] \in Seq(Events)
    BY <1>1, <1>7 DEF Reading, TypeInv
  <2>2. PICK r \in Request : r = Head(queue[t]).of /\ Ends(Head(queue[t]), r)
    BY <1>1, <1>7, HeadTyped DEF Ends
  <2>3. EndIn(queue[t], r) /\ ~EndIn(queue'[t], r)
    <3>1. EndsOnce(queue[t], r)
      BY <2>1 DEF Once
    <3>2. QED BY <1>7, <2>1, <2>2, <3>1, EndsOfTail
  <2>4. r = t \/ r \in Steer
    <3>1. Fits(Head(queue[t]), t, chan[t])
      BY <1>7, <2>1, EndsOfTail DEF Clean
    <3>2. QED BY <2>2, <3>1 DEF Fits
  <2>5. D \subseteq Due
    <3>1. \A s \in Steer : ~(SteerMark(s) /\ steer'[s] = "marked")
      BY <1>7 DEF SteerMark, SteerGoes
    <3>2. QED BY <1>3, <1>5, <3>1, DueGrows
  <2>6. r = t => Own(t) /\ t \notin working /\ ~EndIn(queue'[t], t) /\ ~OnWire(t)
    BY <2>1, <2>3 DEF Own, Once, OnWire
  <2>7. r # t => Cardinality(D) + 1 <= Cardinality(Due)
    <3>1. SUFFICES ASSUME r \in Steer PROVE Cardinality(D) + 1 <= Cardinality(Due)
      BY <2>4
    <3>2. r \in Due
      BY <2>1, <2>3, <3>1 DEF Due, Left
    <3>3. r \notin Open
      BY <2>1, <2>3, <3>1 DEF Once, Open
    <3>4. r \notin Open'
      BY <1>7, <3>3 DEF Open
    <3>5. \A u \in Turn : pc'[u] \in {"send", "wait", "refused", "drain"} => u = t
      <4>1. \A u \in Turn : Reading(u) \/ Ensured(u) => Active(u)
        BY <1>1, Steps DEF Reading, Active
      <4>2. QED BY <1>1, <2>1, <4>1, Ahead DEF Alone
    <3>6. r \notin D
      BY <1>5, <2>3, <3>4, <3>5 DEF Due, Left, Reading, EndIn, Ends
    <3>7. D \subseteq Due \ {r}
      BY <2>5, <3>6
    <3>8. IsFiniteSet(Due \ {r}) /\ Cardinality(Due \ {r}) = Cardinality(Due) - 1
      BY <1>2, <3>2, FS_RemoveElement
    <3>9. Cardinality(D) <= Cardinality(Due \ {r})
      BY <3>7, <3>8, FS_Subset
    <3>10. Cardinality(D) \in Nat
      BY <1>4, <2>5
    <3>11. QED BY <1>2, <3>8, <3>9, <3>10
  <2>8. ~Own(t) => r # t
    BY <2>6
  <2>9. QED BY <2>2, <2>5, <2>6, <2>7, <2>8
<1>8. ASSUME NEW t \in Turn, DrainSteerAck(t)
      PROVE  Counted'
  <2>1. /\ pc[t] = "drain" /\ queue[t] # <<>> /\ Head(queue[t]).kind \in {"done", "error"}
        /\ steerPending > 0 /\ steerPending' = steerPending - 1
        /\ pc' = pc /\ chan' = chan /\ steer' = steer /\ working' = working /\ link' = link /\ wire' = wire
    BY <1>8 DEF DrainSteerAck, Drains, handlers, orbit, agent
  <2>2. queue'[t] = Tail(queue[t])
    BY <1>1, <1>8 DEF DrainSteerAck, Consumes, TypeInv
  <2>3. /\ D \subseteq Due
        /\ Head(queue[t]).of # t => Cardinality(D) + 1 <= Cardinality(Due)
        /\ Head(queue[t]).of = t => Own(t) /\ t \notin working /\ ~EndIn(queue'[t], t) /\ ~OnWire(t)
    BY <1>7, <2>1, <2>2
  <2>4. IsFiniteSet(D) /\ Cardinality(D) <= Cardinality(Due) /\ Cardinality(D) \in Nat
    BY <1>4, <2>3
  <2>5. CASE Head(queue[t]).of # t
    <3>1. Spare => Spare'
      <4>1. \A u \in Turn : ~DrainEnd(u)
        BY <1>1, <2>1, Steps
      <4>2. QED BY <4>1, SpareStays
    <3>2. QED BY <1>1, <1>2, <1>5, <2>1, <2>3, <2>4, <2>5, <3>1 DEF Counted
  <2>6. CASE Head(queue[t]).of = t
    <3>1. Cardinality(Due) <= steerPending
      BY <1>1, <2>1, <2>3, <2>6, NothingSpare DEF Reading
    <3>2. ~Own(t)'
      BY <2>1, <2>3, <2>6 DEF Own, OnWire, EndIn, Ends
    <3>3. Spare'
      BY <2>1, <3>2 DEF Spare
    <3>4. QED BY <1>2, <1>5, <2>1, <2>4, <3>1, <3>3 DEF Counted
  <2>7. QED BY <2>5, <2>6
<1>9. ASSUME NEW t \in Turn, DrainEnd(t)
      PROVE  Counted'
  <2>1. /\ pc[t] = "drain" /\ queue[t] # <<>> /\ Head(queue[t]).kind \in {"done", "error"}
        /\ steerPending' = steerPending /\ steer' = steer /\ working' = working
    BY <1>9 DEF DrainEnd, Drains, bridge, handlers, agent
  <2>2. queue'[t] = Tail(queue[t])
    BY <1>1, <1>9 DEF DrainEnd, Consumes, TypeInv
  <2>3. /\ D \subseteq Due
        /\ ~Own(t) => Cardinality(D) + 1 <= Cardinality(Due)
    BY <1>7, <2>1, <2>2
  <2>4. IsFiniteSet(D) /\ Cardinality(D) <= Cardinality(Due) /\ Cardinality(D) \in Nat
    BY <1>4, <2>3
  <2>5. Cardinality(D) <= steerPending
    <3>1. CASE Own(t)
      <4>1. Cardinality(Due) <= steerPending
        BY <1>1, <2>1, <3>1, NothingSpare DEF Reading
      <4>2. QED BY <1>2, <2>4, <4>1
    <3>2. CASE ~Own(t)
      <4>1. Cardinality(Due) <= steerPending + 1
        BY <1>1, <1>2 DEF Counted
      <4>2. QED BY <1>2, <2>3, <2>4, <3>2, <4>1
    <3>3. QED BY <3>1, <3>2
  <2>6. QED BY <1>5, <2>1, <2>4, <2>5 DEF Counted
<1>10. CASE /\ \A s \in Steer : ~(SteerMark(s) /\ steer'[s] = "marked")
            /\ \A t \in Turn : ~DrainSteerAck(t) /\ ~DrainEnd(t)
  <2>1. steerPending' = steerPending
    <3>1. \A s \in Steer : SteerMark(s) => steer'[s] = "marked" \/ steerPending' = steerPending
      BY <1>1 DEF SteerMark, SteerGoes, TypeInv, TypeOK
    <3>2. QED BY <1>10, <3>1, PendingFrame
  <2>2. D \subseteq Due
    BY <1>3, <1>5, <1>10, DueGrows
  <2>3. Spare => Spare'
    BY <1>10, SpareStays
  <2>4. IsFiniteSet(D) /\ Cardinality(D) <= Cardinality(Due) /\ Cardinality(D) \in Nat
    BY <1>4, <2>2
  <2>5. QED BY <1>1, <1>2, <1>5, <2>1, <2>3, <2>4 DEF Counted
<1> QED BY <1>6, <1>8, <1>9, <1>10

(* A reply is stored by its turn, when its agent has finished.              *)
LEMMA RepliedStep ==
  ASSUME CutInv, Next, ~crossed'
  PROVE  Replied'
<1>1. /\ PromptInv /\ TypeInv /\ Alone /\ Replied /\ ~crossed
      /\ \A t \in Turn : Reading(t) => Clean(t) /\ Once(t)
  BY NotCrossedYet DEF CutInv, PromptInv, Whole
<1>2. rows \in Seq(Rows) /\ steerPending \in Nat
  BY <1>1 DEF TypeInv, TypeOK, Rows
<1>3. ASSUME NEW t \in Turn, pc[t] \in Over, t \notin working, heard[t] \subseteq {t}
      PROVE  pc'[t] \in Over /\ t \notin working' /\ heard'[t] \subseteq {t}
  <2>1. pc'[t] \in Over
    BY <1>1, <1>3, PlaceAhead
  <2>2. t \notin working'
    BY <1>1, <1>3, PromptWorks DEF Over
  <2>3. heard'[t] = heard[t]
    BY <1>1, <1>3, HeardSource DEF Over
  <2>4. QED BY <1>3, <2>1, <2>2, <2>3
<1>4. \A i \in 1..Len(rows) : rows[i].role = "assistant" =>
        /\ rows[i].of \in Turn /\ pc'[rows[i].of] \in Over
        /\ rows[i].of \notin working' /\ heard'[rows[i].of] \subseteq {rows[i].of}
  BY <1>1, <1>3 DEF Replied
<1>5. ASSUME NEW t \in Turn, DrainEnd(t), rows' = Append(rows, Row(Reply(t), "assistant", t)),
             steerPending = 0, Drains(t, {"done"})
      PROVE  pc'[t] \in Over /\ t \notin working' /\ heard'[t] \subseteq {t}
  <2>1. /\ pc[t] = "drain" /\ queue[t] # <<>> /\ Head(queue[t]).kind = "done"
        /\ working' = working /\ heard' = heard
    BY <1>5 DEF DrainEnd, Drains, agent
  <2>2. Reading(t) /\ Clean(t) /\ Once(t) /\ queue[t] \in Seq(Events)
    BY <1>1, <2>1 DEF Reading, TypeInv
  <2>3. PICK r \in Request : r = Head(queue[t]).of /\ Ends(Head(queue[t]), r)
    BY <1>1, <2>1, HeadTyped DEF Ends
  <2>4. EndIn(queue[t], r)
    BY <2>1, <2>2, <2>3, EndsOfTail
  <2>5. r = t \/ r \in Steer
    <3>1. Fits(Head(queue[t]), t, chan[t])
      BY <2>1, <2>2, EndsOfTail DEF Clean
    <3>2. QED BY <2>3, <3>1 DEF Fits
  <2>6. t \notin working
    <3>1. SUFFICES ASSUME t \in working PROVE FALSE
      OBVIOUS
    <3>2. IsFiniteSet(Due) /\ Cardinality(Due) <= 0
      BY <1>1, <1>5, <2>2, <3>1, NothingSpare DEF Own
    <3>3. Due = {}
      BY <3>2, FS_CardinalityType, FS_EmptySet
    <3>4. r = t
      BY <2>2, <2>4, <2>5, <3>3 DEF Due, Left
    <3>5. QED BY <2>2, <2>4, <3>1, <3>4 DEF Once
  <2>7. pc'[t] \in Over
    BY <1>1, <1>5, Steps DEF Over
  <2>8. QED BY <2>1, <2>2, <2>6, <2>7 DEF Clean
<1>6. \/ rows' = rows
      \/ \E row \in Rows : /\ rows' = Append(rows, row)
                           /\ \/ row.role # "assistant"
                              \/ /\ row.of \in Turn /\ pc'[row.of] \in Over
                                 /\ row.of \notin working' /\ heard'[row.of] \subseteq {row.of}
  <2>1. \A t \in Turn : mid[t] \in Nat /\ Reply(t) \in Nat /\ t \in Request
    BY <1>1 DEF TypeInv, TypeOK, Reply, Request
  <2>2. ASSUME NEW t \in Turn, PostAppend(t), rows' # rows
        PROVE  \E row \in Rows : rows' = Append(rows, row) /\ row.role # "assistant"
    <3>1. rows' = Append(rows, Row(mid[t], "user", t))
      BY <2>2 DEF PostAppend
    <3>2. Row(mid[t], "user", t) \in Rows /\ Row(mid[t], "user", t).role = "user"
      BY <2>1, RowTyped
    <3>3. QED BY <3>1, <3>2
  <2>3. ASSUME NEW t \in Turn, rows' = Append(rows, Row(Reply(t), "system", t))
        PROVE  \E row \in Rows : rows' = Append(rows, row) /\ row.role # "assistant"
    <3>1. Row(Reply(t), "system", t) \in Rows /\ Row(Reply(t), "system", t).role = "system"
      BY <2>1, RowTyped
    <3>2. QED BY <2>3, <3>1
  <2>4. ASSUME NEW s \in Steer, SteerStore(s)
        PROVE  \E row \in Rows : rows' = Append(rows, row) /\ row.role # "assistant"
    <3>1. rows' = Append(rows, Row(NextId, "steer", s))
      BY <2>4 DEF SteerStore
    <3>2. Row(NextId, "steer", s) \in Rows /\ Row(NextId, "steer", s).role = "steer"
      BY <1>1, NextIdTyped, RowTyped DEF Request
    <3>3. QED BY <3>1, <3>2
  <2>5. ASSUME NEW t \in Turn, DrainEnd(t), rows' = Append(rows, Row(Reply(t), "assistant", t)),
               steerPending = 0, Drains(t, {"done"})
        PROVE  \E row \in Rows : /\ rows' = Append(rows, row)
                                 /\ row.of \in Turn /\ pc'[row.of] \in Over
                                 /\ row.of \notin working' /\ heard'[row.of] \subseteq {row.of}
    <3>1. Row(Reply(t), "assistant", t) \in Rows /\ Row(Reply(t), "assistant", t).of = t
      BY <2>1, RowTyped
    <3>2. QED BY <1>5, <2>5, <3>1
  <2>6. ASSUME NEW t \in Turn, StartFailed(t)
        PROVE  rows' = rows \/ rows' = Append(rows, Row(Reply(t), "system", t))
    BY <2>6 DEF StartFailed, Stores
  <2>7. ASSUME NEW t \in Turn, DrainEnd(t)
        PROVE  \/ rows' = rows \/ rows' = Append(rows, Row(Reply(t), "system", t))
               \/ /\ rows' = Append(rows, Row(Reply(t), "assistant", t))
                  /\ steerPending = 0 /\ Drains(t, {"done"})
    BY <2>7 DEF DrainEnd, Stores
  <2>8. QED BY <2>2, <2>3, <2>4, <2>5, <2>6, <2>7, RowsFrame
<1>7. CASE rows' = rows
  BY <1>4, <1>7 DEF Replied
<1>8. ASSUME NEW row \in Rows, rows' = Append(rows, row),
             \/ row.role # "assistant"
             \/ /\ row.of \in Turn /\ pc'[row.of] \in Over
                /\ row.of \notin working' /\ heard'[row.of] \subseteq {row.of}
      PROVE  Replied'
  <2>1. /\ Len(rows) \in Nat /\ Len(rows') = Len(rows) + 1
        /\ \A i \in 1..Len(rows) : rows'[i] = rows[i]
        /\ rows'[Len(rows) + 1] = row
    BY <1>2, <1>8, AppendProperties, LenProperties
  <2>2. \A i \in 1..Len(rows') : (i \in 1..Len(rows) /\ rows'[i] = rows[i]) \/ rows'[i] = row
    BY <2>1
  <2>3. QED BY <1>4, <1>8, <2>2 DEF Replied
<1> QED BY <1>6, <1>7, <1>8

LEMMA CutStep ==
  CutInv /\ [Next]_vars => CutInv'
<1>1. ASSUME CutInv, Next
      PROVE  Based' /\ (~crossed' => Whole')
  <2>1. Based'
    BY <1>1, BasedStep DEF CutInv
  <2>2. ASSUME ~crossed', NEW t \in Turn, pc'[t] \in {"send", "wait", "refused", "drain"}
        PROVE  Clean(t)' /\ Once(t)'
    BY <1>1, <2>2, Ahead, ReadsAfresh, ReaderStep DEF CutInv
  <2>3. ~crossed' => \A t \in Turn : Reading(t)' => Clean(t)' /\ Once(t)'
    BY <2>2 DEF Reading
  <2>4. ~crossed' => Alone' /\ Counted' /\ Replied'
    BY <1>1, AloneStep, CountedStep, RepliedStep
  <2>5. QED BY <2>1, <2>3, <2>4 DEF Whole
<1>2. ASSUME CutInv, UNCHANGED vars
      PROVE  Based' /\ (crossed' = crossed) /\ (Whole => Whole')
  <2>1. Based'
    BY <1>2 DEF vars, drain, orbit, agent, handlers, CutInv, Based, Reading
  <2>2. \A t \in Turn : /\ Reading(t)' <=> Reading(t)
                        /\ Clean(t) => Clean(t)'
                        /\ Once(t) => Once(t)'
    BY <1>2 DEF vars, drain, orbit, agent, handlers, Reading, Clean, Once, OnWire, Only,
       AllFit, Fits, EndIn, EndsOnce, Ends
  <2>3. Due' = Due /\ (Spare => Spare') /\ steerPending' = steerPending
    BY <1>2 DEF vars, bridge, drain, orbit, agent, handlers, Due, Open, Left, Reading, Spare,
       Own, OnWire, EndIn, Ends
  <2>4. Counted => Counted'
    BY <2>3 DEF Counted
  <2>5. (Alone => Alone') /\ (Replied => Replied')
    BY <1>2 DEF vars, store, drain, agent, Alone, Active, Replied
  <2>6. crossed' = crossed
    BY <1>2 DEF vars, agent
  <2>7. QED BY <2>1, <2>2, <2>4, <2>5, <2>6 DEF Whole
<1> QED BY <1>1, <1>2, PromptStep DEF CutInv

LEMMA CutStart ==
  Init => CutInv
<1> SUFFICES ASSUME Init PROVE CutInv
  OBVIOUS
<1>1. PromptInv
  BY PromptStart
<1>2. /\ \A t \in Turn : pc[t] = "idle" /\ queue[t] = <<>> /\ heard[t] = {}
      /\ relay = {} /\ working = {} /\ rows = <<>>
      /\ \A s \in Steer : steer[s] = "idle"
  BY DEF Init
<1>3. Based
  BY <1>2 DEF Based, Reading
<1>4. Alone /\ \A t \in Turn : ~Reading(t)
  BY <1>2 DEF Alone, Active, Reading
<1>5. Due = {}
  BY <1>2, <1>4 DEF Due, Open, Left
<1>6. Counted
  <2>1. IsFiniteSet(Due) /\ Cardinality(Due) = 0 /\ steerPending = 0
    BY <1>5, FS_EmptySet DEF Init
  <2>2. QED BY <2>1 DEF Counted
<1>7. Replied
  <2>1. \A i \in 1..Len(rows) : FALSE
    BY <1>2, EmptySeq
  <2>2. QED BY <2>1 DEF Replied
<1> QED BY <1>1, <1>3, <1>4, <1>6, <1>7 DEF CutInv, Whole

(* While turns do not cross, a reply is stored only when the agent has
   finished with its prompt, however many steers were acknowledged meanwhile
   and whichever of the done events was taken for whose; and it holds no other
   turn's text. *)
THEOREM RepliesAreWhole == Spec => []NotCutShort
<1>1. CutInv => NotCutShort
  <2>1. SUFFICES ASSUME CutInv, ~crossed PROVE NotCutShort
    BY DEF NotCutShort
  <2>2. Replied /\ rows \in Seq(Rows)
    BY <2>1 DEF CutInv, Whole, PromptInv, TypeInv, TypeOK, Rows
  <2>3. DOMAIN rows = 1..Len(rows)
    BY <2>2, LenProperties
  <2>4. QED BY <2>2, <2>3 DEF Replied, NotCutShort
<1>2. QED BY <1>1, CutStart, CutStep, PTL DEF Spec

=============================================================================
