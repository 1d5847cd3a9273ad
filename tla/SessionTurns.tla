----------------------------- MODULE SessionTurns -----------------------------
(***************************************************************************)
(* The turns of one managed session on Axis: POST /messages and the task   *)
(* it spawns, POST /steer, POST /cancel, and the BridgeManager's           *)
(* bookkeeping they share.                                                 *)
(*                                                                         *)
(* A turn's task subscribes to the agent's event stream, sends the prompt  *)
(* and drains the stream up to a terminal event.  The agent runs either on *)
(* a connected Orbit (RemoteRuntime: the prompt's response comes when the  *)
(* Orbit's own drain has forwarded a terminal event) or in the Axis        *)
(* process (the response comes when the prompt is written).  A stream is a *)
(* broadcast channel that keeps Cap events and drops the oldest; it is     *)
(* held open by the task itself, so it never ends.                         *)
(*                                                                         *)
(* Abstracted: titles, setup materialisation, tool calls and reasoning     *)
(* (events that, like text, only feed the reply), and the Orbit's spool,   *)
(* which EventTransport has.                                               *)
(***************************************************************************)
EXTENDS Integers, Sequences, FiniteSets, SequencesExt

CONSTANTS
  Turn,        \* the prompts posted to the session
  Steer,       \* the steers posted to it
  None,        \* no request, no channel
  Cap,         \* events a broadcast channel keeps
  Happens,     \* what the environment does, see below
  MaxConn      \* bound: connections the Orbit opens

(* "overlap": a client posts while a turn is in flight; "cancel"; "ask": the
   agent requests a permission; "fail": a start, a write or the agent's turn
   fails; "io": the log refuses an append; "disconnect": the Orbit's
   connection is lost. *)
ASSUME TurnsAssumption ==
  /\ Turn \cap Steer = {} /\ None \notin Turn \cup Steer
  /\ Cap \in Nat \ {0} /\ MaxConn \in Nat

Request == Turn \cup Steer
Local == 0                       \* the channel of the in-process runtime

VARIABLES
  \* the log and the views
  rows,        \* Seq, the MessageAppended events, in order
  view,        \* ids of the messages the MessageView holds
  \* the BridgeManager
  inFlight,    \* the session is in in_flight
  steerPending,\* its count in steer_pending
  awaiting,    \* its entry in awaiting_input: a request, or None
  hosted,      \* the in-process RuntimeTable has its runtime
  \* the turns' handlers and tasks
  pc,          \* [Turn -> where it is]
  mid,         \* [Turn -> next_id; the reply's id is one more]
  chan,        \* [Turn -> the channel of the runtime it uses, or None]
  queue,       \* [Turn -> Seq of events, received and not yet drained]
  muted,       \* [Turn -> suppressing_steer_ack]
  heard,       \* [Turn -> requests whose text is in assistant_text]
  endedBy,     \* history: [Turn -> request whose event ended it, or None]
  signalled,   \* history: turns whose message.done was broadcast
  \* the steer and cancel handlers
  steer,       \* [Steer -> where its handler is]
  cancel,      \* where the handler of the session's cancel is (bound: one)
  \* the agents and the Orbit
  link,        \* the Orbit's connection, Local when there is none
  opened,      \* connections opened so far
  wire,        \* Seq, frames from the Orbit that Axis has not read
  backlog,     \* Seq, events in the Orbit's spool for the next connection
  relay,       \* turns whose prompt the Orbit drains (send_and_stream)
  working,     \* requests an agent is working on
  spoke,       \* requests it has answered with text
  asked,       \* requests that wait for a permission decision
  crossed      \* history: a turn began before an earlier one and its
               \* events were over

store == <<rows, view>>
bridge == <<inFlight, steerPending, awaiting, hosted>>
drain == <<queue, muted, heard, endedBy>>
handlers == <<steer, cancel>>
orbit == <<link, opened, wire, backlog, relay>>
agent == <<working, spoke, asked, crossed>>
vars == <<store, bridge, pc, mid, chan, drain, signalled, handlers, orbit, agent>>

(***************************************************************************)
(* Helpers                                                                 *)
(***************************************************************************)
Row(id, role, of) == [id |-> id, role |-> role, of |-> of]
Event(kind, of) == [kind |-> kind, of |-> of]

(* max(existing message_id) + 1, over the messages of the view. *)
NextId == IF view = {} THEN 0 ELSE Max(view) + 1

Reply(t) == mid[t] + 1           \* assistant_seed_id

(* A broadcast channel keeps the last Cap events of a slow subscriber; the
   stream skips the Lagged error. *)
Received(q, e) == IF Len(q) < Cap THEN Append(q, e) ELSE Append(Tail(q), e)

(* Every subscriber of channel c receives e. *)
Broadcast(c, e) ==
  [t \in Turn |-> IF chan[t] = c /\ pc[t] \in {"send", "wait", "drain"}
                  THEN Received(queue[t], e) ELSE queue[t]]

IsTerminal(e) == e.kind \in {"done", "error"}
IsEvent(f) == f.kind \notin {"resp", "refused"}

(* The events among the frames that Axis has not read, in their order. *)
Unread ==
  LET at == {i \in DOMAIN wire : IsEvent(wire[i])}
  IN [k \in 1..Cardinality(at) |->
        wire[CHOOSE i \in at : Cardinality({j \in at : j <= i}) = k]]

(* An event of the Orbit's agent is spooled and written once by every drain
   of the session. *)
Copies(e) == [i \in 1..Cardinality(relay) |-> e]

(* A drain writes to the connection its Prompt came on. *)
Live == {t \in relay : chan[t] = link}

(* A terminal event ends the drains, and each answers its Prompt. *)
Responses == LET ts == SetToSeq(Live) IN [i \in DOMAIN ts |-> Event("resp", ts[i])]

Usable(t) == chan[t] \in {Local, link}

Goes(t, from, to) == pc[t] = from /\ pc' = [pc EXCEPT ![t] = to]

(***************************************************************************)
(* Initial state                                                           *)
(***************************************************************************)
Init ==
  /\ rows = <<>> /\ view = {}
  /\ inFlight = FALSE /\ steerPending = 0 /\ awaiting = None /\ hosted = FALSE
  /\ pc = [t \in Turn |-> "idle"] /\ mid = [t \in Turn |-> 0]
  /\ chan = [t \in Turn |-> None]
  /\ queue = [t \in Turn |-> <<>>] /\ muted = [t \in Turn |-> FALSE]
  /\ heard = [t \in Turn |-> {}] /\ endedBy = [t \in Turn |-> None]
  /\ signalled = {}
  /\ steer = [s \in Steer |-> "idle"] /\ cancel = "idle"
  /\ link = Local /\ opened = 0 /\ wire = <<>> /\ backlog = <<>>
  /\ relay = {}
  /\ working = {} /\ spoke = {} /\ asked = {} /\ crossed = FALSE

(***************************************************************************)
(* POST /messages                                                          *)
(***************************************************************************)
(* The handler takes the next message id under the views' read lock. *)
PostRead(t) ==
  /\ Goes(t, "idle", "read")
  /\ "overlap" \notin Happens =>
       ~inFlight /\ \A u \in Turn : pc[u] \notin {"read", "stored", "applied"}
  /\ mid' = [mid EXCEPT ![t] = NextId]
  /\ crossed' = (crossed \/ \E u \in Turn : pc[u] \notin {"idle", "ended"})
  /\ UNCHANGED <<store, bridge, chan, drain, signalled, handlers, orbit, working,
                 spoke, asked>>

(* append_user_message. A refused append is logged, and the turn goes on. *)
PostAppend(t) ==
  /\ \/ /\ Goes(t, "read", "stored")
        /\ rows' = Append(rows, Row(mid[t], "user", t))
     \/ /\ "io" \in Happens
        /\ Goes(t, "read", "applied")
        /\ UNCHANGED rows
  /\ UNCHANGED <<view, bridge, mid, chan, drain, signalled, handlers, orbit, agent>>

(* The event reaches the views under their write lock. *)
PostApply(t) ==
  /\ Goes(t, "stored", "applied")
  /\ view' = view \cup {mid[t]}
  /\ UNCHANGED <<rows, bridge, mid, chan, drain, signalled, handlers, orbit, agent>>

(* mark_in_flight; the task is spawned and 202 returned. *)
PostMark(t) ==
  /\ Goes(t, "applied", "start")
  /\ inFlight' = TRUE
  /\ UNCHANGED <<store, steerPending, awaiting, hosted, mid, chan, drain,
                 signalled, handlers, orbit, agent>>

(***************************************************************************)
(* The turn's task                                                         *)
(***************************************************************************)
(* A connected node's Orbit runs the session; a session without a node runs
   in the Axis process when no Orbit is connected; one whose node is not
   connected fails. *)
Route(t) ==
  /\ \/ Goes(t, "start", "ensure") /\ chan' = [chan EXCEPT ![t] = link]
     \/ link = Local /\ Goes(t, "start", "failed") /\ UNCHANGED chan
  /\ UNCHANGED <<store, bridge, mid, drain, signalled, handlers, orbit, agent>>

(* EnsureRuntime succeeded; the task subscribes to the runtime's events. *)
Ensured(t) ==
  /\ Usable(t)
  /\ Goes(t, "ensure", "send")
  /\ hosted' = (hosted \/ chan[t] = Local)
  /\ crossed' = (crossed \/ working \cap Turn # {} \/ wire # <<>> \/ backlog # <<>>)
  /\ UNCHANGED <<store, inFlight, steerPending, awaiting, mid, chan, drain,
                 signalled, handlers, orbit, working, spoke, asked>>

EnsureFails(t) ==
  /\ "fail" \in Happens \/ ~Usable(t)
  /\ Goes(t, "ensure", "failed")
  /\ UNCHANGED <<store, bridge, mid, chan, drain, signalled, handlers, orbit, agent>>

(* Fault: message.done goes out with the append, before the views have it. *)
StoresBroadcasting(t, from, role) ==
  /\ Goes(t, from, "reply")
  /\ rows' = Append(rows, Row(Reply(t), role, t))
  /\ signalled' = signalled \cup {t}

(* A final row under the reply's id; when the log refuses it, only the
   message.done frame goes out. *)
Stores(t, from, role) ==
  \/ /\ Goes(t, from, "reply")
     /\ rows' = Append(rows, Row(Reply(t), role, t))
     /\ UNCHANGED signalled
  \/ /\ "io" \in Happens
     /\ Goes(t, from, "clear")
     /\ signalled' = signalled \cup {t}
     /\ UNCHANGED rows

(* append_system_message for a runtime that could not be started. *)
StartFailed(t) ==
  /\ Stores(t, "failed", "system")
  /\ UNCHANGED <<view, bridge, mid, chan, drain, handlers, orbit, agent>>

(* The prompt is sent. In the process the call returns when it is written;
   through an Orbit it waits for the Prompt's response. *)
Send(t) ==
  /\ Usable(t)
  /\ IF chan[t] = Local
     THEN Goes(t, "send", "drain") /\ UNCHANGED relay
     ELSE Goes(t, "send", "wait") /\ relay' = relay \cup {t}
  /\ working' = working \cup {t}
  /\ UNCHANGED <<store, bridge, mid, chan, drain, signalled, handlers, link,
                 opened, wire, backlog, spoke, asked, crossed>>

(* Fault: the failed send returns without clearing the mark. *)
SendFailsForgetful(t) ==
  /\ \/ Goes(t, "send", "ended") /\ ("fail" \in Happens \/ ~Usable(t))
     \/ Goes(t, "wait", "ended") /\ ~Usable(t)
     \/ Goes(t, "refused", "ended")
  /\ signalled' = signalled \cup {t}
  /\ UNCHANGED <<store, bridge, mid, chan, drain, handlers, orbit, agent>>

(* Fault: the end of a connection fails no pending request. *)
SendFailsUnfailed(t) ==
  /\ \/ Goes(t, "send", "clear") /\ ("fail" \in Happens \/ ~Usable(t))
     \/ Goes(t, "refused", "clear")
  /\ signalled' = signalled \cup {t}
  /\ UNCHANGED <<store, bridge, mid, chan, drain, handlers, orbit, agent>>

(* The write failed, the Orbit answered with an error, or its connection was
   lost: message.done is broadcast and nothing is stored. *)
SendFails(t) ==
  /\ \/ Goes(t, "send", "clear") /\ ("fail" \in Happens \/ ~Usable(t))
     \/ Goes(t, "wait", "clear") /\ ~Usable(t)
     \/ Goes(t, "refused", "clear")
  /\ signalled' = signalled \cup {t}
  /\ UNCHANGED <<store, bridge, mid, chan, drain, handlers, orbit, agent>>

Drains(t, kinds) == pc[t] = "drain" /\ queue[t] # <<>> /\ Head(queue[t]).kind \in kinds
Consumes(t) == queue' = [queue EXCEPT ![t] = Tail(@)]

(* Text joins the reply; while a steer's acknowledgement is consumed it is
   dropped, and the acknowledgement's own text starts that. *)
DrainText(t) ==
  /\ Drains(t, {"text", "ack"})
  /\ Consumes(t)
  /\ LET e == Head(queue[t]) IN
       IF e.kind = "ack" \/ muted[t]
       THEN muted' = [muted EXCEPT ![t] = TRUE] /\ UNCHANGED heard
       ELSE heard' = [heard EXCEPT ![t] = @ \cup {e.of}] /\ UNCHANGED muted
  /\ UNCHANGED <<store, bridge, pc, mid, chan, endedBy, signalled, handlers, orbit, agent>>

(* The first AwaitingInput arm of the match only writes to the session's log
   panel; the arm that calls mark_awaiting_input comes after it and is never
   reached. *)
DrainAsk(t) ==
  /\ Drains(t, {"ask"})
  /\ Consumes(t)
  /\ UNCHANGED <<store, bridge, pc, mid, chan, muted, heard, endedBy, signalled,
                 handlers, orbit, agent>>

(* take_steer_pending: the Done is taken for a steer's acknowledgement. *)
DrainSteerAck(t) ==
  /\ Drains(t, {"done"}) /\ steerPending > 0
  /\ Consumes(t)
  /\ steerPending' = steerPending - 1
  /\ muted' = [muted EXCEPT ![t] = FALSE]
  /\ UNCHANGED <<store, inFlight, awaiting, hosted, pc, mid, chan, heard, endedBy,
                 signalled, handlers, orbit, agent>>

(* A terminal event: the reply, or the error, is stored first. *)
DrainEnd(t) ==
  /\ \/ Drains(t, {"done"}) /\ steerPending = 0 /\ Stores(t, "drain", "assistant")
     \/ Drains(t, {"error"}) /\ Stores(t, "drain", "system")
  /\ Consumes(t)
  /\ endedBy' = [endedBy EXCEPT ![t] = Head(queue[t]).of]
  /\ UNCHANGED <<view, bridge, mid, chan, muted, heard, handlers, orbit, agent>>

(* The stored row reaches the views, and message.done goes out. *)
Signal(t) ==
  /\ Goes(t, "reply", "clear")
  /\ view' = view \cup {Reply(t)}
  /\ signalled' = signalled \cup {t}
  /\ UNCHANGED <<rows, bridge, mid, chan, drain, handlers, orbit, agent>>

(* clear_in_flight and, after a drain, clear_awaiting_input. *)
Clear(t) ==
  /\ Goes(t, "clear", "ended")
  /\ inFlight' = FALSE
  /\ awaiting' = IF endedBy[t] # None THEN None ELSE awaiting
  /\ UNCHANGED <<store, steerPending, hosted, mid, chan, drain, signalled,
                 handlers, orbit, agent>>

(***************************************************************************)
(* POST /steer and POST /cancel                                            *)
(***************************************************************************)
SteerGoes(s, from, to) == steer[s] = from /\ steer' = [steer EXCEPT ![s] = to]

(* 409 unless a turn is in flight. *)
SteerGate(s) ==
  /\ inFlight
  /\ SteerGoes(s, "idle", "gated")
  /\ UNCHANGED <<store, bridge, pc, mid, chan, drain, signalled, cancel, orbit, agent>>

(* Fault: the acknowledgement is not counted. *)
SteerMarkUncounted(s) ==
  /\ IF hosted THEN SteerGoes(s, "gated", "marked") ELSE SteerGoes(s, "gated", "ended")
  /\ UNCHANGED <<store, bridge, pc, mid, chan, drain, signalled, cancel, orbit, agent>>

(* The runtime is looked up in the process's own table, 409 when it has none;
   the acknowledgement is marked pending before the steer is sent. *)
SteerMark(s) ==
  /\ IF hosted
     THEN SteerGoes(s, "gated", "marked") /\ steerPending' = steerPending + 1
     ELSE SteerGoes(s, "gated", "ended") /\ UNCHANGED steerPending
  /\ UNCHANGED <<store, inFlight, awaiting, hosted, pc, mid, chan, drain,
                 signalled, cancel, orbit, agent>>

(* A steer that cannot be sent answers 500; its mark stays. *)
SteerSend(s) ==
  /\ \/ SteerGoes(s, "marked", "sent") /\ working' = working \cup {s}
     \/ "fail" \in Happens /\ SteerGoes(s, "marked", "ended") /\ UNCHANGED working
  /\ UNCHANGED <<store, bridge, pc, mid, chan, drain, signalled, cancel,
                 orbit, spoke, asked, crossed>>

(* append_steer_message under the next message id of the view. *)
SteerStore(s) ==
  /\ SteerGoes(s, "sent", "ended")
  /\ rows' = Append(rows, Row(NextId, "steer", s))
  /\ view' = view \cup {NextId}
  /\ UNCHANGED <<bridge, pc, mid, chan, drain, signalled, cancel, orbit, agent>>

(* A runtime of the process is told to cancel, which its agent answers by
   ending the prompt; a runtime on an Orbit is not in the table. *)
CancelSend ==
  /\ "cancel" \in Happens /\ inFlight
  /\ cancel = "idle" /\ cancel' = "sent"
  /\ UNCHANGED <<store, bridge, pc, mid, chan, drain, signalled, steer, orbit, agent>>

CancelClear ==
  /\ cancel = "sent" /\ cancel' = "ended"
  /\ inFlight' = FALSE
  /\ UNCHANGED <<store, steerPending, awaiting, hosted, pc, mid, chan, drain,
                 signalled, steer, orbit, agent>>

(***************************************************************************)
(* The agents and the Orbit                                                *)
(***************************************************************************)
OnOrbit(r) == r \in Turn /\ chan[r] # Local

Emits(r, kind) ==
  IF ~OnOrbit(r)
  THEN queue' = Broadcast(Local, Event(kind, r)) /\ UNCHANGED <<wire, backlog, relay>>
  ELSE LET e == Event(kind, r) IN
       /\ IF link = Local
          THEN backlog' = backlog \o Copies(e) /\ UNCHANGED wire
          ELSE /\ wire' = wire \o Copies(e) \o (IF IsTerminal(e) THEN Responses ELSE <<>>)
               /\ UNCHANGED backlog
       /\ relay' = IF IsTerminal(e) THEN {} ELSE Live
       /\ UNCHANGED queue

(* An agent answers a prompt with text, a steer with its acknowledgement. *)
AgentText(r) ==
  /\ r \in working \ spoke
  /\ spoke' = spoke \cup {r}
  /\ Emits(r, IF r \in Steer THEN "ack" ELSE "text")
  /\ UNCHANGED <<store, bridge, pc, mid, chan, muted, heard, endedBy, signalled,
                 handlers, link, opened, working, asked, crossed>>

AgentAsk(r) ==
  /\ "ask" \in Happens
  /\ r \in (working \cap Turn) \ asked
  /\ asked' = asked \cup {r}
  /\ Emits(r, "ask")
  /\ UNCHANGED <<store, bridge, pc, mid, chan, muted, heard, endedBy, signalled,
                 handlers, link, opened, working, spoke, crossed>>

(* The response to the prompt: Done with its stop reason, or an error. *)
AgentEnds(r) ==
  /\ r \in working \ asked
  /\ working' = working \ {r}
  /\ \/ Emits(r, "done")
     \/ "fail" \in Happens /\ Emits(r, "error")
  /\ UNCHANGED <<store, bridge, pc, mid, chan, muted, heard, endedBy, signalled,
                 handlers, link, opened, spoke, asked, crossed>>

(* The Orbit's drain fails, on a full spool: the Prompt is answered with an
   error while the agent works on. *)
RelayFails(t) ==
  /\ "fail" \in Happens
  /\ t \in Live
  /\ relay' = relay \ {t}
  /\ wire' = Append(wire, Event("refused", t))
  /\ UNCHANGED <<store, bridge, pc, mid, chan, drain, signalled, handlers, link,
                 opened, backlog, agent>>

(* Axis reads a frame: an event goes to the session's channel on this
   connection, a response to the request that waits for it. *)
AxisRead ==
  /\ wire # <<>>
  /\ wire' = Tail(wire)
  /\ LET f == Head(wire) IN
       IF f.kind \in {"resp", "refused"}
       THEN /\ pc' = [pc EXCEPT ![f.of] = IF f.kind = "resp" THEN "drain" ELSE "refused"]
            /\ UNCHANGED queue
       ELSE queue' = Broadcast(link, f) /\ UNCHANGED pc
  /\ UNCHANGED <<store, bridge, mid, chan, muted, heard, endedBy, signalled,
                 handlers, link, opened, backlog, relay, agent>>

(* A new connection begins with a replay of the spool. *)
Connect ==
  /\ link = Local /\ opened < MaxConn
  /\ opened' = opened + 1 /\ link' = opened'
  /\ wire' = backlog /\ backlog' = <<>>
  /\ UNCHANGED <<store, bridge, pc, mid, chan, drain, signalled, handlers, relay, agent>>

(* The connection is lost with the frames on it: the responses for good, the
   events stay in the spool. The Orbit's drains fail at their next write. *)
Disconnect ==
  /\ "disconnect" \in Happens /\ link # Local
  /\ link' = Local /\ wire' = <<>>
  /\ backlog' = backlog \o Unread
  /\ UNCHANGED <<store, bridge, pc, mid, chan, drain, signalled, handlers, opened,
                 relay, agent>>

(***************************************************************************)
(* Specification                                                           *)
(***************************************************************************)
Task(t) ==
  \/ PostAppend(t) \/ PostApply(t) \/ PostMark(t)
  \/ Route(t) \/ Ensured(t) \/ EnsureFails(t) \/ StartFailed(t)
  \/ Send(t) \/ SendFails(t)
  \/ DrainText(t) \/ DrainAsk(t) \/ DrainSteerAck(t) \/ DrainEnd(t)
  \/ Signal(t) \/ Clear(t)

SteerHandler(s) == SteerMark(s) \/ SteerSend(s) \/ SteerStore(s)

Next ==
  \/ \E t \in Turn : PostRead(t) \/ Task(t) \/ RelayFails(t)
  \/ \E s \in Steer : SteerGate(s) \/ SteerHandler(s)
  \/ CancelSend \/ CancelClear
  \/ \E r \in Request : AgentText(r) \/ AgentAsk(r) \/ AgentEnds(r)
  \/ AxisRead \/ Connect \/ Disconnect

Spec == Init /\ [][Next]_vars

(* Handlers and tasks run on; the connection is read; an agent answers every
   prompt and steer in the end. *)
FairSpec ==
  /\ Spec
  /\ \A t \in Turn : WF_vars(Task(t))
  /\ \A s \in Steer : WF_vars(SteerHandler(s))
  /\ WF_vars(CancelClear) /\ WF_vars(AxisRead)
  /\ \A r \in Request : WF_vars(AgentEnds(r))

(***************************************************************************)
(* Properties                                                              *)
(***************************************************************************)
Places == {"idle", "read", "stored", "applied", "start", "ensure", "failed",
           "send", "wait", "refused", "drain", "reply", "clear", "ended"}

(* Every variable has its type. *)
TypeOK ==
  /\ rows \in Seq([id : Nat, role : {"user", "steer", "assistant", "system"}, of : Request])
  /\ view \subseteq Nat
  /\ inFlight \in BOOLEAN /\ steerPending \in Nat
  /\ awaiting \in Request \cup {None} /\ hosted \in BOOLEAN
  /\ pc \in [Turn -> Places] /\ mid \in [Turn -> Nat]
  /\ chan \in [Turn -> (0..MaxConn) \cup {None}]
  /\ \A t \in Turn : Len(queue[t]) <= Cap
  /\ muted \in [Turn -> BOOLEAN] /\ heard \in [Turn -> SUBSET Request]
  /\ endedBy \in [Turn -> Request \cup {None}] /\ signalled \subseteq Turn
  /\ steer \in [Steer -> {"idle", "gated", "marked", "sent", "ended"}]
  /\ cancel \in {"idle", "sent", "ended"}
  /\ link \in 0..opened /\ opened \in 0..MaxConn /\ relay \subseteq Turn
  /\ working \subseteq Request /\ spoke \subseteq Request /\ asked \subseteq Turn
  /\ crossed \in BOOLEAN

Posting == {"idle", "read", "stored", "applied"}
Over == {"reply", "clear", "ended"}

(* The session is shown as running only while some turn's task has still to
   clear the mark: no way out of the task leaves it behind. *)
MarkBelongsToTurn == inFlight => \E t \in Turn : pc[t] \notin Posting \cup {"ended"}

(* A turn that ended on its agent's event is signalled after its row is in
   the log and in the views, so a client that refetches finds it. *)
StoredFirst ==
  "io" \notin Happens =>
    \A t \in signalled : endedBy[t] # None =>
      /\ Reply(t) \in view
      /\ \E i \in DOMAIN rows : rows[i].id = Reply(t) /\ rows[i].of = t

(* While turns do not cross, a reply is stored only when the agent has finished
   with its prompt, whatever steers were acknowledged meanwhile, and it holds
   no other turn's text. (An error ends a turn as it comes, a steer's too.) *)
NotCutShort ==
  ~crossed => \A i \in DOMAIN rows : rows[i].role = "assistant" =>
                /\ rows[i].of \notin working
                /\ heard[rows[i].of] \subseteq {rows[i].of}

(* When turns never cross, nobody steers and the agent asks for nothing, every
   turn that was accepted ends. *)
Calm == ~crossed /\ asked = {} /\ \A s \in Steer : steer[s] = "idle"
CalmTurnsEnd == []Calm => \A t \in Turn : pc[t] = "start" ~> pc[t] = "ended"

(* Claim of the source: a permission that the agent asks for is recorded, "so
   /permission can answer it" (sessions.rs), once the turn has read the event. *)
AskedIsAwaiting ==
  \A t \in asked : pc[t] = "drain" /\ chan[t] = Local /\ queue[t] = <<>> => awaiting = t
=============================================================================
