---------------------------- MODULE EventTransport ----------------------------
(***************************************************************************)
(* The event path from an agent runtime or a job on an Orbit to Axis.      *)
(*                                                                         *)
(*   runtime --broadcast--> drain task --append_next--> EventSpool (SQLite) *)
(*   drain task, periodic replay task, ResumeFrom task --> one connection  *)
(*   connection --> Axis read loop --> sequence gate --> consumer          *)
(*   Axis --Ack, ResumeFrom--> Orbit read loop --> EventSpool              *)
(*                                                                         *)
(* A connection is an ordered byte stream each way that holds at most      *)
(* WireCap frames per direction: a writer waits when it is full, as it     *)
(* does on a socket.  The Orbit works on one connection at a time; Axis    *)
(* may still be reading an old one when the next is up.                    *)
(*                                                                         *)
(* A frame is its session, its sequence number and the ordinal of the      *)
(* event it carries; every frame weighs one unit of the spool's capacity.  *)
(***************************************************************************)
EXTENDS Integers, Sequences, FiniteSets

CONSTANTS
  Session,      \* sessions and job attempts that produce events
  Jobs,         \* those of Session that are job attempts
  Task,         \* drain tasks the Orbit may run at once, over all sessions
  Cap,          \* spool capacity of a session, in frames
  WireCap,      \* frames a connection holds in one direction
  MaxEvents,    \* bound: events one session's producer emits
  MaxConn,      \* bound: connections the Orbit opens
  MaxFaults     \* bound: transient failures of an Axis transaction

ASSUME TransportAssumption ==
  /\ Jobs \subseteq Session
  /\ Cap \in Nat /\ WireCap \in Nat /\ MaxEvents \in Nat
  /\ MaxConn \in Nat /\ MaxFaults \in Nat

VARIABLES
  \* the producers: runtime children and job processes
  emitted,      \* [Session -> Nat], events broadcast so far
  working,      \* [Session -> BOOLEAN], a turn or a job is in progress
  ended,        \* [Session -> SUBSET Nat], the events that ended a turn
  \* the Orbit's durable spool
  nextSeq,      \* execution_sequences.next_seq
  spool,        \* execution_events, the rows not acknowledged
  journal,      \* history: the event committed under each sequence number
  \* the Orbit's tasks
  link,         \* the connection the Orbit works on, 0 when it has none
  opened,       \* connections opened so far
  drain,        \* [Task -> drain task], send_and_stream or a job's spooler
  replay,       \* the periodic replay task of the current connection
  resume,       \* [Session -> ResumeFrom task of the current connection]
  \* the connections
  upWire,       \* [Conn -> Seq], frames on their way to Axis
  downWire,     \* [Conn -> Seq], frames on their way to the Orbit
  \* Axis
  reading,      \* [Conn -> BOOLEAN], handle_orbit_conn runs on it
  applying,     \* [Conn -> what that handler has still to answer, or None]
  subscriber,   \* [Session -> connection whose channel the latest turn
                \*  listens on, and the last event before that turn]
  watermark,    \* [Session -> orbit_watermarks.seq, -1 when there is no row]
  accepted,     \* [Session -> Seq], history: events the gate accepted
  delivered,    \* [Session -> Seq], the frames that reached their consumer,
                \*  with the turn that was listening
  faults        \* transient failures so far

producerVars == <<emitted, working, ended>>
spoolVars    == <<nextSeq, spool, journal>>
linkVars     == <<link, opened>>
taskVars     == <<drain, replay, resume>>
wireVars     == <<upWire, downWire>>
axisVars     == <<reading, applying, subscriber, watermark, accepted, delivered,
                  faults>>
vars == <<producerVars, spoolVars, linkVars, taskVars, wireVars, axisVars>>

Conn == 1..MaxConn
None == [kind |-> "none"]

Frame    == [kind : {"frame"}, s : Session, seq : Nat, ev : Nat]
Hello    == [kind : {"hello"}, known : SUBSET Session]
\* own: the identity is the one the spool files the session's frames under.
AckMsg   == [kind : {"ack"}, s : Session, own : BOOLEAN, seq : Nat]
ResumeMsg == [kind : {"resume"}, s : Session, after : Int]
UpMsg    == Frame \cup Hello
DownMsg  == AckMsg \cup ResumeMsg

FrameOf(s, q, e) == [kind |-> "frame", s |-> s, seq |-> q, ev |-> e]

IdleTask   == [st |-> "idle"]
DrainTask  ==
  {IdleTask}
  \cup [st : {"recv"}, s : Session, pos : Nat, conn : Nat]
  \cup [st : {"send"}, s : Session, pos : Nat, conn : Nat, frame : Frame]
ReplayTask == [sentThrough : [Session -> Int], batch : SUBSET Frame]
ResumeTask ==
  {IdleTask}
  \cup [st : {"read"}, after : Int]
  \cup [st : {"send"}, batch : SUBSET Frame]

\* What a connection's handler on Axis owes: the ResumeFrom frames after a
\* Hello, or the Ack of a frame.
Answer   == {None} \cup [kind : {"hello"}, todo : SUBSET Session]
                  \cup [kind : {"ack"}, frame : Frame]
Listener == [conn : 0..MaxConn, turn : Nat]
Delivery == [frame : Frame, turn : Nat]

FreshReplay == [sentThrough |-> [s \in Session |-> -1], batch |-> {}]
FreshResume == [s \in Session |-> IdleTask]

NoListener == [conn |-> 0, turn |-> 0]

\* The row that a task which walks its rows in sequence order sends next.
First(F) == {f \in F : \A g \in F : f.seq <= g.seq}

Room(w) == Len(w) < WireCap

TypeOK ==
  /\ emitted \in [Session -> Nat]
  /\ working \in [Session -> BOOLEAN]
  /\ ended \in [Session -> SUBSET Nat]
  /\ nextSeq \in [Session -> Nat]
  /\ spool \in [Session -> SUBSET Frame]
  /\ journal \in [Session -> Seq(Nat)]
  /\ link \in 0..MaxConn
  /\ opened \in 0..MaxConn
  /\ drain \in [Task -> DrainTask]
  /\ replay \in ReplayTask
  /\ resume \in [Session -> ResumeTask]
  /\ upWire \in [Conn -> Seq(UpMsg)]
  /\ downWire \in [Conn -> Seq(DownMsg)]
  /\ reading \in [Conn -> BOOLEAN]
  /\ applying \in [Conn -> Answer]
  /\ subscriber \in [Session -> Listener]
  /\ watermark \in [Session -> Int]
  /\ accepted \in [Session -> Seq(Nat)]
  /\ delivered \in [Session -> Seq(Delivery)]
  /\ faults \in Nat

Init ==
  /\ emitted = [s \in Session |-> 0]
  /\ working = [s \in Session |-> FALSE]
  /\ ended = [s \in Session |-> {}]
  /\ nextSeq = [s \in Session |-> 0]
  /\ spool = [s \in Session |-> {}]
  /\ journal = [s \in Session |-> <<>>]
  /\ link = 0
  /\ opened = 0
  /\ drain = [t \in Task |-> IdleTask]
  /\ replay = FreshReplay
  /\ resume = FreshResume
  /\ upWire = [c \in Conn |-> <<>>]
  /\ downWire = [c \in Conn |-> <<>>]
  /\ reading = [c \in Conn |-> FALSE]
  /\ applying = [c \in Conn |-> None]
  /\ subscriber = [s \in Session |-> NoListener]
  /\ watermark = [s \in Session |-> -1]
  /\ accepted = [s \in Session |-> <<>>]
  /\ delivered = [s \in Session |-> <<>>]
  /\ faults = 0
-----------------------------------------------------------------------------
(***************************************************************************)
(* Producers and drain tasks.                                              *)
(***************************************************************************)

\* Axis has taken the connection's Hello, so it may send requests on it.
Registered(c) == reading[c] /\ \A i \in DOMAIN upWire[c] : upWire[c][i].kind # "hello"

\* Axis sends a Prompt (or, for a job, the DispatchJob) over the connection:
\* a drain task subscribes to the producer from its next event on, and a turn
\* on Axis listens on that connection's event channel.  A job runs once.
StartWork(t, s) ==
  /\ link # 0 /\ Registered(link) /\ drain[t] = IdleTask
  /\ s \in Jobs => emitted[s] = 0 /\ ~working[s]
  /\ emitted[s] < MaxEvents
  /\ drain' = [drain EXCEPT ![t] =
                 [st |-> "recv", s |-> s, pos |-> emitted[s], conn |-> link]]
  /\ working' = [working EXCEPT ![s] = TRUE]
  /\ subscriber' = [subscriber EXCEPT ![s] = [conn |-> link, turn |-> emitted[s]]]
  /\ UNCHANGED <<emitted, ended, spoolVars, linkVars, replay, resume, wireVars,
                 reading, applying, watermark, accepted, delivered, faults>>

\* The producer broadcasts an event; the terminal one (Done, Error, a job's
\* result) ends the turn.  The last event within the bound is terminal.
Emit(s, terminal) ==
  /\ working[s] /\ emitted[s] < MaxEvents
  /\ emitted[s] = MaxEvents - 1 => terminal
  /\ emitted' = [emitted EXCEPT ![s] = @ + 1]
  /\ working' = [working EXCEPT ![s] = ~terminal]
  /\ ended' = [ended EXCEPT ![s] = IF terminal THEN @ \cup {emitted'[s]} ELSE @]
  /\ UNCHANGED <<spoolVars, linkVars, taskVars, wireVars, axisVars>>

\* EventSpool::append_next: the row and the sequence number it consumes are
\* one transaction; a session at its capacity refuses and consumes nothing.
Full(s) == Cardinality(spool[s]) >= Cap

AppendNext(s, e) ==
  /\ spool' = [spool EXCEPT ![s] = @ \cup {FrameOf(s, nextSeq[s], e)}]
  /\ nextSeq' = [nextSeq EXCEPT ![s] = @ + 1]
  /\ journal' = [journal EXCEPT ![s] = Append(@, e)]

\* Fault: the refused append has consumed its sequence number, as in
\* docs/postmortems/0025-orbit-spool-sequence-gap-and-periodic-resend-storm.md:16.
AppendOverflowConsuming(s) ==
  /\ nextSeq' = [nextSeq EXCEPT ![s] = @ + 1]
  /\ UNCHANGED <<spool, journal>>

AppendOverflow(s) == UNCHANGED spoolVars

\* The drain task takes the next event it has not seen and spools it; a
\* refused append ends the task.
DrainTake(t) ==
  LET d == drain[t]
      s == d.s
      e == d.pos + 1
  IN
  /\ d.st = "recv" /\ d.pos < emitted[s]
  /\ \/ /\ ~Full(s)
        /\ AppendNext(s, e)
        /\ drain' = [drain EXCEPT ![t] =
                       [st |-> "send", s |-> s, pos |-> e, conn |-> d.conn,
                        frame |-> FrameOf(s, nextSeq[s], e)]]
     \/ /\ Full(s)
        /\ AppendOverflow(s)
        /\ drain' = [drain EXCEPT ![t] = IdleTask]
  /\ UNCHANGED <<producerVars, linkVars, replay, resume, wireVars, axisVars>>

\* Fault: the task does not stop at a terminal event.
DrainSendUnending(t) ==
  LET d == drain[t] IN
  /\ d.st = "send" /\ link # 0 /\ d.conn = link /\ Room(upWire[link])
  /\ upWire' = [upWire EXCEPT ![link] = Append(@, d.frame)]
  /\ drain' = [drain EXCEPT ![t] =
                 [st |-> "recv", s |-> d.s, pos |-> d.pos, conn |-> d.conn]]
  /\ UNCHANGED <<producerVars, spoolVars, linkVars, replay, resume, downWire,
                 axisVars>>

\* The live send of what was just spooled; after a terminal event the task
\* returns.
DrainSend(t) ==
  LET d == drain[t] IN
  /\ d.st = "send" /\ link # 0 /\ d.conn = link /\ Room(upWire[link])
  /\ upWire' = [upWire EXCEPT ![link] = Append(@, d.frame)]
  /\ drain' = [drain EXCEPT ![t] =
                 IF d.pos \in ended[d.s]
                 THEN IdleTask
                 ELSE [st |-> "recv", s |-> d.s, pos |-> d.pos, conn |-> d.conn]]
  /\ UNCHANGED <<producerVars, spoolVars, linkVars, replay, resume, downWire,
                 axisVars>>

\* The task's connection is gone: send_frame fails and the task returns, with
\* the producer's later events still to come.
DrainSendFails(t) ==
  /\ drain[t].st = "send" /\ drain[t].conn # link
  /\ drain' = [drain EXCEPT ![t] = IdleTask]
  /\ UNCHANGED <<producerVars, spoolVars, linkVars, replay, resume, wireVars,
                 axisVars>>
-----------------------------------------------------------------------------
(***************************************************************************)
(* The two tasks that send from the spool.                                 *)
(***************************************************************************)

\* One session's share of a periodic pass: the rows beyond what this task has
\* already sent on this connection.
ReplayRead(s) ==
  LET rows == {f \in spool[s] : f.seq > replay.sentThrough[s]} IN
  /\ link # 0 /\ replay.batch = {} /\ rows # {}
  /\ replay' = [replay EXCEPT !.batch = rows]
  /\ UNCHANGED <<producerVars, spoolVars, linkVars, drain, resume, wireVars, axisVars>>

\* A row is marked as sent only once it is on the connection.
ReplaySend ==
  /\ link # 0 /\ Room(upWire[link])
  /\ \E f \in First(replay.batch) :
       /\ upWire' = [upWire EXCEPT ![link] = Append(@, f)]
       /\ replay' = [sentThrough |-> [replay.sentThrough EXCEPT ![f.s] = f.seq],
                     batch |-> replay.batch \ {f}]
  /\ UNCHANGED <<producerVars, spoolVars, linkVars, drain, resume, downWire, axisVars>>

\* The task spawned for a ResumeFrom reads the rows beyond the watermark once
\* and sends them in order.
ResumeRead(s) ==
  /\ resume[s].st = "read"
  /\ LET rows == {f \in spool[s] : f.seq > resume[s].after} IN
     resume' = [resume EXCEPT ![s] =
                  IF rows = {} THEN IdleTask ELSE [st |-> "send", batch |-> rows]]
  /\ UNCHANGED <<producerVars, spoolVars, linkVars, drain, replay, wireVars, axisVars>>

ResumeSend(s) ==
  /\ link # 0 /\ resume[s].st = "send" /\ Room(upWire[link])
  /\ \E f \in First(resume[s].batch) :
       LET rest == resume[s].batch \ {f} IN
       /\ upWire' = [upWire EXCEPT ![link] = Append(@, f)]
       /\ resume' = [resume EXCEPT ![s] =
                       IF rest = {} THEN IdleTask ELSE [st |-> "send", batch |-> rest]]
  /\ UNCHANGED <<producerVars, spoolVars, linkVars, drain, replay, downWire, axisVars>>
-----------------------------------------------------------------------------
(***************************************************************************)
(* Connections, and the crashes of either side.                            *)
(***************************************************************************)

\* run_connection: the Hello, which names every session the spool has ever
\* sequenced, is the first frame; the tasks of the connection start afresh.
Connect ==
  /\ link = 0 /\ opened < MaxConn
  /\ opened' = opened + 1
  /\ link' = opened'
  /\ upWire' = [upWire EXCEPT ![link'] =
                  <<[kind |-> "hello", known |-> {s \in Session : nextSeq[s] > 0}]>>]
  /\ reading' = [reading EXCEPT ![link'] = TRUE]
  /\ UNCHANGED <<producerVars, spoolVars, taskVars, downWire, applying, subscriber,
                 watermark, accepted, delivered, faults>>

\* The Orbit is without a connection: what was on its way to it is lost and
\* the connection's tasks are gone.
LinkLost ==
  /\ link' = 0
  /\ downWire' = [c \in Conn |-> <<>>]
  /\ replay' = FreshReplay
  /\ resume' = FreshResume
  /\ UNCHANGED opened

\* The read loop ends.  The drain tasks are not aborted.  The bound keeps the
\* last connection up.
Disconnect ==
  /\ link # 0 /\ link < MaxConn
  /\ LinkLost
  /\ UNCHANGED <<producerVars, spoolVars, drain, upWire, axisVars>>

\* The Orbit process dies, its runtimes and jobs with it; the spool survives.
OrbitCrash ==
  /\ opened < MaxConn
  /\ LinkLost
  /\ drain' = [t \in Task |-> IdleTask]
  /\ working' = [s \in Session |-> FALSE]
  /\ UNCHANGED <<emitted, ended, spoolVars, upWire, axisVars>>

\* The Axis handler of a dead connection sees the end of its stream (or its
\* successor shuts it down), which may leave frames unread.
AxisClose(c) ==
  /\ reading[c] /\ c # link
  /\ reading' = [reading EXCEPT ![c] = FALSE]
  /\ applying' = [applying EXCEPT ![c] = None]
  /\ upWire' = [upWire EXCEPT ![c] = <<>>]
  /\ UNCHANGED <<producerVars, spoolVars, linkVars, taskVars, downWire, subscriber,
                 watermark, accepted, delivered, faults>>

\* The Axis process dies; watermarks and what it stored survive.
AxisCrash ==
  /\ opened < MaxConn
  /\ LinkLost
  /\ reading' = [c \in Conn |-> FALSE]
  /\ applying' = [c \in Conn |-> None]
  /\ upWire' = [c \in Conn |-> <<>>]
  /\ subscriber' = [s \in Session |-> NoListener]
  /\ UNCHANGED <<producerVars, spoolVars, drain, watermark, accepted, delivered, faults>>
-----------------------------------------------------------------------------
(***************************************************************************)
(* The Orbit's read loop.                                                  *)
(***************************************************************************)

\* EventSpool::acknowledge, under the identity the Ack names.
Acknowledge(m) ==
  spool' = IF m.own
           THEN [spool EXCEPT ![m.s] = {f \in @ : f.seq > m.seq}]
           ELSE spool

\* Fault: the loop handles a ResumeFrom itself and reads on only when the
\* replay is through, as in docs/postmortems/0021-orbit-replay-starved-heartbeats.md.
OrbitReadInline ==
  /\ link # 0 /\ downWire[link] # <<>>
  /\ \A s \in Session : resume[s] = IdleTask
  /\ LET m == Head(downWire[link]) IN
     \/ /\ m.kind = "ack"
        /\ Acknowledge(m)
        /\ UNCHANGED resume
     \/ /\ m.kind = "resume"
        /\ resume' = [resume EXCEPT ![m.s] = [st |-> "read", after |-> m.after]]
        /\ UNCHANGED spool
  /\ downWire' = [downWire EXCEPT ![link] = Tail(@)]
  /\ UNCHANGED <<producerVars, nextSeq, journal, linkVars, drain, replay, upWire, axisVars>>

\* An Ack is handled in the loop; a ResumeFrom is handed to a task.
OrbitRead ==
  /\ link # 0 /\ downWire[link] # <<>>
  /\ LET m == Head(downWire[link]) IN
     \/ /\ m.kind = "ack"
        /\ Acknowledge(m)
        /\ UNCHANGED resume
     \/ /\ m.kind = "resume"
        /\ resume' = [resume EXCEPT ![m.s] = [st |-> "read", after |-> m.after]]
        /\ UNCHANGED spool
  /\ downWire' = [downWire EXCEPT ![link] = Tail(@)]
  /\ UNCHANGED <<producerVars, nextSeq, journal, linkVars, drain, replay, upWire, axisVars>>
-----------------------------------------------------------------------------
(***************************************************************************)
(* Axis.                                                                   *)
(***************************************************************************)

\* Fault: the frame at the watermark counts as the next one.
GateAtWatermark(s, seq) ==
  CASE seq < watermark[s]      -> "duplicate"
    [] seq <= watermark[s] + 1 -> "next"
    [] OTHER                   -> "gap"

\* Fault: whatever is beyond the watermark is accepted.
GateOpen(s, seq) == IF seq <= watermark[s] THEN "duplicate" ELSE "next"

\* accept_orbit_seq and append_orbit_event: a duplicate is acknowledged
\* again, the next sequence number is accepted, a gap is an error.
Gate(s, seq) ==
  CASE seq <= watermark[s]     -> "duplicate"
    [] seq = watermark[s] + 1  -> "next"
    [] OTHER                   -> "gap"

\* A job's output is stored with the watermark.  A session's event goes to
\* the channel of the connection it came on, if a turn listens there.
Delivers(f, c) == f.s \in Jobs \/ subscriber[f.s].conn = c

Accept(f, c) ==
  /\ watermark' = [watermark EXCEPT ![f.s] = f.seq]
  /\ accepted' = [accepted EXCEPT ![f.s] = Append(@, f.ev)]
  /\ delivered' = IF Delivers(f, c)
                  THEN [delivered EXCEPT ![f.s] =
                          Append(@, [frame |-> f, turn |-> subscriber[f.s].turn])]
                  ELSE delivered

\* The handler takes the next frame.  A gap, or a transaction that fails, is
\* logged and the frame is left unacknowledged.
AxisRead(c) ==
  /\ reading[c] /\ applying[c] = None /\ upWire[c] # <<>>
  /\ upWire' = [upWire EXCEPT ![c] = Tail(@)]
  /\ LET m == Head(upWire[c])
         Owes(a) == applying' = [applying EXCEPT ![c] = a] IN
     \/ /\ m.kind = "hello"
        /\ Owes(IF m.known = {} THEN None ELSE [kind |-> "hello", todo |-> m.known])
        /\ UNCHANGED <<watermark, accepted, delivered, faults>>
     \/ /\ m.kind = "frame"
        /\ \/ /\ Gate(m.s, m.seq) = "next"
              /\ Accept(m, c)
              /\ Owes([kind |-> "ack", frame |-> m])
              /\ UNCHANGED faults
           \/ /\ Gate(m.s, m.seq) = "duplicate"
              /\ Owes([kind |-> "ack", frame |-> m])
              /\ UNCHANGED <<watermark, accepted, delivered, faults>>
           \/ /\ Gate(m.s, m.seq) = "gap"
              /\ UNCHANGED <<applying, watermark, accepted, delivered, faults>>
           \/ /\ faults < MaxFaults
              /\ faults' = faults + 1
              /\ UNCHANGED <<applying, watermark, accepted, delivered>>
  /\ UNCHANGED <<producerVars, spoolVars, linkVars, taskVars, downWire, reading,
                 subscriber>>

\* The handler writes to the Orbit before it reads on; on a dead connection
\* the write fails and the handler goes on.
Reply(c, m) ==
  \/ /\ c = link /\ Room(downWire[c])
     /\ downWire' = [downWire EXCEPT ![c] = Append(@, m)]
  \/ /\ c # link
     /\ UNCHANGED downWire

\* The Ack of a frame.  A session's frames are acknowledged under the identity
\* of the spool; a job's under wire_id(job_id, attempt_epoch), which is not.
AckOf(f) == [kind |-> "ack", s |-> f.s, own |-> f.s \notin Jobs, seq |-> f.seq]

SendAck(c) ==
  /\ applying[c].kind = "ack"
  /\ Reply(c, AckOf(applying[c].frame))
  /\ applying' = [applying EXCEPT ![c] = None]
  /\ UNCHANGED <<producerVars, spoolVars, linkVars, taskVars, upWire, reading,
                 subscriber, watermark, accepted, delivered, faults>>

\* handle_orbit_hello asks for each named session from its watermark on; a
\* spool named by a raw job id has no watermark row, so from the start.
ResumeOf(s) == [kind |-> "resume", s |-> s,
                after |-> IF s \in Jobs THEN -1 ELSE watermark[s]]

SendResume(c) ==
  /\ applying[c].kind = "hello"
  /\ \E s \in applying[c].todo :
       /\ Reply(c, ResumeOf(s))
       /\ applying' = [applying EXCEPT ![c] =
                         IF @.todo = {s} THEN None
                         ELSE [kind |-> "hello", todo |-> @.todo \ {s}]]
  /\ UNCHANGED <<producerVars, spoolVars, linkVars, taskVars, upWire, reading,
                 subscriber, watermark, accepted, delivered, faults>>
-----------------------------------------------------------------------------
Next ==
  \/ \E t \in Task : \/ \E s \in Session : StartWork(t, s)
                     \/ DrainTake(t) \/ DrainSend(t) \/ DrainSendFails(t)
  \/ \E s \in Session : \/ \E terminal \in BOOLEAN : Emit(s, terminal)
                        \/ ReplayRead(s) \/ ResumeRead(s) \/ ResumeSend(s)
  \/ ReplaySend \/ Connect \/ Disconnect \/ OrbitCrash \/ AxisCrash \/ OrbitRead
  \/ \E c \in Conn : AxisClose(c) \/ AxisRead(c) \/ SendAck(c) \/ SendResume(c)

Spec == Init /\ [][Next]_vars

(***************************************************************************)
(* Every loop and task of both processes is scheduled.  Nothing obliges a  *)
(* producer to emit, a user to start work, or a connection to fail.  The   *)
(* tasks that share a connection queue for its writer on a fair mutex, and *)
(* the replay pass visits every session: these are strongly fair.          *)
(***************************************************************************)
Fairness ==
  /\ \A t \in Task : WF_vars(DrainTake(t)) /\ SF_vars(DrainSend(t))
                     /\ WF_vars(DrainSendFails(t))
  /\ \A s \in Session : SF_vars(ReplayRead(s)) /\ WF_vars(ResumeRead(s))
                        /\ SF_vars(ResumeSend(s))
  /\ SF_vars(ReplaySend) /\ WF_vars(Connect) /\ WF_vars(OrbitRead)
  /\ \A c \in Conn : WF_vars(AxisRead(c)) /\ WF_vars(SendAck(c)) /\ WF_vars(SendResume(c))

FairSpec == Spec /\ Fairness
-----------------------------------------------------------------------------
(***************************************************************************)
(* Properties.                                                             *)
(***************************************************************************)
Spooled(s, q) == \E f \in spool[s] : f.seq = q

\* A sequence number, once consumed, is either still in the spool or accepted
\* by Axis: no acknowledgement, crash or overflow opens a hole that the gate
\* would wait behind for ever.
NoLoss ==
  \A s \in Session : \A q \in 0..(nextSeq[s] - 1) : Spooled(s, q) \/ q <= watermark[s]

\* A consumer sees a session's frames in sequence order and none twice,
\* whichever mixture of live, periodic and requested sends carried them.
DeliveredInOrder ==
  \A s \in Session : \A i, j \in 1..Len(delivered[s]) :
    i < j => delivered[s][i].frame.seq < delivered[s][j].frame.seq

\* What keeps those two true, step by step.  A frame, wherever it is, carries
\* a committed sequence number and the event committed under it ...
Sound(f) == f.seq < nextSeq[f.s] /\ f.ev = journal[f.s][f.seq + 1]

FramesSound ==
  /\ \A s \in Session : \A f \in spool[s] : f.s = s /\ Sound(f)
  /\ \A t \in Task : drain[t].st = "send" => Sound(drain[t].frame)
  /\ \A f \in replay.batch : Sound(f)
  /\ \A s \in Session : resume[s].st = "send" => \A f \in resume[s].batch : Sound(f)
  /\ \A c \in Conn : \A i \in 1..Len(upWire[c]) :
       upWire[c][i].kind = "frame" => Sound(upWire[c][i])

\* ... the journal grows with the numbering, from events that were emitted ...
JournalMatches ==
  \A s \in Session :
    /\ emitted[s] <= MaxEvents
    /\ Len(journal[s]) = nextSeq[s]
    /\ \A t \in Task : drain[t].st # "idle" /\ drain[t].s = s => drain[t].pos <= emitted[s]

\* ... Axis has accepted exactly the journal up to the watermark ...
AcceptedMatches ==
  \A s \in Session :
    /\ -1 <= watermark[s] /\ watermark[s] < nextSeq[s]
    /\ Len(accepted[s]) = watermark[s] + 1
    /\ \A i \in 1..Len(accepted[s]) : accepted[s][i] = journal[s][i]

\* ... and it acknowledges nothing beyond the watermark.
AcksSound ==
  /\ \A c \in Conn : applying[c].kind = "ack" =>
       applying[c].frame.seq <= watermark[applying[c].frame.s]
  /\ \A c \in Conn : \A i \in 1..Len(downWire[c]) : downWire[c][i].kind = "ack" =>
       downWire[c][i].seq <= watermark[downWire[c][i].s]

DeliveredAccepted ==
  \A s \in Session : \A i \in 1..Len(delivered[s]) : delivered[s][i].frame.seq <= watermark[s]

TransportInv ==
  /\ TypeOK /\ FramesSound /\ JournalMatches /\ AcceptedMatches /\ AcksSound
  /\ DeliveredAccepted /\ NoLoss /\ DeliveredInOrder

\* The transport implements the exactly-once ordered log.
Log == INSTANCE ExactlyOnceLog WITH sent <- journal, Value <- 1..MaxEvents
ExactlyOnce == Log!Spec

\* Once connections stop failing, every spooled row is eventually accepted,
\* acknowledged and removed, although both ends write while they read.
SpoolDrains ==
  \A s \in Session : \A q \in 0..(MaxEvents - 1) : Spooled(s, q) ~> ~Spooled(s, q)

\* A drain task whose turn has ended returns: the request that started the
\* turn gets its response.
FollowsEndedTurn(t) ==
  drain[t].st # "idle" /\ \E e \in ended[drain[t].s] : e > drain[t].pos

DrainEnds == \A t \in Task : FollowsEndedTurn(t) ~> (drain[t].st = "idle")

=============================================================================
