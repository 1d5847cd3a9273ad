------------------------ MODULE EventTransport_proofs ------------------------
(***************************************************************************)
(* Theorems about EventTransport, for every value of its constants.        *)
(***************************************************************************)
EXTENDS EventTransport, SequenceTheorems, TLAPS

USE TransportAssumption

-----------------------------------------------------------------------------
(***************************************************************************)
(* Type correctness.                                                       *)
(***************************************************************************)
LEMMA TypeInit == Init => TypeOK
BY DEF Init, TypeOK, IdleTask, DrainTask, FreshReplay, ReplayTask, FreshResume,
       ResumeTask, Conn, UpMsg, DownMsg, Answer, NoListener, Listener

LEMMA StartWorkType ==
  ASSUME TypeOK, NEW t \in Task, NEW s \in Session, StartWork(t, s)
  PROVE  TypeOK'
<1>1. link \in Nat /\ emitted[s] \in Nat
  BY DEF TypeOK
<1>2. drain' \in [Task -> DrainTask]
  BY <1>1 DEF TypeOK, StartWork, DrainTask
<1>3. subscriber' \in [Session -> Listener]
  BY <1>1 DEF TypeOK, StartWork, Listener
<1>4. working' \in [Session -> BOOLEAN]
  BY DEF TypeOK, StartWork
<1> QED
  BY <1>2, <1>3, <1>4 DEF TypeOK, StartWork, spoolVars, linkVars, wireVars

LEMMA EmitType ==
  ASSUME TypeOK, NEW s \in Session, NEW terminal \in BOOLEAN, Emit(s, terminal)
  PROVE  TypeOK'
BY DEF TypeOK, Emit, spoolVars, linkVars, taskVars, wireVars, axisVars

LEMMA DrainTakeType ==
  ASSUME TypeOK, NEW t \in Task, DrainTake(t)
  PROVE  TypeOK'
<1>1. drain[t] \in [st : {"recv"}, s : Session, pos : Nat, conn : Nat]
  BY DEF TypeOK, DrainTake, DrainTask, IdleTask
<1> DEFINE d == drain[t]
           f == FrameOf(d.s, nextSeq[d.s], d.pos + 1)
<1>2. f \in Frame /\ d.s \in Session /\ d.pos + 1 \in Nat /\ d.conn \in Nat
  BY <1>1 DEF TypeOK, FrameOf, Frame
<1>3. CASE AppendNext(d.s, d.pos + 1)
        /\ drain' = [drain EXCEPT ![t] =
                       [st |-> "send", s |-> d.s, pos |-> d.pos + 1, conn |-> d.conn,
                        frame |-> f]]
  <2>1. drain' \in [Task -> DrainTask]
    BY <1>2, <1>3 DEF TypeOK, DrainTask
  <2>2. spool' \in [Session -> SUBSET Frame] /\ nextSeq' \in [Session -> Nat]
    <3>1. /\ spool' = [spool EXCEPT ![d.s] = @ \cup {f}]
          /\ nextSeq' = [nextSeq EXCEPT ![d.s] = @ + 1]
      BY <1>3 DEF AppendNext
    <3>2. spool \in [Session -> SUBSET Frame] /\ nextSeq \in [Session -> Nat]
      BY DEF TypeOK
    <3> QED
      BY <1>2, <3>1, <3>2
  <2>3. journal' \in [Session -> Seq(Nat)]
    <3>1. journal' = [journal EXCEPT ![d.s] = Append(@, d.pos + 1)]
      BY <1>3 DEF AppendNext
    <3>2. journal \in [Session -> Seq(Nat)]
      BY DEF TypeOK
    <3>3. Append(journal[d.s], d.pos + 1) \in Seq(Nat)
      BY <1>2, <3>2, AppendProperties
    <3> QED
      BY <3>1, <3>2, <3>3
  <2> QED
    BY <2>1, <2>2, <2>3
    DEF TypeOK, DrainTake, producerVars, linkVars, wireVars, axisVars
<1>4. CASE AppendOverflow(d.s) /\ drain' = [drain EXCEPT ![t] = IdleTask]
  BY <1>4 DEF TypeOK, DrainTake, AppendOverflow, DrainTask, spoolVars, producerVars,
              linkVars, wireVars, axisVars
<1> QED
  BY <1>3, <1>4 DEF DrainTake

LEMMA DrainSendType ==
  ASSUME TypeOK, NEW t \in Task, DrainSend(t)
  PROVE  TypeOK'
<1>1. drain[t] \in [st : {"send"}, s : Session, pos : Nat, conn : Nat, frame : Frame]
  BY DEF TypeOK, DrainSend, DrainTask, IdleTask
<1>2. drain' \in [Task -> DrainTask]
  BY <1>1 DEF TypeOK, DrainSend, DrainTask
<1>3. upWire' \in [Conn -> Seq(UpMsg)]
  BY <1>1, AppendProperties DEF TypeOK, DrainSend, Conn, UpMsg
<1> QED
  BY <1>2, <1>3 DEF TypeOK, DrainSend, producerVars, spoolVars, linkVars, axisVars

LEMMA DrainSendFailsType ==
  ASSUME TypeOK, NEW t \in Task, DrainSendFails(t)
  PROVE  TypeOK'
BY DEF TypeOK, DrainSendFails, DrainTask, producerVars, spoolVars, linkVars, wireVars,
       axisVars

LEMMA ReplayReadType ==
  ASSUME TypeOK, NEW s \in Session, ReplayRead(s)
  PROVE  TypeOK'
BY DEF TypeOK, ReplayRead, ReplayTask, producerVars, spoolVars, linkVars, wireVars,
       axisVars

LEMMA ReplaySendType ==
  ASSUME TypeOK, ReplaySend
  PROVE  TypeOK'
<1>1. PICK f \in First(replay.batch) :
        /\ upWire' = [upWire EXCEPT ![link] = Append(@, f)]
        /\ replay' = [sentThrough |-> [replay.sentThrough EXCEPT ![f.s] = f.seq],
                      batch |-> replay.batch \ {f}]
  BY DEF ReplaySend
<1>2. replay.batch \subseteq Frame /\ replay.sentThrough \in [Session -> Int]
  BY DEF TypeOK, ReplayTask
<1>3. f \in Frame
  BY <1>2 DEF First
<1>4. upWire' \in [Conn -> Seq(UpMsg)]
  BY <1>1, <1>3, AppendProperties DEF TypeOK, Conn, UpMsg
<1>5. [replay.sentThrough EXCEPT ![f.s] = f.seq] \in [Session -> Int]
  BY <1>2, <1>3 DEF Frame
<1>6. replay' \in ReplayTask
  BY <1>1, <1>2, <1>5 DEF ReplayTask
<1> QED
  BY <1>4, <1>6 DEF TypeOK, ReplaySend, producerVars, spoolVars, linkVars, axisVars

LEMMA ResumeReadType ==
  ASSUME TypeOK, NEW s \in Session, ResumeRead(s)
  PROVE  TypeOK'
BY DEF TypeOK, ResumeRead, ResumeTask, IdleTask, producerVars, spoolVars, linkVars,
       wireVars, axisVars

LEMMA ResumeSendType ==
  ASSUME TypeOK, NEW s \in Session, ResumeSend(s)
  PROVE  TypeOK'
<1>1. resume[s] \in [st : {"send"}, batch : SUBSET Frame]
  BY DEF TypeOK, ResumeSend, ResumeTask, IdleTask
<1>2. PICK f \in First(resume[s].batch) :
        /\ upWire' = [upWire EXCEPT ![link] = Append(@, f)]
        /\ resume' = [resume EXCEPT ![s] =
                        IF resume[s].batch \ {f} = {} THEN IdleTask
                        ELSE [st |-> "send", batch |-> resume[s].batch \ {f}]]
  BY DEF ResumeSend
<1>3. f \in Frame
  BY <1>1 DEF First
<1>4. upWire' \in [Conn -> Seq(UpMsg)]
  BY <1>2, <1>3, AppendProperties DEF TypeOK, Conn, UpMsg
<1>5. resume' \in [Session -> ResumeTask]
  BY <1>1, <1>2 DEF TypeOK, ResumeTask
<1> QED
  BY <1>4, <1>5 DEF TypeOK, ResumeSend, producerVars, spoolVars, linkVars, axisVars

LEMMA ConnectType ==
  ASSUME TypeOK, Connect
  PROVE  TypeOK'
BY DEF TypeOK, Connect, Conn, UpMsg, Hello, producerVars, spoolVars, taskVars

LEMMA FreshTasksType ==
  /\ FreshReplay \in ReplayTask
  /\ FreshResume \in [Session -> ResumeTask]
  /\ NoListener \in Listener
BY DEF FreshReplay, ReplayTask, FreshResume, ResumeTask, NoListener, Listener

LEMMA DisconnectType ==
  ASSUME TypeOK, Disconnect
  PROVE  TypeOK'
BY FreshTasksType DEF TypeOK, Disconnect, LinkLost, Conn, producerVars, spoolVars,
       axisVars

LEMMA OrbitCrashType ==
  ASSUME TypeOK, OrbitCrash
  PROVE  TypeOK'
BY FreshTasksType DEF TypeOK, OrbitCrash, LinkLost, DrainTask, Conn, spoolVars, axisVars

LEMMA AxisCloseType ==
  ASSUME TypeOK, NEW c \in Conn, AxisClose(c)
  PROVE  TypeOK'
BY DEF TypeOK, AxisClose, Answer, producerVars, spoolVars, linkVars, taskVars

LEMMA AxisCrashType ==
  ASSUME TypeOK, AxisCrash
  PROVE  TypeOK'
BY FreshTasksType DEF TypeOK, AxisCrash, LinkLost, Answer, Conn, producerVars, spoolVars

LEMMA OrbitReadType ==
  ASSUME TypeOK, OrbitRead
  PROVE  TypeOK'
<1> DEFINE m == Head(downWire[link])
<1>1. link \in Conn /\ downWire[link] \in Seq(DownMsg) /\ downWire[link] # <<>>
  BY DEF TypeOK, OrbitRead, Conn
<1>2. m \in DownMsg /\ Tail(downWire[link]) \in Seq(DownMsg)
  BY <1>1, HeadTailProperties
<1>3. CASE m.kind = "ack" /\ Acknowledge(m) /\ UNCHANGED resume
  <2>1. m \in AckMsg
    BY <1>2, <1>3 DEF DownMsg, ResumeMsg
  <2>2. spool' \in [Session -> SUBSET Frame]
    BY <1>3, <2>1 DEF TypeOK, Acknowledge, AckMsg
  <2> QED
    BY <1>1, <1>2, <1>3, <2>2 DEF TypeOK, OrbitRead, producerVars, linkVars, axisVars
<1>4. CASE /\ m.kind = "resume"
           /\ resume' = [resume EXCEPT ![m.s] = [st |-> "read", after |-> m.after]]
           /\ UNCHANGED spool
  <2>1. m \in ResumeMsg
    BY <1>2, <1>4 DEF DownMsg, AckMsg
  <2>2. resume' \in [Session -> ResumeTask]
    BY <1>4, <2>1 DEF TypeOK, ResumeMsg, ResumeTask
  <2> QED
    BY <1>1, <1>2, <1>4, <2>2 DEF TypeOK, OrbitRead, producerVars, linkVars, axisVars
<1> QED
  BY <1>3, <1>4 DEF OrbitRead

LEMMA AcceptType ==
  ASSUME TypeOK, NEW c \in Conn, NEW f \in Frame, Accept(f, c)
  PROVE  /\ watermark' \in [Session -> Int]
         /\ accepted' \in [Session -> Seq(Nat)]
         /\ delivered' \in [Session -> Seq(Delivery)]
<1>1. f.s \in Session /\ f.seq \in Nat /\ f.ev \in Nat
  BY DEF Frame
<1>2. watermark' \in [Session -> Int]
  BY <1>1, SMTT(30) DEF TypeOK, Accept
<1>3. accepted' \in [Session -> Seq(Nat)]
  <2>1. Append(accepted[f.s], f.ev) \in Seq(Nat)
    BY <1>1, AppendProperties DEF TypeOK
  <2> QED
    BY <1>1, <2>1 DEF TypeOK, Accept
<1>4. delivered' \in [Session -> Seq(Delivery)]
  <2> DEFINE d == [frame |-> f, turn |-> subscriber[f.s].turn]
  <2>1. d \in Delivery
    BY <1>1 DEF TypeOK, Delivery, Listener
  <2>2. Append(delivered[f.s], d) \in Seq(Delivery)
    BY <1>1, <2>1, AppendProperties DEF TypeOK
  <2> QED
    BY <1>1, <2>2 DEF TypeOK, Accept
<1> QED
  BY <1>2, <1>3, <1>4

LEMMA AxisReadType ==
  ASSUME TypeOK, NEW c \in Conn, AxisRead(c)
  PROVE  TypeOK'
<1> DEFINE m == Head(upWire[c])
<1>1. upWire[c] \in Seq(UpMsg) /\ upWire[c] # <<>>
  BY DEF TypeOK, AxisRead
<1>2. m \in UpMsg /\ Tail(upWire[c]) \in Seq(UpMsg)
  BY <1>1, HeadTailProperties
<1>3. upWire' \in [Conn -> Seq(UpMsg)]
  BY <1>2 DEF TypeOK, AxisRead
<1>4. CASE m.kind = "hello"
  <2>1. m \in Hello
    BY <1>2, <1>4 DEF UpMsg, Frame
  <2>2. applying' \in [Conn -> Answer]
    <3>1. applying' = [applying EXCEPT ![c] =
                         IF m.known = {} THEN None
                         ELSE [kind |-> "hello", todo |-> m.known]]
      BY <1>4 DEF AxisRead
    <3>2. None \in Answer /\ [kind |-> "hello", todo |-> m.known] \in Answer
      BY <2>1 DEF Hello, Answer
    <3> QED
      BY <3>1, <3>2 DEF TypeOK
  <2>3. UNCHANGED <<watermark, accepted, delivered, faults>>
    BY <1>4 DEF AxisRead
  <2> QED
    BY <1>3, <2>2, <2>3
    DEF TypeOK, AxisRead, producerVars, spoolVars, linkVars, taskVars
<1>5. CASE m.kind = "frame"
  <2>1. m \in Frame
    BY <1>2, <1>5 DEF UpMsg, Hello
  <2>2. /\ watermark' \in [Session -> Int]
        /\ accepted' \in [Session -> Seq(Nat)]
        /\ delivered' \in [Session -> Seq(Delivery)]
    <3>1. CASE UNCHANGED <<watermark, accepted, delivered>>
      BY <3>1 DEF TypeOK
    <3>2. CASE Accept(m, c)
      BY <2>1, <3>2, AcceptType
    <3> QED
      BY <1>5, <3>1, <3>2 DEF AxisRead
  <2>3. applying' \in [Conn -> Answer]
    <3>1. [kind |-> "ack", frame |-> m] \in Answer
      BY <2>1 DEF Answer
    <3>2. applying' = [applying EXCEPT ![c] = [kind |-> "ack", frame |-> m]]
          \/ applying' = applying
      BY <1>5 DEF AxisRead
    <3> QED
      BY <3>1, <3>2 DEF TypeOK
  <2>4. faults' \in Nat
    BY <1>5 DEF TypeOK, AxisRead
  <2> QED
    BY <1>3, <2>2, <2>3, <2>4
    DEF TypeOK, AxisRead, producerVars, spoolVars, linkVars, taskVars
<1> QED
  <2>1. m.kind \in {"hello", "frame"}
    BY <1>2 DEF UpMsg, Frame, Hello
  <2> QED
    BY <1>4, <1>5, <2>1

LEMMA ReplyType ==
  ASSUME TypeOK, NEW c \in Conn, NEW m \in DownMsg, Reply(c, m)
  PROVE  downWire' \in [Conn -> Seq(DownMsg)]
<1>1. Append(downWire[c], m) \in Seq(DownMsg)
  BY AppendProperties DEF TypeOK
<1> QED
  BY <1>1 DEF TypeOK, Reply

LEMMA SendAckType ==
  ASSUME TypeOK, NEW c \in Conn, SendAck(c)
  PROVE  TypeOK'
<1>1. applying[c].frame \in Frame
  <2>1. applying[c] \in Answer /\ applying[c].kind = "ack"
    BY DEF TypeOK, SendAck
  <2> QED
    BY <2>1 DEF Answer, None
<1>2. AckOf(applying[c].frame) \in DownMsg
  BY <1>1 DEF AckOf, Frame, DownMsg, AckMsg
<1>3. downWire' \in [Conn -> Seq(DownMsg)]
  BY <1>2, ReplyType DEF SendAck
<1> QED
  BY <1>3 DEF TypeOK, SendAck, Answer, producerVars, spoolVars, linkVars, taskVars

LEMMA SendResumeType ==
  ASSUME TypeOK, NEW c \in Conn, SendResume(c)
  PROVE  TypeOK'
<1>1. applying[c] \in [kind : {"hello"}, todo : SUBSET Session]
  BY DEF TypeOK, SendResume, Answer, None
<1>2. \A s \in Session : ResumeOf(s) \in DownMsg
  BY DEF TypeOK, ResumeOf, DownMsg, ResumeMsg
<1>3. downWire' \in [Conn -> Seq(DownMsg)]
  BY <1>1, <1>2, ReplyType DEF SendResume
<1>4. applying' \in [Conn -> Answer]
  <2>1. PICK s \in Session :
          applying' = [applying EXCEPT ![c] =
                         IF applying[c].todo = {s} THEN None
                         ELSE [kind |-> "hello", todo |-> applying[c].todo \ {s}]]
    BY <1>1 DEF SendResume
  <2>2. [kind |-> "hello", todo |-> applying[c].todo \ {s}]
          \in [kind : {"hello"}, todo : SUBSET Session]
    BY <1>1
  <2>3. applying' = [applying EXCEPT ![c] = None]
        \/ applying' = [applying EXCEPT ![c] =
                         [kind |-> "hello", todo |-> applying[c].todo \ {s}]]
    BY <2>1
  <2> QED
    BY <2>2, <2>3 DEF TypeOK, Answer
<1> QED
  BY <1>3, <1>4 DEF TypeOK, SendResume, producerVars, spoolVars, linkVars, taskVars

LEMMA TypeNext == TypeOK /\ [Next]_vars => TypeOK'
<1> SUFFICES ASSUME TypeOK, [Next]_vars PROVE TypeOK'
  OBVIOUS
<1>1. CASE UNCHANGED vars
  BY <1>1 DEF TypeOK, vars, producerVars, spoolVars, linkVars, taskVars, wireVars,
              axisVars
<1>2. CASE Next
  BY <1>2, StartWorkType, EmitType, DrainTakeType, DrainSendType, DrainSendFailsType,
     ReplayReadType, ReplaySendType, ResumeReadType, ResumeSendType, ConnectType,
     DisconnectType, OrbitCrashType, AxisCloseType, AxisCrashType, OrbitReadType,
     AxisReadType, SendAckType, SendResumeType DEF Next
<1> QED
  BY <1>1, <1>2

\* Every variable keeps its type.
THEOREM TypeCorrect == Spec => []TypeOK
BY TypeInit, TypeNext, PTL DEF Spec
-----------------------------------------------------------------------------
(***************************************************************************)
(* What a step may do to the journal, and to what Axis has accepted.       *)
(***************************************************************************)
\* A drain task commits the next event of its producer.
Commits(t) ==
  LET d == drain[t] IN
  /\ d.st = "recv" /\ d.pos < emitted[d.s]
  /\ AppendNext(d.s, d.pos + 1)

LEMMA JournalStep ==
  ASSUME TypeOK, [Next]_vars
  PROVE  UNCHANGED <<nextSeq, journal>> \/ \E t \in Task : DrainTake(t) /\ Commits(t)
<1>1. ASSUME NEW t \in Task, DrainTake(t)
      PROVE  UNCHANGED <<nextSeq, journal>> \/ Commits(t)
  BY <1>1 DEF DrainTake, Commits, AppendOverflow, spoolVars
<1>2. CASE \E t \in Task : DrainTake(t)
  BY <1>1, <1>2
<1>3. CASE UNCHANGED vars
  BY <1>3 DEF vars, spoolVars
<1>4. CASE Next /\ ~\E t \in Task : DrainTake(t)
  BY <1>4 DEF Next, StartWork, Emit, DrainSend, DrainSendFails, ReplayRead, ReplaySend,
     ResumeRead, ResumeSend, Connect, Disconnect, OrbitCrash, AxisClose, AxisCrash,
     OrbitRead, AxisRead, SendAck, SendResume, spoolVars
<1> QED
  BY <1>2, <1>3, <1>4

\* A connection's handler takes a frame and accepts it.
Accepts(c) ==
  /\ AxisRead(c) /\ upWire[c] # <<>>
  /\ Head(upWire[c]).kind = "frame"
  /\ Gate(Head(upWire[c]).s, Head(upWire[c]).seq) = "next"
  /\ Accept(Head(upWire[c]), c)

LEMMA AcceptStep ==
  ASSUME TypeOK, [Next]_vars
  PROVE  UNCHANGED <<watermark, accepted, delivered>> \/ \E c \in Conn : Accepts(c)
<1>1. ASSUME NEW c \in Conn, AxisRead(c)
      PROVE  UNCHANGED <<watermark, accepted, delivered>> \/ Accepts(c)
  BY <1>1 DEF AxisRead, Accepts
<1>2. CASE \E c \in Conn : AxisRead(c)
  BY <1>1, <1>2
<1>3. CASE UNCHANGED vars
  BY <1>3 DEF vars, axisVars
<1>4. CASE Next /\ ~\E c \in Conn : AxisRead(c)
  BY <1>4 DEF Next, StartWork, Emit, DrainTake, DrainSend, DrainSendFails, ReplayRead,
     ReplaySend, ResumeRead, ResumeSend, Connect, Disconnect, OrbitCrash, AxisClose,
     AxisCrash, OrbitRead, SendAck, SendResume, axisVars
<1> QED
  BY <1>2, <1>3, <1>4

LEMMA CommitFacts ==
  ASSUME TypeOK, JournalMatches, NEW t \in Task, Commits(t)
  PROVE  LET s == drain[t].s
             e == drain[t].pos + 1 IN
         /\ s \in Session /\ e \in 1..MaxEvents /\ nextSeq[s] \in Nat
         /\ nextSeq' = [nextSeq EXCEPT ![s] = @ + 1]
         /\ journal' = [journal EXCEPT ![s] = Append(@, e)]
         /\ Len(journal'[s]) = nextSeq'[s]
         /\ \A i \in 1..nextSeq[s] : journal'[s][i] = journal[s][i]
         /\ journal'[s][nextSeq[s] + 1] = e
<1> DEFINE s == drain[t].s
           e == drain[t].pos + 1
<1>1. drain[t] \in [st : {"recv"}, s : Session, pos : Nat, conn : Nat]
  BY DEF TypeOK, Commits, DrainTask, IdleTask
<1>2. s \in Session /\ e \in Nat /\ emitted[s] <= MaxEvents /\ emitted[s] \in Nat
      /\ drain[t].pos \in Nat /\ nextSeq[s] \in Nat /\ journal[s] \in Seq(Nat)
      /\ Len(journal[s]) = nextSeq[s]
  BY <1>1 DEF TypeOK, JournalMatches
<1>3. e \in 1..MaxEvents
  BY <1>2 DEF Commits
<1>4. /\ nextSeq' = [nextSeq EXCEPT ![s] = @ + 1]
      /\ journal' = [journal EXCEPT ![s] = Append(@, e)]
  BY DEF Commits, AppendNext
<1>5. nextSeq'[s] = nextSeq[s] + 1 /\ journal'[s] = Append(journal[s], e)
  BY <1>2, <1>4 DEF TypeOK
<1> HIDE DEF s, e
<1>6. /\ Len(Append(journal[s], e)) = nextSeq[s] + 1
      /\ \A i \in 1..nextSeq[s] : Append(journal[s], e)[i] = journal[s][i]
      /\ Append(journal[s], e)[nextSeq[s] + 1] = e
  BY <1>2, AppendProperties
<1>7. /\ s \in Session /\ e \in 1..MaxEvents /\ nextSeq[s] \in Nat
      /\ Len(journal'[s]) = nextSeq'[s]
      /\ \A i \in 1..nextSeq[s] : journal'[s][i] = journal[s][i]
      /\ journal'[s][nextSeq[s] + 1] = e
  BY <1>2, <1>3, <1>5, <1>6
<1> QED
  BY <1>4, <1>7 DEF s, e

LEMMA AcceptFacts ==
  ASSUME TypeOK, NEW c \in Conn, Accepts(c)
  PROVE  LET f == Head(upWire[c]) IN
         /\ f \in Frame /\ f = upWire[c][1] /\ 1 \in 1..Len(upWire[c])
         /\ f.s \in Session /\ f.seq \in Nat /\ f.seq = watermark[f.s] + 1
         /\ watermark' = [watermark EXCEPT ![f.s] = f.seq]
         /\ accepted' = [accepted EXCEPT ![f.s] = Append(@, f.ev)]
<1> DEFINE f == Head(upWire[c])
<1>1. upWire[c] \in Seq(UpMsg) /\ upWire[c] # <<>>
  BY DEF TypeOK, Accepts
<1>2. f \in UpMsg /\ f = upWire[c][1] /\ 1 \in 1..Len(upWire[c])
  BY <1>1, HeadTailProperties, EmptySeq
<1>3. f \in Frame
  BY <1>2 DEF UpMsg, Hello, Accepts
<1>4. f.s \in Session /\ f.seq \in Nat /\ watermark[f.s] \in Int
  BY <1>3 DEF Frame, TypeOK
<1>5. f.seq = watermark[f.s] + 1
  BY <1>4 DEF Accepts, Gate
<1>6. /\ watermark' = [watermark EXCEPT ![f.s] = f.seq]
      /\ accepted' = [accepted EXCEPT ![f.s] = Append(@, f.ev)]
  BY DEF Accepts, Accept
<1> QED
  BY <1>2, <1>3, <1>4, <1>5, <1>6

\* The watermark never falls.
LEMMA WatermarkGrows ==
  ASSUME TypeOK, [Next]_vars
  PROVE  \A s \in Session : watermark[s] \in Int /\ watermark'[s] \in Int
                            /\ watermark[s] <= watermark'[s]
<1>1. \A s \in Session : watermark[s] \in Int
  BY DEF TypeOK
<1>2. CASE UNCHANGED <<watermark, accepted, delivered>>
  BY <1>1, <1>2
<1>3. ASSUME NEW c \in Conn, Accepts(c)
      PROVE  \A s \in Session : watermark'[s] \in Int /\ watermark[s] <= watermark'[s]
  <2>1. PICK f \in Frame :
          /\ f.s \in Session /\ f.seq \in Nat /\ f.seq = watermark[f.s] + 1
          /\ watermark' = [watermark EXCEPT ![f.s] = f.seq]
    BY <1>3, AcceptFacts
  <2> QED
    BY <1>1, <2>1, SMTT(30) DEF TypeOK
<1> QED
  BY <1>1, <1>2, <1>3, AcceptStep

\* Sound, of the state a step leads to.
SoundNext(f) == f.seq < nextSeq'[f.s] /\ f.ev = journal'[f.s][f.seq + 1]

\* What a frame carries stays what was committed under its number.
LEMMA SoundStable ==
  ASSUME TypeOK, JournalMatches, [Next]_vars, NEW f \in Frame, Sound(f)
  PROVE  SoundNext(f)
<1>1. f.s \in Session /\ f.seq \in Nat
  BY DEF Frame
<1>2. CASE UNCHANGED <<nextSeq, journal>>
  BY <1>2 DEF SoundNext, Sound, SoundNext
<1>3. ASSUME NEW t \in Task, Commits(t)
      PROVE  SoundNext(f)
  <2>1. CASE f.s = drain[t].s
    <3>1. /\ nextSeq[f.s] \in Nat /\ nextSeq'[f.s] = nextSeq[f.s] + 1
          /\ \A i \in 1..nextSeq[f.s] : journal'[f.s][i] = journal[f.s][i]
      BY <1>1, <1>3, <2>1, CommitFacts DEF TypeOK
    <3>2. f.seq < nextSeq[f.s] /\ f.ev = journal[f.s][f.seq + 1]
      BY DEF SoundNext, Sound, SoundNext
    <3>3. f.seq + 1 \in 1..nextSeq[f.s]
      BY <1>1, <3>1, <3>2
    <3> QED
      BY <1>1, <3>1, <3>2, <3>3 DEF SoundNext, Sound, SoundNext
  <2>2. CASE f.s # drain[t].s
    BY <1>1, <1>3, <2>2, CommitFacts, ZenonT(40) DEF SoundNext, Sound, TypeOK
  <2> QED
    BY <2>1, <2>2
<1> QED
  BY <1>2, <1>3, JournalStep
-----------------------------------------------------------------------------
(***************************************************************************)
(* Each part of the inductive invariant is preserved.                      *)
(***************************************************************************)
LEMMA JournalMatchesNext ==
  ASSUME TypeOK, JournalMatches, [Next]_vars
  PROVE  JournalMatches'
<1>1. \A s \in Session : emitted'[s] <= MaxEvents /\ emitted'[s] \in Nat
                         /\ emitted[s] <= emitted'[s]
  <2>1. CASE UNCHANGED emitted
    BY <2>1 DEF JournalMatches, TypeOK
  <2>2. ASSUME NEW s \in Session, NEW terminal \in BOOLEAN, Emit(s, terminal)
        PROVE  \A r \in Session : emitted'[r] <= MaxEvents /\ emitted'[r] \in Nat
                                  /\ emitted[r] <= emitted'[r]
    BY <2>2, SMTT(30) DEF JournalMatches, TypeOK, Emit
  <2>3. CASE Next /\ ~\E s \in Session, terminal \in BOOLEAN : Emit(s, terminal)
    <3>1. UNCHANGED emitted
      BY <2>3 DEF Next, StartWork, DrainTake, DrainSend, DrainSendFails, ReplayRead,
         ReplaySend, ResumeRead, ResumeSend, Connect, Disconnect, OrbitCrash, AxisClose,
         AxisCrash, OrbitRead, AxisRead, SendAck, SendResume, producerVars
    <3> QED
      BY <2>1, <3>1
  <2> QED
    BY <2>1, <2>2, <2>3 DEF vars, producerVars
<1>2. \A s \in Session : Len(journal'[s]) = nextSeq'[s]
  <2>1. CASE UNCHANGED <<nextSeq, journal>>
    BY <2>1 DEF JournalMatches
  <2>2. ASSUME NEW t \in Task, Commits(t)
        PROVE  \A s \in Session : Len(journal'[s]) = nextSeq'[s]
    BY <2>2, CommitFacts DEF JournalMatches, TypeOK
  <2> QED
    BY <2>1, <2>2, JournalStep
<1>3. \A t \in Task : drain'[t].st # "idle" =>
        drain'[t].s \in Session /\ drain'[t].pos <= emitted'[drain'[t].s]
  <2> DEFINE Behind(d, em) == d.st # "idle" => d.s \in Session /\ d.pos <= em[d.s]
  <2>1. \A t \in Task : /\ drain[t].st # "idle" =>
                             /\ drain[t].s \in Session /\ drain[t].pos \in Nat
                             /\ emitted[drain[t].s] \in Nat
                        /\ Behind(drain[t], emitted)
    BY DEF JournalMatches, TypeOK, DrainTask, IdleTask
  <2>2. \A t \in Task : Behind(drain[t], emitted')
    BY <1>1, <2>1
  <2>3. CASE UNCHANGED drain
    BY <2>2, <2>3
  <2>4. ASSUME NEW t \in Task, NEW s \in Session, StartWork(t, s)
        PROVE  \A u \in Task : Behind(drain'[u], emitted')
    BY <2>2, <2>4 DEF StartWork, TypeOK
  <2>5. ASSUME NEW t \in Task, DrainTake(t)
        PROVE  \A u \in Task : Behind(drain'[u], emitted')
    <3>1. emitted' = emitted
      BY <2>5 DEF DrainTake, producerVars
    <3>2. drain[t].s \in Session /\ drain[t].pos \in Nat /\ emitted[drain[t].s] \in Nat
          /\ drain[t].pos + 1 <= emitted[drain[t].s]
      BY <2>1, <2>5 DEF DrainTake
    <3> QED
      <4>1. \A u \in Task \ {t} : drain'[u] = drain[u]
        BY <2>5 DEF DrainTake, TypeOK
      <4>2. \/ drain'[t] = IdleTask
            \/ drain'[t].s = drain[t].s /\ drain'[t].pos = drain[t].pos + 1
        <5> DEFINE new == [st |-> "send", s |-> drain[t].s, pos |-> drain[t].pos + 1,
                           conn |-> drain[t].conn,
                           frame |-> FrameOf(drain[t].s, nextSeq[drain[t].s],
                                             drain[t].pos + 1)]
        <5>1. drain' = [drain EXCEPT ![t] = new] \/ drain' = [drain EXCEPT ![t] = IdleTask]
          BY <2>5 DEF DrainTake
        <5>2. new.s = drain[t].s /\ new.pos = drain[t].pos + 1
          OBVIOUS
        <5> HIDE DEF new
        <5> QED
          <6>1. drain \in [Task -> DrainTask]
            BY DEF TypeOK
          <6>2. drain'[t] = new \/ drain'[t] = IdleTask
            BY <5>1, <6>1
          <6> QED
            BY <5>2, <6>2
      <4> QED
        BY <2>1, <3>1, <3>2, <4>1, <4>2 DEF IdleTask
  <2>6. ASSUME NEW t \in Task, DrainSend(t) \/ DrainSendFails(t)
        PROVE  \A u \in Task : Behind(drain'[u], emitted')
    <3>1. emitted' = emitted
      BY <2>6 DEF DrainSend, DrainSendFails, producerVars
    <3> QED
      <4>1. \A u \in Task \ {t} : drain'[u] = drain[u]
        BY <2>6 DEF DrainSend, DrainSendFails, TypeOK
      <4>2. \/ drain'[t] = IdleTask
            \/ /\ drain[t].st = "send"
               /\ drain'[t].s = drain[t].s /\ drain'[t].pos = drain[t].pos
        BY <2>6, SMTT(30) DEF DrainSend, DrainSendFails, TypeOK
      <4> QED
        BY <2>1, <3>1, <4>1, <4>2 DEF IdleTask
  <2>7. CASE OrbitCrash
    BY <2>7 DEF OrbitCrash, IdleTask
  <2>8. CASE Next /\ ~OrbitCrash
             /\ ~\E t \in Task : \/ \E s \in Session : StartWork(t, s)
                                 \/ DrainTake(t) \/ DrainSend(t) \/ DrainSendFails(t)
    <3>1. UNCHANGED drain
      BY <2>8 DEF Next, Emit, ReplayRead, ReplaySend, ResumeRead, ResumeSend, Connect,
         Disconnect, AxisClose, AxisCrash, OrbitRead, AxisRead, SendAck, SendResume,
         taskVars
    <3> QED
      BY <2>3, <3>1
  <2> QED
    BY <2>3, <2>4, <2>5, <2>6, <2>7, <2>8 DEF vars, taskVars
<1> QED
  BY <1>1, <1>2, <1>3 DEF JournalMatches

\* The frame a drain task takes is sound once it is committed.
LEMMA CommittedFrameSound ==
  ASSUME TypeOK, JournalMatches, NEW t \in Task, Commits(t)
  PROVE  LET f == FrameOf(drain[t].s, nextSeq[drain[t].s], drain[t].pos + 1) IN
         f.s = drain[t].s /\ SoundNext(f)
<1> DEFINE s == drain[t].s
           f == FrameOf(s, nextSeq[s], drain[t].pos + 1)
<1>1. f.s = s /\ f.seq = nextSeq[s] /\ f.ev = drain[t].pos + 1
  BY DEF FrameOf
<1>2. /\ s \in Session /\ nextSeq[s] \in Nat
      /\ nextSeq'[s] = nextSeq[s] + 1
      /\ journal'[s][nextSeq[s] + 1] = drain[t].pos + 1
  BY CommitFacts DEF TypeOK
<1> QED
  BY <1>1, <1>2 DEF SoundNext

\* The Orbit's read loop only removes rows: those of the Ack it handles.
LEMMA OrbitReadRemoves ==
  ASSUME TypeOK, OrbitRead
  PROVE  \/ UNCHANGED spool
         \/ \E m \in AckMsg :
              /\ m = downWire[link][1] /\ link \in Conn /\ 1 \in 1..Len(downWire[link])
              /\ spool' = [spool EXCEPT ![m.s] = {f \in spool[m.s] : f.seq > m.seq}]
<1> DEFINE m == Head(downWire[link])
<1>1. link \in Conn /\ downWire[link] \in Seq(DownMsg) /\ downWire[link] # <<>>
  BY DEF TypeOK, OrbitRead, Conn
<1>2. m \in DownMsg /\ m = downWire[link][1] /\ 1 \in 1..Len(downWire[link])
  BY <1>1, HeadTailProperties, EmptySeq
<1>3. CASE UNCHANGED spool
  BY <1>3
<1>4. CASE m.kind = "ack" /\ Acknowledge(m)
  <2>1. m \in AckMsg
    BY <1>2, <1>4 DEF DownMsg, ResumeMsg
  <2>2. \/ UNCHANGED spool
        \/ spool' = [spool EXCEPT ![m.s] = {f \in spool[m.s] : f.seq > m.seq}]
    BY <1>4 DEF Acknowledge
  <2> QED
    BY <1>1, <1>2, <2>1, <2>2
<1> QED
  BY <1>3, <1>4 DEF OrbitRead

LEMMA SpoolSound ==
  ASSUME TypeOK, JournalMatches, FramesSound, [Next]_vars
  PROVE  \A s \in Session : \A f \in spool'[s] : f.s = s /\ SoundNext(f)
<1>1. \A s \in Session : \A f \in spool[s] : f.s = s /\ SoundNext(f)
  BY SoundStable DEF FramesSound, TypeOK
<1>2. CASE \A s \in Session : spool'[s] \subseteq spool[s]
  BY <1>1, <1>2
<1>3. ASSUME NEW t \in Task, DrainTake(t)
      PROVE  \A s \in Session : \A f \in spool'[s] : f.s = s /\ SoundNext(f)
  <2>1. CASE UNCHANGED spool
    BY <1>1, <2>1
  <2>2. CASE Commits(t)
    <3> DEFINE f == FrameOf(drain[t].s, nextSeq[drain[t].s], drain[t].pos + 1)
    <3>1. spool' = [spool EXCEPT ![drain[t].s] = @ \cup {f}]
      BY <2>2 DEF Commits, AppendNext
    <3>2. f.s = drain[t].s /\ SoundNext(f)
      BY <2>2, CommittedFrameSound
    <3> HIDE DEF f
    <3> QED
      <4>1. \A s \in Session : spool'[s] \subseteq spool[s] \/ s = drain[t].s
        BY <3>1 DEF TypeOK
      <4>2. drain[t].s \in Session => spool'[drain[t].s] = spool[drain[t].s] \cup {f}
        BY <3>1 DEF TypeOK
      <4> QED
        BY <1>1, <3>2, <4>1, <4>2
  <2> QED
    BY <1>3, <2>1, <2>2 DEF DrainTake, Commits, AppendOverflow, spoolVars
<1>4. CASE OrbitRead
  <2>1. \A s \in Session : spool'[s] \subseteq spool[s]
    <3>1. CASE UNCHANGED spool
      BY <3>1
    <3>2. ASSUME NEW m \in AckMsg,
                 spool' = [spool EXCEPT ![m.s] = {f \in spool[m.s] : f.seq > m.seq}]
          PROVE  \A s \in Session : spool'[s] \subseteq spool[s]
      <4>1. \A s \in Session : spool'[s] = IF s = m.s
                                           THEN {f \in spool[m.s] : f.seq > m.seq}
                                           ELSE spool[s]
        BY <3>2 DEF TypeOK
      <4> QED
        BY <4>1
    <3> QED
      BY <1>4, <3>1, <3>2, OrbitReadRemoves
  <2> QED
    BY <1>2, <2>1
<1>5. CASE UNCHANGED spool
  BY <1>2, <1>5
<1>6. CASE Next /\ ~OrbitRead /\ ~\E t \in Task : DrainTake(t)
  <2>1. UNCHANGED spool
    BY <1>6 DEF Next, StartWork, Emit, DrainSend, DrainSendFails, ReplayRead, ReplaySend,
       ResumeRead, ResumeSend, Connect, Disconnect, OrbitCrash, AxisClose, AxisCrash,
       AxisRead, SendAck, SendResume, spoolVars
  <2> QED
    BY <1>5, <2>1
<1> QED
  BY <1>3, <1>4, <1>5, <1>6 DEF vars, spoolVars

LEMMA DrainSound ==
  ASSUME TypeOK, JournalMatches, FramesSound, [Next]_vars
  PROVE  \A t \in Task : drain'[t].st = "send" => SoundNext(drain'[t].frame)
<1>1. \A t \in Task : drain[t].st = "send" =>
        drain[t].frame \in Frame /\ Sound(drain[t].frame)
  <2>1. ASSUME NEW t \in Task, drain[t].st = "send" PROVE drain[t].frame \in Frame
    <3>1. drain[t] \in DrainTask
      BY DEF TypeOK
    <3> QED
      BY <2>1, <3>1 DEF DrainTask, IdleTask
  <2> QED
    BY <2>1 DEF FramesSound
<1>2. \A t \in Task : drain[t].st = "send" => SoundNext(drain[t].frame)
  BY <1>1, SoundStable
<1>3. ASSUME NEW t \in Task, DrainTake(t)
      PROVE  \A u \in Task : drain'[u].st = "send" => SoundNext(drain'[u].frame)
  <2> DEFINE f == FrameOf(drain[t].s, nextSeq[drain[t].s], drain[t].pos + 1)
             new == [st |-> "send", s |-> drain[t].s, pos |-> drain[t].pos + 1,
                     conn |-> drain[t].conn, frame |-> f]
  <2>1. CASE Commits(t) /\ drain' = [drain EXCEPT ![t] = new]
    <3>1. SoundNext(f)
      BY <2>1, CommittedFrameSound
    <3>2. drain'[t] = new /\ \A u \in Task \ {t} : drain'[u] = drain[u]
      BY <2>1 DEF TypeOK
    <3>3. new.frame = f
      OBVIOUS
    <3> HIDE DEF f, new
    <3> QED
      BY <1>2, <3>1, <3>2, <3>3
  <2>2. CASE drain' = [drain EXCEPT ![t] = IdleTask]
    BY <1>2, <2>2 DEF TypeOK, IdleTask
  <2> QED
    BY <1>3, <2>1, <2>2 DEF DrainTake, Commits
<1>4. ASSUME NEW t \in Task,
             \/ DrainSend(t) \/ DrainSendFails(t)
             \/ \E s \in Session : StartWork(t, s)
      PROVE  \A u \in Task : drain'[u].st = "send" => SoundNext(drain'[u].frame)
  <2>1. drain'[t].st # "send" /\ \A u \in Task \ {t} : drain'[u] = drain[u]
    BY <1>4 DEF DrainSend, DrainSendFails, StartWork, IdleTask, TypeOK
  <2> QED
    BY <1>2, <2>1
<1>5. CASE OrbitCrash
  BY <1>5 DEF OrbitCrash, IdleTask
<1>6. CASE UNCHANGED drain
  BY <1>2, <1>6
<1>7. CASE Next /\ ~OrbitCrash
           /\ ~\E t \in Task : \/ \E s \in Session : StartWork(t, s)
                               \/ DrainTake(t) \/ DrainSend(t) \/ DrainSendFails(t)
  <2>1. UNCHANGED drain
    BY <1>7 DEF Next, Emit, ReplayRead, ReplaySend, ResumeRead, ResumeSend, Connect,
       Disconnect, AxisClose, AxisCrash, OrbitRead, AxisRead, SendAck, SendResume,
       taskVars
  <2> QED
    BY <1>6, <2>1
<1> QED
  BY <1>3, <1>4, <1>5, <1>6, <1>7 DEF vars, taskVars

LEMMA ReplaySound ==
  ASSUME TypeOK, JournalMatches, FramesSound, [Next]_vars
  PROVE  \A f \in replay'.batch : SoundNext(f)
<1>1. \A f \in replay.batch : SoundNext(f)
  BY SoundStable DEF FramesSound, TypeOK, ReplayTask
<1>2. \A s \in Session : \A f \in spool[s] : SoundNext(f)
  BY SoundStable DEF FramesSound, TypeOK
<1>3. ASSUME NEW s \in Session, ReplayRead(s)
      PROVE  \A f \in replay'.batch : SoundNext(f)
  <2>1. replay'.batch \subseteq spool[s]
    BY <1>3 DEF ReplayRead, TypeOK, ReplayTask
  <2> QED
    BY <1>2, <2>1
<1>4. CASE ReplaySend
  <2>1. replay'.batch \subseteq replay.batch
    BY <1>4 DEF ReplaySend
  <2> QED
    BY <1>1, <2>1
<1>5. CASE LinkLost
  BY <1>5 DEF LinkLost, FreshReplay
<1>6. CASE UNCHANGED replay
  BY <1>1, <1>6
<1>7. CASE Next /\ ~LinkLost /\ ~ReplaySend /\ ~\E s \in Session : ReplayRead(s)
  <2>1. UNCHANGED replay
    BY <1>7 DEF Next, StartWork, Emit, DrainTake, DrainSend, DrainSendFails, ResumeRead,
       ResumeSend, Connect, Disconnect, OrbitCrash, AxisClose, AxisCrash, OrbitRead,
       AxisRead, SendAck, SendResume, taskVars
  <2> QED
    BY <1>6, <2>1
<1> QED
  BY <1>3, <1>4, <1>5, <1>6, <1>7 DEF vars, taskVars

LEMMA ResumeSound ==
  ASSUME TypeOK, JournalMatches, FramesSound, [Next]_vars
  PROVE  \A s \in Session :
           resume'[s].st = "send" => \A f \in resume'[s].batch : SoundNext(f)
<1> DEFINE Ok(r) == r.st = "send" => \A f \in r.batch : SoundNext(f)
<1>1. \A s \in Session : Ok(resume[s])
  <2>1. ASSUME NEW s \in Session, resume[s].st = "send" PROVE resume[s].batch \subseteq Frame
    <3>1. resume[s] \in ResumeTask
      BY DEF TypeOK
    <3> QED
      BY <2>1, <3>1 DEF ResumeTask, IdleTask
  <2> QED
    BY <2>1, SoundStable DEF FramesSound
<1>2. \A s \in Session : \A f \in spool[s] : SoundNext(f)
  BY SoundStable DEF FramesSound, TypeOK
<1>3. Ok(IdleTask)
  BY DEF IdleTask
<1>4. resume \in [Session -> ResumeTask]
  BY DEF TypeOK
<1>5. ASSUME NEW s \in Session, ResumeRead(s)
      PROVE  \A r \in Session : Ok(resume'[r])
  <2>1. PICK rows \in SUBSET spool[s] :
          \/ resume' = [resume EXCEPT ![s] = IdleTask]
          \/ resume' = [resume EXCEPT ![s] = [st |-> "send", batch |-> rows]]
    BY <1>5 DEF ResumeRead
  <2>2. Ok([st |-> "send", batch |-> rows])
    BY <1>2
  <2> HIDE DEF Ok
  <2> QED
    BY <1>1, <1>3, <1>4, <2>1, <2>2
<1>6. ASSUME NEW s \in Session, ResumeSend(s)
      PROVE  \A r \in Session : Ok(resume'[r])
  <2>1. PICK rest \in SUBSET resume[s].batch :
          \/ resume' = [resume EXCEPT ![s] = IdleTask]
          \/ resume' = [resume EXCEPT ![s] = [st |-> "send", batch |-> rest]]
    BY <1>6 DEF ResumeSend
  <2>2. Ok([st |-> "send", batch |-> rest])
    BY <1>1, <1>6 DEF ResumeSend
  <2> HIDE DEF Ok
  <2> QED
    BY <1>1, <1>3, <1>4, <2>1, <2>2
<1>7. CASE OrbitRead
  <2> DEFINE m == Head(downWire[link])
  <2>1. \/ UNCHANGED resume
        \/ resume' = [resume EXCEPT ![m.s] = [st |-> "read", after |-> m.after]]
    BY <1>7 DEF OrbitRead
  <2>3. CASE UNCHANGED resume
    BY <1>1, <2>3
  <2>4. CASE resume' = [resume EXCEPT ![m.s] = [st |-> "read", after |-> m.after]]
    <3>1. \A r \in Session : resume'[r] = resume[r] \/ resume'[r].st = "read"
      BY <1>4, <2>4
    <3> QED
      BY <1>1, <3>1
  <2> QED
    BY <2>1, <2>3, <2>4
<1>8. CASE LinkLost
  BY <1>8, <1>3 DEF LinkLost, FreshResume
<1>9. CASE UNCHANGED resume
  BY <1>1, <1>9
<1>10. CASE Next /\ ~LinkLost /\ ~OrbitRead
            /\ ~\E s \in Session : ResumeRead(s) \/ ResumeSend(s)
  <2>1. UNCHANGED resume
    BY <1>10 DEF Next, StartWork, Emit, DrainTake, DrainSend, DrainSendFails, ReplayRead,
       ReplaySend, Connect, Disconnect, OrbitCrash, AxisClose, AxisCrash, AxisRead,
       SendAck, SendResume, taskVars
  <2> QED
    BY <1>9, <2>1
<1> QED
  BY <1>5, <1>6, <1>7, <1>8, <1>9, <1>10 DEF vars, taskVars

\* A step changes one connection's upward wire by a sound frame or a Hello at
\* its end, or by dropping frames from its front.
UpStep(c) ==
  \/ upWire'[c] = upWire[c]
  \/ \E m \in UpMsg : /\ m.kind = "frame" => Sound(m)
                      /\ upWire'[c] = Append(upWire[c], m)
  \/ upWire[c] # <<>> /\ upWire'[c] = Tail(upWire[c])
  \/ \E h \in Hello : upWire'[c] = <<h>>
  \/ upWire'[c] = <<>>

LEMMA UpWireStep ==
  ASSUME TypeOK, FramesSound, [Next]_vars
  PROVE  \A c \in Conn : UpStep(c)
<1>1. upWire \in [Conn -> Seq(UpMsg)]
  BY DEF TypeOK
<1>2. ASSUME NEW f \in Frame, Sound(f), upWire' = [upWire EXCEPT ![link] = Append(@, f)]
      PROVE  \A c \in Conn : UpStep(c)
  BY <1>1, <1>2 DEF UpStep, UpMsg
<1>3. ASSUME NEW t \in Task, DrainSend(t)
      PROVE  \A c \in Conn : UpStep(c)
  <2>1. drain[t].frame \in Frame /\ Sound(drain[t].frame)
    <3>1. drain[t] \in DrainTask /\ drain[t].st = "send"
      BY <1>3 DEF TypeOK, DrainSend
    <3> QED
      BY <3>1 DEF FramesSound, DrainTask, IdleTask
  <2> QED
    BY <1>2, <1>3, <2>1 DEF DrainSend
<1>4. CASE ReplaySend
  <2>1. replay.batch \subseteq Frame /\ \A f \in replay.batch : Sound(f)
    BY DEF TypeOK, ReplayTask, FramesSound
  <2> QED
    BY <1>2, <1>4, <2>1 DEF ReplaySend, First
<1>5. ASSUME NEW s \in Session, ResumeSend(s)
      PROVE  \A c \in Conn : UpStep(c)
  <2>1. resume[s].batch \subseteq Frame /\ \A f \in resume[s].batch : Sound(f)
    <3>1. resume[s] \in ResumeTask /\ resume[s].st = "send"
      BY <1>5 DEF TypeOK, ResumeSend
    <3> QED
      BY <3>1 DEF FramesSound, ResumeTask, IdleTask
  <2> QED
    BY <1>2, <1>5, <2>1 DEF ResumeSend, First
<1>6. ASSUME NEW c \in Conn, AxisRead(c)
      PROVE  \A d \in Conn : UpStep(d)
  BY <1>1, <1>6 DEF AxisRead, UpStep
<1>7. CASE Connect
  <2>1. PICK h \in Hello : upWire' = [upWire EXCEPT ![link'] = <<h>>]
    BY <1>7 DEF Connect, Hello
  <2> QED
    BY <1>1, <2>1 DEF UpStep
<1>8. ASSUME NEW c \in Conn, AxisClose(c)
      PROVE  \A d \in Conn : UpStep(d)
  BY <1>1, <1>8 DEF AxisClose, UpStep
<1>9. CASE AxisCrash
  BY <1>9 DEF AxisCrash, UpStep
<1>10. CASE UNCHANGED upWire
  BY <1>10 DEF UpStep
<1>11. CASE /\ Next /\ ~ReplaySend /\ ~Connect /\ ~AxisCrash
            /\ ~\E t \in Task : DrainSend(t)
            /\ ~\E s \in Session : ResumeSend(s)
            /\ ~\E c \in Conn : AxisRead(c) \/ AxisClose(c)
  <2>1. UNCHANGED upWire
    BY <1>11 DEF Next, StartWork, Emit, DrainTake, DrainSendFails, ReplayRead, ResumeRead,
       Disconnect, OrbitCrash, OrbitRead, SendAck, SendResume, wireVars
  <2> QED
    BY <1>10, <2>1
<1> QED
  BY <1>3, <1>4, <1>5, <1>6, <1>7, <1>8, <1>9, <1>10, <1>11 DEF vars, wireVars

LEMMA UpWireSound ==
  ASSUME TypeOK, JournalMatches, FramesSound, [Next]_vars
  PROVE  \A c \in Conn : \A i \in 1..Len(upWire'[c]) :
           upWire'[c][i].kind = "frame" => SoundNext(upWire'[c][i])
<1> SUFFICES ASSUME NEW c \in Conn
             PROVE  \A i \in 1..Len(upWire'[c]) :
                      upWire'[c][i].kind = "frame" => SoundNext(upWire'[c][i])
  OBVIOUS
<1> DEFINE Ok(m) == m.kind = "frame" => SoundNext(m)
<1>1. upWire[c] \in Seq(UpMsg)
  BY DEF TypeOK
<1>2. \A m \in UpMsg : (m.kind = "frame" => Sound(m)) => Ok(m)
  BY SoundStable DEF UpMsg, Hello
<1>3. \A i \in 1..Len(upWire[c]) : Ok(upWire[c][i])
  BY <1>1, <1>2, ElementOfSeq DEF FramesSound
<1>4. \A h \in Hello : Ok(h)
  BY DEF Hello
<1> HIDE DEF Ok
<1>5. \A i \in 1..Len(upWire'[c]) : Ok(upWire'[c][i])
  <2>1. CASE upWire'[c] = upWire[c]
    BY <1>3, <2>1
  <2>2. ASSUME NEW m \in UpMsg, m.kind = "frame" => Sound(m),
               upWire'[c] = Append(upWire[c], m)
        PROVE  \A i \in 1..Len(upWire'[c]) : Ok(upWire'[c][i])
    BY <1>1, <1>2, <1>3, <2>2, AppendProperties, LenProperties
  <2>3. CASE upWire[c] # <<>> /\ upWire'[c] = Tail(upWire[c])
    BY <1>1, <1>3, <2>3, HeadTailProperties, LenProperties
  <2>4. ASSUME NEW h \in Hello, upWire'[c] = <<h>>
        PROVE  \A i \in 1..Len(upWire'[c]) : Ok(upWire'[c][i])
    BY <1>4, <2>4
  <2>5. CASE upWire'[c] = <<>>
    BY <2>5
  <2> QED
    BY <2>1, <2>2, <2>3, <2>4, <2>5, UpWireStep DEF UpStep
<1> QED
  BY <1>5 DEF Ok

LEMMA FramesSoundNext ==
  ASSUME TypeOK, JournalMatches, FramesSound, [Next]_vars
  PROVE  FramesSound'
BY SpoolSound, DrainSound, ReplaySound, ResumeSound, UpWireSound
DEF FramesSound, Sound, SoundNext

\* A frame the gate accepts is sound: it was on the connection.
LEMMA AcceptedFrameSound ==
  ASSUME TypeOK, FramesSound, NEW c \in Conn, Accepts(c)
  PROVE  LET f == Head(upWire[c]) IN Sound(f) /\ f.seq < nextSeq[f.s]
<1> DEFINE f == Head(upWire[c])
<1>1. f = upWire[c][1] /\ 1 \in 1..Len(upWire[c]) /\ f.kind = "frame"
  BY AcceptFacts DEF Accepts
<1>2. Sound(f)
  BY <1>1 DEF FramesSound
<1> QED
  BY <1>2 DEF Sound

LEMMA AcceptedMatchesNext ==
  ASSUME TypeOK, JournalMatches, FramesSound, AcceptedMatches, [Next]_vars
  PROVE  AcceptedMatches'
<1> DEFINE Matches(w, n, a, j) == /\ -1 <= w /\ w < n /\ Len(a) = w + 1
                                  /\ \A i \in 1..Len(a) : a[i] = j[i]
<1> SUFFICES ASSUME NEW s \in Session
             PROVE  Matches(watermark'[s], nextSeq'[s], accepted'[s], journal'[s])
  BY DEF AcceptedMatches
<1>1. /\ Matches(watermark[s], nextSeq[s], accepted[s], journal[s])
      /\ watermark[s] \in Int /\ nextSeq[s] \in Nat
      /\ accepted[s] \in Seq(Nat) /\ Len(accepted[s]) \in Nat
  BY LenProperties DEF AcceptedMatches, TypeOK
<1>2. /\ nextSeq'[s] \in Nat /\ nextSeq[s] <= nextSeq'[s]
      /\ \A i \in 1..nextSeq[s] : journal'[s][i] = journal[s][i]
  <2>1. CASE UNCHANGED <<nextSeq, journal>>
    BY <1>1, <2>1
  <2>2. ASSUME NEW t \in Task, Commits(t)
        PROVE  /\ nextSeq'[s] \in Nat /\ nextSeq[s] <= nextSeq'[s]
               /\ \A i \in 1..nextSeq[s] : journal'[s][i] = journal[s][i]
    <3> DEFINE r == drain[t].s
    <3>1. /\ r \in Session
          /\ nextSeq' = [nextSeq EXCEPT ![r] = @ + 1]
          /\ journal' = [journal EXCEPT ![r] = Append(@, drain[t].pos + 1)]
          /\ \A i \in 1..nextSeq[r] : journal'[r][i] = journal[r][i]
      BY <2>2, CommitFacts
    <3>2. nextSeq \in [Session -> Nat] /\ journal \in [Session -> Seq(Nat)]
      BY DEF TypeOK
    <3> HIDE DEF r
    <3>3. CASE s = r
      <4>1. nextSeq'[s] = nextSeq[s] + 1
        BY <3>3, <3>2, <3>1
      <4>2. \A i \in 1..nextSeq[s] : journal'[s][i] = journal[s][i]
        BY <3>3, <3>1
      <4> QED
        BY <1>1, <4>1, <4>2
    <3>4. CASE s # r
      BY <1>1, <3>1, <3>2, <3>4
    <3> QED
      BY <3>3, <3>4
  <2> QED
    BY <2>1, <2>2, JournalStep
<1>3. CASE watermark'[s] = watermark[s] /\ accepted'[s] = accepted[s]
  <2>1. \A i \in 1..Len(accepted[s]) : i \in 1..nextSeq[s]
    BY <1>1
  <2>2. \A i \in 1..Len(accepted[s]) : accepted[s][i] = journal'[s][i]
    BY <1>1, <1>2, <2>1
  <2>3. -1 <= watermark[s] /\ watermark[s] < nextSeq'[s] /\ Len(accepted[s]) = watermark[s] + 1
    BY <1>1, <1>2
  <2> QED
    BY <1>3, <2>2, <2>3
<1>4. ASSUME NEW c \in Conn, Accepts(c), Head(upWire[c]).s = s
      PROVE  Matches(watermark'[s], nextSeq'[s], accepted'[s], journal'[s])
  <2> DEFINE f == Head(upWire[c])
  <2>1. /\ f.seq = watermark[s] + 1 /\ f.seq \in Nat /\ f.ev \in Nat
        /\ watermark'[s] = f.seq
        /\ accepted'[s] = Append(accepted[s], f.ev)
    <3>1. /\ f \in Frame /\ f.seq = watermark[f.s] + 1
          /\ watermark' = [watermark EXCEPT ![f.s] = f.seq]
          /\ accepted' = [accepted EXCEPT ![f.s] = Append(@, f.ev)]
      BY <1>4, AcceptFacts
    <3>2. f.seq \in Nat /\ f.ev \in Nat
      BY <3>1 DEF Frame
    <3>3. f.s = s
      BY <1>4
    <3> HIDE DEF f
    <3> QED
      BY <3>1, <3>2, <3>3 DEF TypeOK
  <2>2. f.seq < nextSeq[s] /\ f.ev = journal[s][f.seq + 1]
    BY <1>4, AcceptedFrameSound DEF Sound
  <2> HIDE DEF f
  <2>3. /\ Len(accepted'[s]) = Len(accepted[s]) + 1
        /\ \A i \in 1..Len(accepted[s]) : accepted'[s][i] = accepted[s][i]
        /\ accepted'[s][Len(accepted[s]) + 1] = f.ev
    BY <1>1, <2>1, AppendProperties
  <2>4. \A i \in 1..Len(accepted'[s]) : accepted'[s][i] = journal[s][i] /\ i \in 1..nextSeq[s]
    BY <1>1, <2>1, <2>2, <2>3
  <2>5. \A i \in 1..Len(accepted'[s]) : accepted'[s][i] = journal'[s][i]
    BY <1>2, <2>4
  <2>6. -1 <= watermark'[s] /\ watermark'[s] < nextSeq'[s]
        /\ Len(accepted'[s]) = watermark'[s] + 1
    BY <1>1, <1>2, <2>1, <2>2, <2>3
  <2> QED
    BY <2>5, <2>6
<1>5. CASE UNCHANGED <<watermark, accepted, delivered>>
  BY <1>3, <1>5
<1>6. ASSUME NEW c \in Conn, Accepts(c), Head(upWire[c]).s # s
      PROVE  Matches(watermark'[s], nextSeq'[s], accepted'[s], journal'[s])
  <2>1. watermark'[s] = watermark[s] /\ accepted'[s] = accepted[s]
    BY <1>6, AcceptFacts, SMTT(30) DEF TypeOK
  <2> QED
    BY <1>3, <2>1
<1> QED
  BY <1>4, <1>5, <1>6, AcceptStep

\* A step changes one connection's downward wire by a covered message at its
\* end, or by dropping messages.
AckCovered(m) == m.kind = "ack" => m.seq <= watermark'[m.s]

DownStep(c) ==
  \/ downWire'[c] = downWire[c]
  \/ \E m \in DownMsg : AckCovered(m) /\ downWire'[c] = Append(downWire[c], m)
  \/ downWire[c] # <<>> /\ downWire'[c] = Tail(downWire[c])
  \/ downWire'[c] = <<>>

LEMMA DownWireStep ==
  ASSUME TypeOK, AcksSound, [Next]_vars
  PROVE  \A c \in Conn : DownStep(c)
<1>1. downWire \in [Conn -> Seq(DownMsg)]
  BY DEF TypeOK
<1>2. ASSUME NEW d \in Conn, NEW m \in DownMsg, AckCovered(m), Reply(d, m)
      PROVE  \A c \in Conn : DownStep(c)
  BY <1>1, <1>2 DEF Reply, DownStep
<1>3. \A s \in Session : watermark[s] \in Int /\ watermark'[s] \in Int
                         /\ watermark[s] <= watermark'[s]
  BY WatermarkGrows
<1>4. ASSUME NEW d \in Conn, SendAck(d)
      PROVE  \A c \in Conn : DownStep(c)
  <2> DEFINE f == applying[d].frame
  <2>1. f \in Frame /\ f.seq <= watermark[f.s]
    <3>1. applying[d] \in Answer /\ applying[d].kind = "ack"
      BY <1>4 DEF TypeOK, SendAck
    <3> QED
      BY <3>1 DEF Answer, None, AcksSound
  <2>2. AckOf(f) \in DownMsg
    BY <2>1 DEF AckOf, Frame, DownMsg, AckMsg
  <2>3. AckCovered(AckOf(f))
    BY <1>3, <2>1 DEF AckOf, Frame, AckCovered
  <2> QED
    BY <1>2, <1>4, <2>2, <2>3 DEF SendAck
<1>5. ASSUME NEW d \in Conn, SendResume(d)
      PROVE  \A c \in Conn : DownStep(c)
  <2>1. PICK s \in applying[d].todo : Reply(d, ResumeOf(s))
    BY <1>5 DEF SendResume
  <2>2. s \in Session
    <3>1. applying[d] \in Answer /\ applying[d].kind = "hello"
      BY <1>5 DEF TypeOK, SendResume
    <3> QED
      BY <2>1, <3>1 DEF Answer, None
  <2>3. ResumeOf(s) \in DownMsg /\ AckCovered(ResumeOf(s))
    BY <1>3, <2>2 DEF ResumeOf, DownMsg, ResumeMsg, AckCovered
  <2> QED
    BY <1>2, <2>1, <2>3
<1>6. CASE OrbitRead
  BY <1>1, <1>6 DEF OrbitRead, DownStep
<1>7. CASE LinkLost
  BY <1>7 DEF LinkLost, DownStep
<1>8. CASE UNCHANGED downWire
  BY <1>8 DEF DownStep
<1>9. CASE Next /\ ~OrbitRead /\ ~LinkLost /\ ~\E d \in Conn : SendAck(d) \/ SendResume(d)
  <2>1. UNCHANGED downWire
    BY <1>9 DEF Next, StartWork, Emit, DrainTake, DrainSend, DrainSendFails, ReplayRead,
       ReplaySend, ResumeRead, ResumeSend, Connect, Disconnect, OrbitCrash, AxisClose,
       AxisCrash, AxisRead, wireVars
  <2> QED
    BY <1>8, <2>1
<1> QED
  BY <1>4, <1>5, <1>6, <1>7, <1>8, <1>9 DEF vars, wireVars

LEMMA AcksOnWireCovered ==
  ASSUME TypeOK, AcksSound, [Next]_vars
  PROVE  \A c \in Conn : \A i \in 1..Len(downWire'[c]) : AckCovered(downWire'[c][i])
<1> SUFFICES ASSUME NEW c \in Conn
             PROVE  \A i \in 1..Len(downWire'[c]) : AckCovered(downWire'[c][i])
  OBVIOUS
<1>1. downWire[c] \in Seq(DownMsg)
  BY DEF TypeOK
<1>2. \A i \in 1..Len(downWire[c]) : AckCovered(downWire[c][i])
  <2> SUFFICES ASSUME NEW i \in 1..Len(downWire[c]), downWire[c][i].kind = "ack"
               PROVE  downWire[c][i].seq <= watermark'[downWire[c][i].s]
    BY DEF AckCovered
  <2>1. downWire[c][i] \in AckMsg
    BY <1>1, ElementOfSeq DEF DownMsg, ResumeMsg
  <2> QED
    BY <2>1, WatermarkGrows DEF AcksSound, AckMsg
<1>3. CASE downWire'[c] = downWire[c]
  BY <1>2, <1>3
<1>4. ASSUME NEW m \in DownMsg, AckCovered(m), downWire'[c] = Append(downWire[c], m)
      PROVE  \A i \in 1..Len(downWire'[c]) : AckCovered(downWire'[c][i])
  BY <1>1, <1>2, <1>4, AppendProperties, LenProperties
<1>5. CASE downWire[c] # <<>> /\ downWire'[c] = Tail(downWire[c])
  BY <1>1, <1>2, <1>5, HeadTailProperties, LenProperties
<1>6. CASE downWire'[c] = <<>>
  BY <1>6
<1> QED
  BY <1>3, <1>4, <1>5, <1>6, DownWireStep DEF DownStep

LEMMA AcksSoundNext ==
  ASSUME TypeOK, AcksSound, [Next]_vars
  PROVE  AcksSound'
<1>1. \A s \in Session : watermark[s] \in Int /\ watermark'[s] \in Int
                         /\ watermark[s] <= watermark'[s]
  BY WatermarkGrows
<1>2. \A c \in Conn : applying'[c].kind = "ack" =>
        applying'[c].frame.seq <= watermark'[applying'[c].frame.s]
  <2> SUFFICES ASSUME NEW c \in Conn, applying'[c].kind = "ack"
               PROVE  applying'[c].frame.seq <= watermark'[applying'[c].frame.s]
    OBVIOUS
  <2>1. CASE applying'[c] = applying[c]
    <3>1. applying[c].frame \in Frame
      <4>1. applying[c] \in Answer
        BY DEF TypeOK
      <4> QED
        BY <2>1, <4>1 DEF Answer, None
    <3> QED
      BY <1>1, <2>1, <3>1 DEF AcksSound, Frame
  <2>2. CASE AxisRead(c)
    <3> DEFINE f == Head(upWire[c])
    <3>1. CASE applying'[c] = applying[c]
      BY <2>1, <3>1
    <3>2. CASE /\ f.kind = "frame" /\ Gate(f.s, f.seq) # "gap"
               /\ applying' = [applying EXCEPT ![c] = [kind |-> "ack", frame |-> f]]
               /\ \/ Accept(f, c)
                  \/ Gate(f.s, f.seq) = "duplicate" /\ UNCHANGED watermark
      <4>1. f \in Frame
        <5>1. upWire[c] \in Seq(UpMsg) /\ upWire[c] # <<>>
          BY <2>2 DEF TypeOK, AxisRead
        <5>2. f \in UpMsg
          BY <5>1, HeadTailProperties
        <5> QED
          BY <3>2, <5>2 DEF UpMsg, Hello
      <4>2. f.s \in Session /\ f.seq \in Nat /\ watermark[f.s] \in Int
        BY <4>1, <1>1 DEF Frame
      <4>3. applying'[c].frame = f
        BY <3>2 DEF TypeOK
      <4>4. CASE Accept(f, c)
        BY <4>2, <4>3, <4>4, SMTT(30) DEF Accept, TypeOK
      <4>5. CASE Gate(f.s, f.seq) = "duplicate" /\ UNCHANGED watermark
        BY <4>2, <4>3, <4>5 DEF Gate
      <4> QED
        BY <3>2, <4>4, <4>5
    <3>3. CASE f.kind = "hello"
      <4>1. applying' = [applying EXCEPT ![c] = IF f.known = {} THEN None
                           ELSE [kind |-> "hello", todo |-> f.known]]
        BY <2>2, <3>3 DEF AxisRead
      <4>2. applying'[c].kind # "ack"
        BY <4>1 DEF TypeOK, None
      <4> QED
        BY <4>2
    <3> QED
      BY <2>2, <3>1, <3>2, <3>3 DEF AxisRead, Gate
  <2>3. CASE SendAck(c) \/ SendResume(c) \/ AxisClose(c) \/ AxisCrash
    <3>1. applying'[c].kind # "ack"
      BY <2>3 DEF SendAck, SendResume, AxisClose, AxisCrash, TypeOK, None
    <3> QED
      BY <3>1
  <2>4. ASSUME NEW d \in Conn, d # c,
               AxisRead(d) \/ SendAck(d) \/ SendResume(d) \/ AxisClose(d)
        PROVE  applying'[c] = applying[c]
    BY <2>4 DEF AxisRead, SendAck, SendResume, AxisClose, TypeOK
  <2>5. CASE /\ Next /\ ~AxisCrash
             /\ ~\E d \in Conn : AxisRead(d) \/ SendAck(d) \/ SendResume(d) \/ AxisClose(d)
    <3>1. UNCHANGED applying
      BY <2>5 DEF Next, StartWork, Emit, DrainTake, DrainSend, DrainSendFails, ReplayRead,
         ReplaySend, ResumeRead, ResumeSend, Connect, Disconnect, OrbitCrash, OrbitRead,
         axisVars
    <3> QED
      BY <2>1, <3>1
  <2> QED
    BY <2>1, <2>2, <2>3, <2>4, <2>5 DEF vars, axisVars
<1>3. \A c \in Conn : \A i \in 1..Len(downWire'[c]) : AckCovered(downWire'[c][i])
  BY AcksOnWireCovered
<1> QED
  BY <1>2, <1>3 DEF AcksSound, AckCovered

LEMMA DeliveredNext ==
  ASSUME TypeOK, DeliveredAccepted, DeliveredInOrder, [Next]_vars
  PROVE  DeliveredAccepted' /\ DeliveredInOrder'
<1> SUFFICES ASSUME NEW s \in Session
             PROVE  /\ \A i \in 1..Len(delivered'[s]) :
                         delivered'[s][i].frame.seq <= watermark'[s]
                    /\ \A i, j \in 1..Len(delivered'[s]) :
                         i < j => delivered'[s][i].frame.seq < delivered'[s][j].frame.seq
  BY DEF DeliveredAccepted, DeliveredInOrder
<1>1. /\ delivered[s] \in Seq(Delivery) /\ Len(delivered[s]) \in Nat
      /\ \A i \in 1..Len(delivered[s]) : delivered[s][i].frame.seq \in Nat
  <2>1. delivered[s] \in Seq(Delivery)
    BY DEF TypeOK
  <2>2. \A i \in 1..Len(delivered[s]) : delivered[s][i] \in Delivery
    BY <2>1, ElementOfSeq
  <2> QED
    BY <2>1, <2>2, LenProperties DEF Delivery, Frame
<1>2. /\ \A i \in 1..Len(delivered[s]) : delivered[s][i].frame.seq <= watermark[s]
      /\ \A i, j \in 1..Len(delivered[s]) :
           i < j => delivered[s][i].frame.seq < delivered[s][j].frame.seq
  BY DEF DeliveredAccepted, DeliveredInOrder
<1>3. watermark[s] \in Int /\ watermark'[s] \in Int /\ watermark[s] <= watermark'[s]
  BY WatermarkGrows
<1>4. CASE delivered'[s] = delivered[s]
  BY <1>1, <1>2, <1>3, <1>4
<1>5. ASSUME NEW c \in Conn, Accepts(c)
      PROVE  \/ delivered'[s] = delivered[s]
             \/ \E d \in Delivery : /\ delivered'[s] = Append(delivered[s], d)
                                    /\ d.frame.seq = watermark[s] + 1
                                    /\ watermark'[s] = watermark[s] + 1
  <2> DEFINE f == Head(upWire[c])
             d == [frame |-> f, turn |-> subscriber[f.s].turn]
  <2>1. /\ f \in Frame /\ f.s \in Session /\ f.seq = watermark[f.s] + 1
        /\ watermark' = [watermark EXCEPT ![f.s] = f.seq]
    BY <1>5, AcceptFacts
  <2>2. \/ delivered' = delivered
        \/ delivered' = [delivered EXCEPT ![f.s] = Append(delivered[f.s], d)]
    BY <1>5 DEF Accepts, Accept
  <2>3. d \in Delivery /\ d.frame = f
    BY <2>1 DEF TypeOK, Delivery, Listener
  <2> HIDE DEF d, f
  <2>4. CASE f.s = s
    BY <2>1, <2>2, <2>3, <2>4 DEF TypeOK
  <2>5. CASE f.s # s
    BY <2>2, <2>5 DEF TypeOK
  <2> QED
    BY <2>4, <2>5
<1>6. ASSUME NEW d \in Delivery, delivered'[s] = Append(delivered[s], d),
             d.frame.seq = watermark[s] + 1, watermark'[s] = watermark[s] + 1
      PROVE  /\ \A i \in 1..Len(delivered'[s]) :
                  delivered'[s][i].frame.seq <= watermark'[s]
             /\ \A i, j \in 1..Len(delivered'[s]) :
                  i < j => delivered'[s][i].frame.seq < delivered'[s][j].frame.seq
  <2> DEFINE n == Len(delivered[s])
  <2>1. /\ Len(delivered'[s]) = n + 1
        /\ \A i \in 1..n : delivered'[s][i] = delivered[s][i]
        /\ delivered'[s][n + 1] = d
    BY <1>1, <1>6, AppendProperties
  <2>2. \A i \in 1..(n + 1) : delivered'[s][i].frame.seq <= watermark'[s]
    <3> SUFFICES ASSUME NEW i \in 1..(n + 1)
                 PROVE  delivered'[s][i].frame.seq <= watermark'[s]
      OBVIOUS
    <3>1. CASE i \in 1..n
      <4>1. delivered'[s][i].frame.seq = delivered[s][i].frame.seq
            /\ delivered[s][i].frame.seq <= watermark[s]
            /\ delivered[s][i].frame.seq \in Nat
        BY <1>1, <1>2, <2>1, <3>1
      <4> QED
        BY <1>3, <4>1
    <3>2. CASE i = n + 1
      BY <1>3, <1>6, <2>1, <3>2
    <3> QED
      BY <1>1, <3>1, <3>2
  <2>3. \A i, j \in 1..(n + 1) :
          i < j => delivered'[s][i].frame.seq < delivered'[s][j].frame.seq
    <3> SUFFICES ASSUME NEW i \in 1..(n + 1), NEW j \in 1..(n + 1), i < j
                 PROVE  delivered'[s][i].frame.seq < delivered'[s][j].frame.seq
      OBVIOUS
    <3>1. i \in 1..n /\ (j \in 1..n \/ j = n + 1)
      <4>1. n \in Nat
        BY <1>1
      <4> HIDE DEF n
      <4> QED
        BY <4>1
    <3>2. CASE j \in 1..n
      BY <1>2, <2>1, <3>1, <3>2
    <3>3. CASE j = n + 1
      <4>1. /\ delivered'[s][i].frame.seq = delivered[s][i].frame.seq
            /\ delivered[s][i].frame.seq <= watermark[s]
            /\ delivered[s][i].frame.seq \in Nat
        BY <1>1, <1>2, <2>1, <3>1
      <4>2. delivered'[s][j].frame.seq = watermark[s] + 1
        BY <1>6, <2>1, <3>3
      <4> QED
        BY <1>3, <4>1, <4>2
    <3> QED
      BY <3>1, <3>2, <3>3
  <2> QED
    BY <2>1, <2>2, <2>3
<1> QED
  BY <1>4, <1>5, <1>6, AcceptStep

LEMMA NoLossNext ==
  ASSUME TypeOK, JournalMatches, AcksSound, NoLoss, [Next]_vars
  PROVE  NoLoss'
<1> SUFFICES ASSUME NEW s \in Session, NEW q \in 0..(nextSeq'[s] - 1), q > watermark'[s]
             PROVE  \E f \in spool'[s] : f.seq = q
  BY WatermarkGrows DEF NoLoss, Spooled
<1>1. /\ watermark[s] \in Int /\ watermark'[s] \in Int /\ watermark[s] <= watermark'[s]
      /\ nextSeq[s] \in Nat
  BY WatermarkGrows DEF TypeOK
<1>2. ASSUME q \in 0..(nextSeq[s] - 1)
      PROVE  \E f \in spool[s] : f.seq = q
  BY <1>1, <1>2 DEF NoLoss, Spooled
<1>3. ASSUME NEW t \in Task, DrainTake(t), Commits(t)
      PROVE  \E f \in spool'[s] : f.seq = q
  <2> DEFINE r == drain[t].s
             g == FrameOf(r, nextSeq[r], drain[t].pos + 1)
  <2>1. /\ r \in Session
        /\ nextSeq' = [nextSeq EXCEPT ![r] = @ + 1]
        /\ spool' = [spool EXCEPT ![r] = @ \cup {g}]
    BY <1>3, CommitFacts DEF Commits, AppendNext
  <2>2. g.seq = nextSeq[r]
    BY DEF FrameOf
  <2> HIDE DEF g, r
  <2>3. spool[s] \subseteq spool'[s]
    BY <2>1 DEF TypeOK
  <2>4. q \in 0..(nextSeq[s] - 1) \/ (s = r /\ q = nextSeq[s] /\ g \in spool'[s])
    BY <1>1, <2>1 DEF TypeOK
  <2> QED
    BY <1>2, <2>2, <2>3, <2>4
<1>4. CASE UNCHANGED <<nextSeq, journal>> /\ spool'[s] = spool[s]
  BY <1>2, <1>4
<1>5. CASE OrbitRead
  <2>1. q \in 0..(nextSeq[s] - 1)
    BY <1>5 DEF OrbitRead
  <2>2. CASE UNCHANGED spool
    BY <1>2, <2>1, <2>2
  <2>3. ASSUME NEW m \in AckMsg,
               m = downWire[link][1], link \in Conn, 1 \in 1..Len(downWire[link]),
               spool' = [spool EXCEPT ![m.s] = {f \in spool[m.s] : f.seq > m.seq}]
        PROVE  \E f \in spool'[s] : f.seq = q
    <3>1. m.kind = "ack" /\ m.s \in Session /\ m.seq \in Nat
      BY DEF AckMsg
    <3>2. m.seq <= watermark[m.s]
      BY <2>3, <3>1 DEF AcksSound
    <3>3. spool'[s] = IF s = m.s THEN {f \in spool[s] : f.seq > m.seq} ELSE spool[s]
      BY <2>3, <3>1 DEF TypeOK
    <3>4. PICK f \in spool[s] : f.seq = q
      BY <1>2, <2>1
    <3>5. f \in spool'[s]
      BY <1>1, <3>1, <3>2, <3>3, <3>4
    <3> QED
      BY <3>4, <3>5
  <2> QED
    BY <1>5, <2>2, <2>3, OrbitReadRemoves
<1>6. ASSUME NEW t \in Task, DrainTake(t), ~Commits(t)
      PROVE  \E f \in spool'[s] : f.seq = q
  <2>1. UNCHANGED <<nextSeq, journal, spool>>
    BY <1>6 DEF DrainTake, Commits, AppendOverflow, spoolVars
  <2> QED
    BY <1>4, <2>1
<1>7. CASE UNCHANGED vars
  BY <1>4, <1>7 DEF vars, spoolVars
<1>8. CASE Next /\ ~OrbitRead /\ ~\E t \in Task : DrainTake(t)
  <2>1. UNCHANGED <<nextSeq, journal, spool>>
    BY <1>8 DEF Next, StartWork, Emit, DrainSend, DrainSendFails, ReplayRead, ReplaySend,
       ResumeRead, ResumeSend, Connect, Disconnect, OrbitCrash, AxisClose, AxisCrash,
       AxisRead, SendAck, SendResume, spoolVars
  <2> QED
    BY <1>4, <2>1
<1> QED
  BY <1>3, <1>5, <1>6, <1>7, <1>8
-----------------------------------------------------------------------------
(***************************************************************************)
(* The theorems.                                                           *)
(***************************************************************************)
LEMMA InvInit == Init => TransportInv
<1> SUFFICES ASSUME Init PROVE TransportInv
  OBVIOUS
<1>1. TypeOK
  BY TypeInit
<1>2. FramesSound
  BY DEF Init, FramesSound, IdleTask, FreshReplay, FreshResume
<1>3. JournalMatches
  BY DEF Init, JournalMatches, IdleTask
<1>4. AcceptedMatches
  BY DEF Init, AcceptedMatches
<1>5. AcksSound
  BY DEF Init, AcksSound, None
<1>6. DeliveredAccepted /\ DeliveredInOrder
  BY DEF Init, DeliveredAccepted, DeliveredInOrder
<1>7. NoLoss
  BY DEF Init, NoLoss
<1> QED
  BY <1>1, <1>2, <1>3, <1>4, <1>5, <1>6, <1>7 DEF TransportInv

LEMMA InvNext == TransportInv /\ [Next]_vars => TransportInv'
BY TypeNext, FramesSoundNext, JournalMatchesNext, AcceptedMatchesNext, AcksSoundNext,
   DeliveredNext, NoLossNext DEF TransportInv

\* The inductive invariant holds throughout.
THEOREM TransportCorrect == Spec => []TransportInv
BY InvInit, InvNext, PTL DEF Spec

\* However connections break, tasks overlap and either process restarts, and
\* whatever the capacity: a sequence number the spool has allocated is in the
\* spool or accepted.
THEOREM NothingLost == Spec => []NoLoss
BY TransportCorrect, PTL DEF TransportInv

\* No frame reaches its consumer twice or out of order.
THEOREM InOrder == Spec => []DeliveredInOrder
BY TransportCorrect, PTL DEF TransportInv

LEMMA LogInit == Init => Log!Init
BY DEF Init, Log!Init

LEMMA LogStep ==
  ASSUME TransportInv, [Next]_vars
  PROVE  [Log!Next]_(Log!vars)
<1> USE DEF TransportInv
<1>1. \/ UNCHANGED <<nextSeq, journal>>
      \/ \E t \in Task : DrainTake(t) /\ Commits(t)
  BY JournalStep
<1>2. \/ UNCHANGED <<watermark, accepted, delivered>>
      \/ \E c \in Conn : Accepts(c)
  BY AcceptStep
<1>3. ASSUME NEW t \in Task, DrainTake(t), Commits(t)
      PROVE  Log!Next
  <2>1. UNCHANGED accepted
    BY <1>3 DEF DrainTake, axisVars
  <2>2. PICK s \in Session, e \in 1..MaxEvents :
          journal' = [journal EXCEPT ![s] = Append(@, e)]
    BY <1>3, CommitFacts
  <2>3. Log!Journal(s)
    BY <2>1, <2>2 DEF Log!Journal
  <2> QED
    BY <2>3 DEF Log!Next
<1>4. ASSUME NEW c \in Conn, Accepts(c)
      PROVE  Log!Next
  <2> DEFINE f == Head(upWire[c])
  <2>1. /\ f \in Frame /\ f.s \in Session /\ f.seq \in Nat /\ f.seq = watermark[f.s] + 1
        /\ accepted' = [accepted EXCEPT ![f.s] = Append(@, f.ev)]
    BY <1>4, AcceptFacts
  <2>2. f.seq < nextSeq[f.s] /\ f.ev = journal[f.s][f.seq + 1]
    BY <1>4, AcceptedFrameSound DEF Sound
  <2>3. UNCHANGED journal
    BY <1>4 DEF Accepts, AxisRead, spoolVars
  <2> HIDE DEF f
  <2>4. /\ Len(accepted[f.s]) = f.seq /\ Len(journal[f.s]) = nextSeq[f.s]
        /\ watermark[f.s] \in Int /\ nextSeq[f.s] \in Nat
    BY <2>1 DEF AcceptedMatches, JournalMatches, TypeOK
  <2>5. Log!Accept(f.s)
    BY <2>1, <2>2, <2>3, <2>4 DEF Log!Accept
  <2> QED
    BY <2>1, <2>5 DEF Log!Next
<1>5. CASE UNCHANGED <<journal, accepted>>
  BY <1>5 DEF Log!vars
<1> QED
  BY <1>1, <1>2, <1>3, <1>4, <1>5

\* The transport implements the exactly-once ordered log.
THEOREM Implements == Spec => ExactlyOnce
<1>1. Init => Log!Init
  BY LogInit
<1>2. TransportInv /\ [Next]_vars => [Log!Next]_(Log!vars)
  BY LogStep
<1> QED
  BY <1>1, <1>2, TransportCorrect, PTL DEF Spec, ExactlyOnce, Log!Spec
=============================================================================
