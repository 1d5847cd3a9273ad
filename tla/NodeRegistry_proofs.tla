------------------------- MODULE NodeRegistry_proofs -------------------------
(***************************************************************************)
(* Theorems about NodeRegistry, for every value of its constants.          *)
(***************************************************************************)
EXTENDS NodeRegistry, SequenceTheorems, TLAPS

USE RegistryAssumption

-----------------------------------------------------------------------------
(***************************************************************************)
(* The wires.                                                              *)
(***************************************************************************)
LEMMA SendsType ==
  ASSUME TypeOK, NEW c \in Conn, NEW frame \in UpFrame, Sends(c, frame)
  PROVE  upWire' \in [Conn -> Seq(UpFrame)]
<1>1. upWire[c] \in Seq(UpFrame)
  BY DEF TypeOK
<1>2. Append(upWire[c], frame) \in Seq(UpFrame)
  BY <1>1, AppendProperties
<1> QED
  BY <1>2 DEF TypeOK, Sends

LEMMA ReadsType ==
  ASSUME TypeOK, NEW c \in Conn, NEW frame, Reads(c, frame)
  PROVE  upWire' \in [Conn -> Seq(UpFrame)]
<1>1. upWire[c] \in Seq(UpFrame) /\ upWire[c] # <<>>
  BY DEF TypeOK, Reads
<1>2. Tail(upWire[c]) \in Seq(UpFrame)
  BY <1>1, HeadTailProperties
<1> QED
  BY <1>2 DEF TypeOK, Reads

LEMMA DownType ==
  ASSUME TypeOK, NEW c \in Conn, NEW frame \in DownFrame,
         downWire' = [downWire EXCEPT ![c] = Append(@, frame)]
  PROVE  downWire' \in [Conn -> Seq(DownFrame)]
<1>1. downWire[c] \in Seq(DownFrame)
  BY DEF TypeOK
<1>2. Append(downWire[c], frame) \in Seq(DownFrame)
  BY <1>1, AppendProperties
<1> QED
  BY <1>2 DEF TypeOK

LEMMA LeavesType ==
  ASSUME TypeOK, link \in Conn, OrbitLeaves
  PROVE  /\ downWire' \in [Conn -> Seq(DownFrame)]
         /\ link' = 0 /\ opened' = opened /\ heart' = "sleep" /\ unacked' = 0
<1>1. <<>> \in Seq(DownFrame)
  BY EmptySeq
<1> QED
  BY <1>1 DEF TypeOK, OrbitLeaves

-----------------------------------------------------------------------------
(***************************************************************************)
(* Type correctness.                                                       *)
(***************************************************************************)
LEMMA TypeInit == Init => TypeOK
<1> SUFFICES ASSUME Init PROVE TypeOK
  OBVIOUS
<1>1. <<>> \in Seq(UpFrame) /\ <<>> \in Seq(DownFrame)
  BY EmptySeq
<1>2. entry \in Entry
  BY DEF Init, Inventory, Unserved, Entry
<1> QED
  BY <1>1, <1>2 DEF Init, TypeOK, HandlerPc, ClosePc, RequestPc

\* What the Orbit does changes its own variables and the wires.
axisSide == <<closing, nodeVars, routeVars, callVars, ticks>>

LEMMA OrbitType ==
  ASSUME TypeOK, UNCHANGED axisSide,
         link' \in {0} \cup Conn, opened' \in {0} \cup Conn,
         heart' \in {"sleep", "check"}, unacked' \in 0..Missed,
         upWire' \in [Conn -> Seq(UpFrame)], downWire' \in [Conn -> Seq(DownFrame)],
         pc' \in [Conn -> HandlerPc], faults' \in 0..MaxFaults
  PROVE  TypeOK'
BY DEF TypeOK, axisSide, nodeVars, routeVars, callVars

LEMMA ConnectType ==
  ASSUME TypeOK, Connect
  PROVE  TypeOK' /\ link' = opened + 1 /\ link' \in Conn
<1>1. link' = opened + 1 /\ link' \in Conn /\ opened' = link' /\ "hello" \in UpFrame
  BY DEF TypeOK, Connect, Conn, UpFrame
<1>2. upWire' \in [Conn -> Seq(UpFrame)]
  BY <1>1, SendsType DEF Connect
<1>3. pc' \in [Conn -> HandlerPc]
  BY <1>1 DEF TypeOK, Connect, HandlerPc
<1>4. UNCHANGED <<axisSide, heart, unacked, downWire, faults>>
  BY DEF Connect, axisSide, bounds
<1>5. /\ heart \in {"sleep", "check"} /\ unacked \in 0..Missed /\ faults \in 0..MaxFaults
      /\ downWire \in [Conn -> Seq(DownFrame)]
  BY DEF TypeOK
<1>6. TypeOK'
  BY <1>1, <1>2, <1>3, <1>4, <1>5, OrbitType
<1> QED
  BY <1>1, <1>6

LEMMA HeartbeatType ==
  ASSUME TypeOK, Counting, Heartbeat
  PROVE  TypeOK'
<1>1. link \in Conn /\ "heartbeat" \in UpFrame
  BY DEF TypeOK, Heartbeat, UpFrame
<1>2. upWire' \in [Conn -> Seq(UpFrame)]
  BY <1>1, SendsType DEF Heartbeat
<1>3. unacked' \in 0..Missed
  BY DEF TypeOK, Counting, Heartbeat
<1> QED
  BY <1>2, <1>3 DEF TypeOK, Heartbeat, nodeVars, routeVars, callVars, bounds

LEMMA HeartbeatCheckType ==
  ASSUME TypeOK, HeartbeatCheck
  PROVE  TypeOK' /\ Counting'
<1>1. link \in Conn /\ "hello" \in UpFrame
  BY DEF TypeOK, HeartbeatCheck, UpFrame
<1>2. upWire' \in [Conn -> Seq(UpFrame)]
  BY <1>1, SendsType DEF TypeOK, HeartbeatCheck
<1>3. unacked' \in 0..Missed /\ unacked' < Missed /\ heart' = "sleep"
  BY DEF TypeOK, HeartbeatCheck
<1>4. TypeOK'
  BY <1>2, <1>3 DEF TypeOK, HeartbeatCheck, nodeVars, routeVars, callVars, bounds
<1> QED
  BY <1>3, <1>4 DEF Counting

LEMMA OrbitReadType ==
  ASSUME TypeOK, Counting, OrbitRead
  PROVE  TypeOK' /\ Counting'
<1>1. link \in Conn /\ "hello" \in UpFrame /\ "resp" \in UpFrame
  BY DEF TypeOK, OrbitRead, UpFrame
<1>2. upWire' \in [Conn -> Seq(UpFrame)]
  BY <1>1, SendsType DEF TypeOK, OrbitRead
<1>3. downWire' \in [Conn -> Seq(DownFrame)]
  <2>1. downWire[link] \in Seq(DownFrame) /\ downWire[link] # <<>>
    BY <1>1 DEF TypeOK, OrbitRead
  <2>2. Tail(downWire[link]) \in Seq(DownFrame)
    BY <2>1, HeadTailProperties
  <2> QED
    BY <2>2 DEF TypeOK, OrbitRead
<1>4. unacked' \in 0..Missed /\ unacked' <= unacked /\ heart' = heart
  BY DEF TypeOK, OrbitRead
<1>5. TypeOK'
  BY <1>2, <1>3, <1>4 DEF TypeOK, OrbitRead, nodeVars, routeVars, callVars, bounds
<1>6. unacked \in Int /\ unacked' \in Int
  BY <1>4 DEF TypeOK
<1> QED
  BY <1>4, <1>5, <1>6 DEF Counting

LEMMA LossType ==
  ASSUME TypeOK, OrbitSeesEnd \/ Disconnect
  PROVE  TypeOK' /\ Counting'
<1>1. link \in Conn /\ OrbitLeaves
  BY DEF TypeOK, OrbitSeesEnd, Disconnect
<1>2. /\ downWire' \in [Conn -> Seq(DownFrame)] /\ opened' = opened
      /\ link' = 0 /\ heart' = "sleep" /\ unacked' = 0
  BY <1>1, LeavesType
<1>3. upWire' \in [Conn -> Seq(UpFrame)]
  <2>1. CASE OrbitSeesEnd
    BY <2>1 DEF TypeOK, OrbitSeesEnd
  <2>2. CASE Disconnect
    <3>1. PICK n \in 0..Len(upWire[link]) :
            upWire' = [upWire EXCEPT ![link] = SubSeq(@, 1, n)]
      BY <2>2 DEF Disconnect
    <3>2. upWire[link] \in Seq(UpFrame)
      BY <1>1 DEF TypeOK
    <3>3. \A i \in 1..n : upWire[link][i] \in UpFrame
      BY <3>2, ElementOfSeq
    <3>4. SubSeq(upWire[link], 1, n) \in Seq(UpFrame)
      BY <3>3, SubSeqProperties
    <3> QED
      BY <3>1, <3>4 DEF TypeOK
  <2> QED
    BY <2>1, <2>2
<1>4. faults' \in 0..MaxFaults /\ UNCHANGED <<axisSide, pc>>
  BY DEF TypeOK, OrbitSeesEnd, Disconnect, Occurs, axisSide, bounds
<1>5. TypeOK'
  BY <1>2, <1>3, <1>4, OrbitType DEF TypeOK
<1> QED
  BY <1>2, <1>5 DEF Counting

\* What Axis does leaves the Orbit alone.
LEMMA AxisType ==
  ASSUME TypeOK, UNCHANGED <<link, opened, heart, unacked, enrolled>>,
         upWire' \in [Conn -> Seq(UpFrame)], downWire' \in [Conn -> Seq(DownFrame)],
         pc' \in [Conn -> HandlerPc], closing' \in [Conn -> ClosePc],
         entry' \in Entry, roles' \in {0} \cup Conn, routes' \in {0} \cup Conn,
         served' \subseteq Conn, removed' \subseteq Conn,
         operator' \in {"idle", "deregister", "drop"},
         request' \in [pc : RequestPc, conn : {0} \cup Conn],
         faults' \in 0..MaxFaults, ticks' \in 0..MaxTicks
  PROVE  TypeOK'
BY DEF TypeOK

LEMMA RegistryType ==
  ASSUME TypeOK, List \/ Tick \/ Drain
  PROVE  TypeOK'
<1>1. entry' \in Entry
  <2>0. /\ entry \in Entry /\ entry.epoch \in {0} \cup Conn
        /\ entry.status \in {"Online", "Offline", "Draining"} /\ entry.age \in 0..2
    BY DEF TypeOK, Entry
  <2>1. CASE List
    <3>1. entry' \in {Absent, Node(entry.epoch, "Offline", entry.age), entry}
      BY <2>1 DEF List
    <3>2. Node(entry.epoch, "Offline", entry.age) \in Entry /\ Absent \in Entry
      BY <2>0 DEF Node, Entry, Absent, Unserved
    <3> QED
      BY <2>0, <3>1, <3>2
  <2>2. CASE Tick
    <3>1. PICK age \in (entry.age + 1)..2 : entry' = Node(entry.epoch, entry.status, age)
      BY <2>2 DEF Tick
    <3>2. age \in 0..2 /\ entry.present \in BOOLEAN
      BY <2>0, <2>2 DEF Tick, Entry
    <3> QED
      BY <2>0, <2>2, <3>1, <3>2 DEF Tick, Node, Entry
  <2>3. CASE Drain
    BY <2>0, <2>3 DEF Drain, Node, Entry
  <2> QED
    BY <2>1, <2>2, <2>3
<1>2. ticks' \in 0..MaxTicks
  BY DEF TypeOK, List, Tick, Drain, bounds
<1>3. UNCHANGED <<orbitVars, upWire, downWire, pc, closing, enrolled, roles, routeVars, callVars,
                  faults>>
  BY DEF List, Tick, Drain, bounds
<1> QED
  BY <1>1, <1>2, <1>3 DEF TypeOK, orbitVars, routeVars, callVars

LEMMA EndPendingType ==
  ASSUME TypeOK, NEW c \in Conn, EndPending(c)
  PROVE  request' \in [pc : RequestPc, conn : {0} \cup Conn]
BY DEF TypeOK, EndPending, Ends, RequestPc

LEMMA RequestType ==
  ASSUME TypeOK, RequestGet \/ Request
  PROVE  TypeOK'
<1>1. request' \in [pc : RequestPc, conn : {0} \cup Conn]
  BY DEF TypeOK, RequestGet, Request, RequestSlot, RequestWrite, Waits, Ends, RequestPc
<1>2. downWire' \in [Conn -> Seq(DownFrame)]
  <2>1. CASE UNCHANGED downWire
    BY <2>1 DEF TypeOK
  <2>2. CASE request.pc = "slot" /\ link = request.conn /\ RequestWrite
             /\ downWire' = [downWire EXCEPT ![link] = Append(@, "request")]
    <3>1. CASE link \in Conn
      <4>1. "request" \in DownFrame
        BY DEF DownFrame
      <4> QED
        BY <2>2, <3>1, <4>1, DownType
    <3>2. CASE link \notin Conn
      BY <2>2, <3>2 DEF TypeOK
    <3> QED
      BY <3>1, <3>2
  <2> QED
    BY <2>1, <2>2 DEF RequestGet, Request, RequestSlot, RequestWrite
<1>3. UNCHANGED <<orbitVars, upWire, pc, closing, nodeVars, routeVars, operator, bounds>>
  BY DEF RequestGet, Request, RequestSlot, RequestWrite
<1> QED
  BY <1>1, <1>2, <1>3 DEF TypeOK, orbitVars, nodeVars, routeVars, bounds

LEMMA CloseType ==
  ASSUME TypeOK, NEW c \in Conn, Close(c)
  PROVE  TypeOK'
<1>1. closing' \in [Conn -> ClosePc]
  BY DEF TypeOK, Close, ClosePc
<1>2. request' \in [pc : RequestPc, conn : {0} \cup Conn]
  BY EndPendingType DEF TypeOK, Close
<1>3. UNCHANGED <<orbitVars, upWire, downWire, pc, nodeVars, routeVars, operator, bounds>>
  BY DEF Close
<1> QED
  BY <1>1, <1>2, <1>3 DEF TypeOK, orbitVars, nodeVars, routeVars, bounds

LEMMA RegisterType ==
  ASSUME TypeOK, NEW c \in Conn, Register(c)
  PROVE  entry' \in Entry
BY DEF Register, Node, Entry

LEMMA FirstHelloType ==
  ASSUME TypeOK, NEW c \in Conn, FirstHello(c)
  PROVE  TypeOK'
<1>1. upWire' \in [Conn -> Seq(UpFrame)]
  BY ReadsType DEF TypeOK, FirstHello
<1>2. entry' \in Entry
  BY RegisterType DEF TypeOK, FirstHello
<1>3. pc' \in [Conn -> HandlerPc]
  BY DEF TypeOK, FirstHello, Goto, HandlerPc
<1>4. UNCHANGED <<orbitVars, downWire, closing, enrolled, roles, routeVars, callVars, bounds>>
  BY DEF FirstHello
<1> QED
  BY <1>1, <1>2, <1>3, <1>4 DEF TypeOK, orbitVars, routeVars, callVars, bounds

LEMMA SetRolesType ==
  ASSUME TypeOK, NEW c \in Conn, SetRoles(c)
  PROVE  TypeOK'
<1>1. pc' \in [Conn -> HandlerPc]
  BY DEF TypeOK, SetRoles, Goto, HandlerPc
<1> QED
  BY <1>1 DEF TypeOK, SetRoles, orbitVars, routeVars, callVars, bounds

LEMMA PublishType ==
  ASSUME TypeOK, NEW c \in Conn, Publish(c)
  PROVE  TypeOK'
<1>1. pc' \in [Conn -> HandlerPc]
  BY DEF TypeOK, Publish, InsertEpoch, Goto, HandlerPc
<1>2. closing' \in [Conn -> ClosePc]
  BY DEF TypeOK, Publish, InsertEpoch, ClosePc
<1>3. routes' \in {0} \cup Conn /\ served' \subseteq Conn
  BY DEF TypeOK, Publish, InsertEpoch
<1> QED
  BY <1>1, <1>2, <1>3 DEF TypeOK, Publish, orbitVars, nodeVars, callVars, bounds

LEMMA ReadHeartbeatType ==
  ASSUME TypeOK, NEW c \in Conn, ReadHeartbeat(c)
  PROVE  TypeOK'
<1>1. upWire' \in [Conn -> Seq(UpFrame)]
  BY ReadsType DEF ReadHeartbeat
<1>2. entry' \in Entry
  BY DEF TypeOK, ReadHeartbeat, Beat, Registered, Node, Entry
<1>3. pc' \in [Conn -> HandlerPc]
  BY DEF TypeOK, ReadHeartbeat, Goto, HandlerPc
<1>4. downWire' \in [Conn -> Seq(DownFrame)]
  <2>1. Answer(c) \in DownFrame
    BY DEF Answer, DownFrame
  <2> QED
    BY <2>1, DownType DEF TypeOK, ReadHeartbeat
<1>5. UNCHANGED <<orbitVars, closing, enrolled, roles, routeVars, callVars, bounds>>
  BY DEF ReadHeartbeat
<1> QED
  BY <1>1, <1>2, <1>3, <1>4, <1>5 DEF TypeOK, orbitVars, routeVars, callVars, bounds

LEMMA ReadHelloType ==
  ASSUME TypeOK, NEW c \in Conn, ReadHello(c)
  PROVE  TypeOK'
<1>1. upWire' \in [Conn -> Seq(UpFrame)]
  BY ReadsType DEF ReadHello
<1>2. entry' \in Entry
  BY RegisterType DEF TypeOK, ReadHello
<1>3. pc' \in [Conn -> HandlerPc]
  BY DEF TypeOK, ReadHello, Goto, HandlerPc
<1>4. UNCHANGED <<orbitVars, downWire, closing, enrolled, roles, routeVars, callVars, bounds>>
  BY DEF ReadHello
<1> QED
  BY <1>1, <1>2, <1>3, <1>4 DEF TypeOK, orbitVars, routeVars, callVars, bounds

LEMMA ReadRespType ==
  ASSUME TypeOK, NEW c \in Conn, ReadResp(c)
  PROVE  TypeOK'
<1>1. upWire' \in [Conn -> Seq(UpFrame)]
  BY ReadsType DEF ReadResp
<1>2. request' \in [pc : RequestPc, conn : {0} \cup Conn]
  BY EndPendingType DEF ReadResp
<1> QED
  BY <1>1, <1>2 DEF TypeOK, ReadResp, orbitVars, nodeVars, routeVars, bounds

LEMMA LeaveType ==
  ASSUME TypeOK, NEW c \in Conn, Leave(c)
  PROVE  TypeOK'
<1>1. pc' \in [Conn -> HandlerPc]
  BY DEF TypeOK, Leave, Goto, HandlerPc
<1> QED
  BY <1>1 DEF TypeOK, Leave, orbitVars, nodeVars, routeVars, callVars, bounds

LEMMA TearDownType ==
  ASSUME TypeOK, NEW c \in Conn, TearDown(c)
  PROVE  TypeOK'
<1>1. pc' \in [Conn -> HandlerPc]
  BY DEF TypeOK, TearDown, Goto, HandlerPc
<1>2. entry' \in Entry /\ roles' \in {0} \cup Conn
  <2>1. CASE UNCHANGED <<entry, roles>>
    BY <2>1 DEF TypeOK
  <2>2. CASE DeregisterConnection(c)
    <3>1. entry.age \in 0..2 /\ entry \in Entry /\ roles \in {0} \cup Conn
      BY DEF TypeOK, Entry
    <3>2. \/ entry' \in {Node(0, "Offline", entry.age), Absent} /\ roles' = 0
          \/ entry' = entry /\ roles' = roles
      BY <2>2 DEF DeregisterConnection
    <3>3. Node(0, "Offline", entry.age) \in Entry /\ Absent \in Entry
      BY <3>1 DEF Node, Entry, Absent, Unserved
    <3> QED
      BY <3>1, <3>2, <3>3
  <2> QED
    BY <2>1, <2>2 DEF TearDown
<1>3. request' \in [pc : RequestPc, conn : {0} \cup Conn]
  BY EndPendingType DEF TypeOK, TearDown
<1>4. routes' \in {0} \cup Conn
  BY DEF TypeOK, TearDown
<1>5. UNCHANGED <<orbitVars, upWire, downWire, closing, enrolled, served, removed, operator,
                  bounds>>
  BY DEF TearDown
<1> QED
  BY <1>1, <1>2, <1>3, <1>4, <1>5 DEF TypeOK, orbitVars, bounds

LEMMA OperatorType ==
  ASSUME TypeOK, RemoveNode \/ Deregister \/ Drop
  PROVE  TypeOK'
<1>1. CASE RemoveNode
  BY <1>1 DEF TypeOK, RemoveNode, Occurs, orbitVars, nodeVars, routeVars
<1>2. CASE Deregister
  <2>1. entry' \in Entry
    BY <1>2 DEF Deregister, Absent, Unserved, Entry
  <2> QED
    BY <1>2, <2>1 DEF TypeOK, Deregister, orbitVars, routeVars, bounds
<1>3. CASE Drop
  <2>1. closing' \in [Conn -> ClosePc] /\ routes' = 0 /\ removed' \subseteq Conn
    BY <1>3 DEF TypeOK, Drop, ClosePc
  <2> QED
    BY <1>3, <2>1 DEF TypeOK, Drop, orbitVars, nodeVars, bounds
<1> QED
  BY <1>1, <1>2, <1>3

LEMMA AxisRestartType ==
  ASSUME TypeOK, AxisRestart
  PROVE  TypeOK'
<1>1. <<>> \in Seq(UpFrame) /\ <<>> \in Seq(DownFrame)
  BY EmptySeq
<1>2. upWire' \in [Conn -> Seq(UpFrame)] /\ downWire' \in [Conn -> Seq(DownFrame)]
  BY <1>1 DEF AxisRestart
<1>3. pc' \in [Conn -> HandlerPc] /\ closing' \in [Conn -> ClosePc]
  BY DEF AxisRestart, HandlerPc, ClosePc
<1>4. entry' \in Entry
  BY DEF TypeOK, AxisRestart, Inventory, Unserved, Entry
<1>5. request' \in [pc : RequestPc, conn : {0} \cup Conn] /\ faults' \in 0..MaxFaults
  BY DEF TypeOK, AxisRestart, Occurs, RequestPc
<1> QED
  BY <1>2, <1>3, <1>4, <1>5 DEF TypeOK, AxisRestart
-----------------------------------------------------------------------------
(***************************************************************************)
(* The inductive invariant, action by action.                              *)
(***************************************************************************)
LEMMA InitCorrect == Init => RegistryInv
<1> SUFFICES ASSUME Init PROVE RegistryInv
  OBVIOUS
<1>1. TypeOK
  BY TypeInit
<1>2. Published /\ TornDown /\ OnlyOlderClosed /\ RoutedOrClosing /\ Unopened
  BY DEF Init, Published, TornDown, OnlyOlderClosed, RoutedOrClosing, Unopened
<1>3. Unowned /\ Counting
  BY DEF Init, Unowned, Counting, Inventory, Unserved
<1> QED
  BY <1>1, <1>2, <1>3 DEF RegistryInv

\* What leaves the connections' handlers and maps alone, the entry's epoch at
\* most forgotten.
LEMMA Undisturbed ==
  ASSUME RegistryInv, TypeOK', Counting', Unowned',
         UNCHANGED <<opened, pc, closing, routes, served, removed>>,
         entry'.epoch \in {0, entry.epoch}
  PROVE  RegistryInv'
<1>1. Published' /\ OnlyOlderClosed' /\ RoutedOrClosing' /\ Unopened'
  BY DEF RegistryInv, Published, OnlyOlderClosed, RoutedOrClosing, Unopened
<1>2. TornDown'
  BY SMTT(30) DEF RegistryInv, TornDown, Conn, TypeOK
<1> QED
  BY <1>1, <1>2 DEF RegistryInv

LEMMA OrbitStep ==
  ASSUME RegistryInv,
         Heartbeat \/ HeartbeatCheck \/ OrbitRead \/ OrbitSeesEnd \/ Disconnect
  PROVE  RegistryInv'
<1>1. TypeOK /\ Counting
  BY DEF RegistryInv
<1>2. TypeOK' /\ Counting'
  <2>1. CASE Heartbeat
    BY <1>1, <2>1, HeartbeatType DEF Heartbeat, Counting
  <2> QED
    BY <1>1, <2>1, HeartbeatCheckType, OrbitReadType, LossType
<1>3. UNCHANGED <<opened, pc, closing, entry, routes, served, removed>>
  BY DEF Heartbeat, HeartbeatCheck, OrbitRead, OrbitSeesEnd, Disconnect, OrbitLeaves,
         nodeVars, routeVars
<1>4. Unowned' /\ entry'.epoch = entry.epoch
  BY <1>3 DEF RegistryInv, Unowned
<1> QED
  BY <1>2, <1>3, <1>4, Undisturbed

LEMMA ConnectStep ==
  ASSUME RegistryInv, Connect
  PROVE  RegistryInv'
<1>1. TypeOK' /\ link' \in Conn /\ link' = opened + 1
  BY ConnectType DEF RegistryInv
<1>2. /\ opened' = opened + 1 /\ opened \in Nat
      /\ pc \in [Conn -> HandlerPc] /\ pc' = [pc EXCEPT ![link'] = "hello"]
      /\ UNCHANGED <<heart, unacked, closing, entry, routes, served, removed>>
  BY <1>1 DEF RegistryInv, TypeOK, Conn, Connect, nodeVars, routeVars
<1>3. pc[link'] = "none" /\ link' \notin served
  BY <1>1, <1>2 DEF RegistryInv, Unopened, Published, ServedPc
<1>4. \A c \in Conn : pc'[c] = (IF c = link' THEN "hello" ELSE pc[c])
  BY <1>2
<1>5. Published' /\ TornDown' /\ OnlyOlderClosed' /\ RoutedOrClosing'
  <2>1. served \subseteq Conn
    BY DEF RegistryInv, TypeOK
  <2> QED
    BY <1>2, <1>3, <1>4, <2>1
    DEF RegistryInv, Published, TornDown, OnlyOlderClosed, RoutedOrClosing
<1>6. Unopened'
  BY <1>1, <1>2, <1>4 DEF RegistryInv, Unopened, Conn
<1>7. Unowned' /\ Counting'
  BY <1>2 DEF RegistryInv, Unowned, Counting
<1> QED
  BY <1>1, <1>5, <1>6, <1>7 DEF RegistryInv

LEMMA ListStep ==
  ASSUME RegistryInv, List \/ Tick \/ Drain
  PROVE  RegistryInv'
<1>1. TypeOK'
  BY RegistryType DEF RegistryInv
<1>2. UNCHANGED <<opened, heart, unacked, pc, closing, routes, served, removed>>
  BY DEF List, Tick, Drain, orbitVars, routeVars
<1>3. \/ entry' \in {entry, Absent}
      \/ \E status, age : entry' = Node(entry.epoch, status, age)
  BY DEF List, Tick, Drain
<1>4. \/ entry' \in {entry, Absent}
      \/ entry'.present /\ entry'.epoch = entry.epoch
  BY <1>3 DEF Node
<1>5. entry'.epoch \in {0, entry.epoch} /\ Unowned' /\ Counting'
  BY <1>2, <1>4 DEF RegistryInv, Unowned, Counting, Absent, Unserved
<1> QED
  BY <1>1, <1>2, <1>5, Undisturbed

LEMMA RequestStep ==
  ASSUME RegistryInv, RequestGet \/ Request \/ RemoveNode
  PROVE  RegistryInv'
<1>1. TypeOK'
  BY RequestType, OperatorType DEF RegistryInv
<1>2. UNCHANGED <<opened, heart, unacked, pc, closing, entry, routes, served, removed>>
  BY DEF RequestGet, Request, RequestSlot, RequestWrite, RemoveNode, orbitVars, nodeVars,
         routeVars
<1>3. Unowned' /\ Counting' /\ entry'.epoch = entry.epoch
  BY <1>2 DEF RegistryInv, Unowned, Counting
<1> QED
  BY <1>1, <1>2, <1>3, Undisturbed

LEMMA CloseStep ==
  ASSUME RegistryInv, NEW c \in Conn, Close(c)
  PROVE  RegistryInv'
<1>1. TypeOK'
  BY CloseType DEF RegistryInv
<1>2. /\ UNCHANGED <<opened, heart, unacked, pc, entry, routes, served, removed>>
      /\ closing \in [Conn -> ClosePc] /\ closing[c] # "none"
      /\ \A d \in Conn : closing'[d] # "none" <=> closing[d] # "none"
  BY DEF RegistryInv, TypeOK, Close, orbitVars, nodeVars, routeVars
<1>3. Published' /\ TornDown' /\ Unowned' /\ Counting' /\ Unopened'
  BY <1>2 DEF RegistryInv, Published, TornDown, Unowned, Counting, Unopened
<1>4. RoutedOrClosing' /\ OnlyOlderClosed'
  BY <1>2 DEF RegistryInv, RoutedOrClosing, OnlyOlderClosed
<1> QED
  BY <1>1, <1>3, <1>4 DEF RegistryInv

\* A handler of c that goes on to pc l, with the maps of connections as they
\* were: what there is to show about c and about the entry.
LEMMA Moved ==
  ASSUME RegistryInv, TypeOK', Unowned', NEW c \in Conn, NEW l \in HandlerPc,
         pc' = [pc EXCEPT ![c] = l], pc[c] # "none",
         UNCHANGED <<opened, heart, unacked, closing, routes, served, removed>>,
         c \in served => l \in ServedPc,
         c \in served /\ l \in {"fail", "done"} => routes # c,
         l \in {"serving", "reroles"} => routes = c \/ closing[c] # "none",
         \A d \in served :
           (IF d = c THEN l ELSE pc[d]) \in {"unroute", "fail", "done"} => entry'.epoch # d
  PROVE  RegistryInv'
<1>1. pc \in [Conn -> HandlerPc] /\ served \subseteq Conn /\ opened \in Int
  BY DEF RegistryInv, TypeOK, Conn
<1>2. \A d \in Conn : pc'[d] = (IF d = c THEN l ELSE pc[d])
  BY <1>1
<1>3. Published' /\ TornDown'
  BY <1>1, <1>2 DEF RegistryInv, Published, TornDown
<1>4. RoutedOrClosing' /\ OnlyOlderClosed'
  BY <1>2 DEF RegistryInv, RoutedOrClosing, OnlyOlderClosed
<1>5. Unopened' /\ Counting'
  BY <1>1, <1>2 DEF RegistryInv, Unopened, Counting
<1> QED
  BY <1>3, <1>4, <1>5 DEF RegistryInv

LEMMA HelloStep ==
  ASSUME RegistryInv, NEW c \in Conn, FirstHello(c) \/ ReadHello(c)
  PROVE  RegistryInv'
<1>1. TypeOK' /\ TypeOK
  BY FirstHelloType, ReadHelloType DEF RegistryInv
<1>2. UNCHANGED <<opened, heart, unacked, closing, routes, served, removed>>
  BY DEF FirstHello, ReadHello, orbitVars, routeVars
<1>3. PICK l \in {"roles", "done", "reroles", "leave"} :
        /\ pc' = [pc EXCEPT ![c] = l]
        /\ \/ pc[c] = "hello" /\ l \in {"roles", "done"}
           \/ pc[c] = "serving" /\ l \in {"reroles", "leave"}
        /\ l \in {"done", "leave"} => entry' = entry
        /\ l \in {"roles", "reroles"} => entry' = Node(c, "Online", 0)
  BY DEF FirstHello, ReadHello, Register, Goto
<1>4. Unowned'
  BY <1>3 DEF RegistryInv, Unowned, Node
<1>5. pc[c] = "hello" => c \notin served
  BY DEF RegistryInv, Published, ServedPc
<1>6. \A d \in served :
        (IF d = c THEN l ELSE pc[d]) \in {"unroute", "fail", "done"} => entry'.epoch # d
  BY <1>3, <1>5 DEF RegistryInv, TornDown, Node
<1>7. l \in HandlerPc /\ pc[c] # "none"
  BY <1>3 DEF HandlerPc
<1>8. l \in {"serving", "reroles"} => routes = c \/ closing[c] # "none"
  BY <1>3 DEF RegistryInv, RoutedOrClosing
<1>9. /\ c \in served => l \in ServedPc
      /\ c \in served /\ l \in {"fail", "done"} => routes # c
  BY <1>3, <1>5 DEF ServedPc
<1> QED
  BY <1>1, <1>2, <1>3, <1>4, <1>6, <1>7, <1>8, <1>9, Moved

LEMMA RolesStep ==
  ASSUME RegistryInv, NEW c \in Conn, SetRoles(c)
  PROVE  RegistryInv'
<1>1. TypeOK'
  BY SetRolesType DEF RegistryInv
<1>2. UNCHANGED <<opened, heart, unacked, closing, entry, routes, served, removed>>
  BY DEF SetRoles, orbitVars, routeVars
<1>3. PICK l \in {"publish", "serving"} :
        /\ pc' = [pc EXCEPT ![c] = l]
        /\ \/ pc[c] = "roles" /\ l = "publish"
           \/ pc[c] = "reroles" /\ l = "serving"
  BY DEF SetRoles, Goto
<1>4. Unowned'
  BY <1>2 DEF RegistryInv, Unowned
<1>5. pc[c] = "roles" => c \notin served
  BY DEF RegistryInv, Published, ServedPc
<1>6. \A d \in served :
        (IF d = c THEN l ELSE pc[d]) \in {"unroute", "fail", "done"} => entry'.epoch # d
  BY <1>2, <1>3 DEF RegistryInv, TornDown
<1>7. l \in HandlerPc /\ pc[c] # "none"
  BY <1>3 DEF HandlerPc
<1>8. l \in {"serving", "reroles"} => routes = c \/ closing[c] # "none"
  BY <1>3 DEF RegistryInv, RoutedOrClosing
<1>9. /\ c \in served => l \in ServedPc
      /\ c \in served /\ l \in {"fail", "done"} => routes # c
  BY <1>3, <1>5 DEF ServedPc
<1> QED
  BY <1>1, <1>2, <1>3, <1>4, <1>6, <1>7, <1>8, <1>9, Moved, ZenonT(40)

LEMMA BeatStep ==
  ASSUME RegistryInv, NEW c \in Conn, ReadHeartbeat(c)
  PROVE  RegistryInv'
<1>1. TypeOK' /\ TypeOK
  BY ReadHeartbeatType DEF RegistryInv
<1>2. UNCHANGED <<opened, heart, unacked, closing, routes, served, removed>>
  BY DEF ReadHeartbeat, orbitVars, routeVars
<1>3. pc[c] = "serving" /\ (UNCHANGED pc \/ pc' = [pc EXCEPT ![c] = "leave"])
  BY DEF ReadHeartbeat, Goto
<1>4. entry'.present = entry.present /\ entry'.epoch = entry.epoch
  BY DEF ReadHeartbeat, Beat, Registered, Node
<1>5. Unowned' /\ Counting'
  BY <1>2, <1>4 DEF RegistryInv, Unowned, Counting
<1>6. CASE UNCHANGED pc
  BY <1>1, <1>2, <1>4, <1>5, <1>6, Undisturbed
<1>7. CASE pc' = [pc EXCEPT ![c] = "leave"]
  <2>1. \A d \in served :
          (IF d = c THEN "leave" ELSE pc[d]) \in {"unroute", "fail", "done"}
            => entry'.epoch # d
    BY <1>4 DEF RegistryInv, TornDown
  <2>2. "leave" \in HandlerPc /\ "leave" \in ServedPc
    BY DEF HandlerPc, ServedPc
  <2> QED
    BY <1>1, <1>2, <1>3, <1>5, <1>7, <2>1, <2>2, Moved, ZenonT(40)
<1> QED
  BY <1>3, <1>6, <1>7

LEMMA RespStep ==
  ASSUME RegistryInv, NEW c \in Conn, ReadResp(c)
  PROVE  RegistryInv'
<1>1. TypeOK'
  BY ReadRespType DEF RegistryInv
<1>2. UNCHANGED <<opened, heart, unacked, pc, closing, entry, routes, served, removed>>
  BY DEF ReadResp, orbitVars, nodeVars, routeVars
<1>3. Unowned' /\ Counting' /\ entry'.epoch = entry.epoch
  BY <1>2 DEF RegistryInv, Unowned, Counting
<1> QED
  BY <1>1, <1>2, <1>3, Undisturbed

LEMMA LeaveStep ==
  ASSUME RegistryInv, NEW c \in Conn, Leave(c)
  PROVE  RegistryInv'
<1>1. TypeOK'
  BY LeaveType DEF RegistryInv
<1>2. UNCHANGED <<opened, heart, unacked, closing, entry, routes, served, removed>>
  BY DEF Leave, orbitVars, nodeVars, routeVars
<1>3. pc[c] = "serving" /\ pc' = [pc EXCEPT ![c] = "leave"]
  BY DEF Leave, Goto
<1>4. Unowned'
  BY <1>2 DEF RegistryInv, Unowned
<1>5. \A d \in served :
        (IF d = c THEN "leave" ELSE pc[d]) \in {"unroute", "fail", "done"}
          => entry'.epoch # d
  BY <1>2 DEF RegistryInv, TornDown
<1>6. "leave" \in HandlerPc /\ "leave" \in ServedPc
  BY DEF HandlerPc, ServedPc
<1> QED
  BY <1>1, <1>2, <1>3, <1>4, <1>5, <1>6, Moved, ZenonT(40)

\* The step that publishes c: it was not published, so whatever is routed to is
\* another connection, older or newer.
LEMMA PublishStep ==
  ASSUME RegistryInv, NEW c \in Conn, Publish(c)
  PROVE  RegistryInv'
<1>1. TypeOK' /\ TypeOK
  BY PublishType DEF RegistryInv
<1>2. /\ UNCHANGED <<opened, heart, unacked, entry, removed>>
      /\ pc[c] = "publish" /\ c \notin served /\ routes # c
  <2>1. UNCHANGED <<opened, heart, unacked, entry, removed>> /\ pc[c] = "publish"
    BY DEF Publish, orbitVars, nodeVars
  <2>2. c \notin served
    BY <2>1 DEF RegistryInv, Published, ServedPc
  <2>3. routes # c
    BY <2>2 DEF RegistryInv, Published, Conn
  <2> QED
    BY <2>1, <2>2, <2>3
<1>3. Unowned'
  BY <1>2 DEF RegistryInv, Unowned
<1>4. CASE routes > c /\ Goto(c, "done") /\ UNCHANGED <<routes, served, closing>>
  <2>1. \A d \in served :
          (IF d = c THEN "done" ELSE pc[d]) \in {"unroute", "fail", "done"}
            => entry'.epoch # d
    BY <1>2 DEF RegistryInv, TornDown
  <2>2. "done" \in HandlerPc /\ pc' = [pc EXCEPT ![c] = "done"]
    BY <1>4 DEF HandlerPc, Goto
  <2> QED
    BY <1>1, <1>2, <1>3, <1>4, <2>1, <2>2, Moved, ZenonT(40)
<1>5. CASE routes <= c /\ InsertEpoch(c)
  <2>1. /\ routes' = c /\ served' = served \cup {c}
        /\ \A d \in Conn : pc'[d] = (IF d = c THEN "serving" ELSE pc[d])
        /\ \A d \in Conn : closing'[d] = (IF d = routes THEN "signal" ELSE closing[d])
    <3>1. /\ routes' = c /\ served' = served \cup {c}
          /\ pc' = [pc EXCEPT ![c] = "serving"]
          /\ closing' = IF routes # 0 THEN [closing EXCEPT ![routes] = "signal"] ELSE closing
      BY <1>5 DEF InsertEpoch, Goto
    <3>2. TypeOK
      BY <1>1
    <3>3. pc \in [Conn -> HandlerPc] /\ closing \in [Conn -> ClosePc]
      BY <3>2 DEF TypeOK
    <3>4. 0 \notin Conn
      BY DEF Conn
    <3> QED
      BY <3>1, <3>3, <3>4
  <2>2. served \subseteq Conn /\ 0 \notin Conn /\ routes \in {0} \cup Conn
    BY <1>1 DEF TypeOK, Conn
  <2>3. Published' /\ TornDown'
    BY <1>2, <2>1, <2>2 DEF RegistryInv, Published, TornDown, ServedPc
  <2>4. RoutedOrClosing'
    BY <1>2, <2>1, <2>2 DEF RegistryInv, RoutedOrClosing
  <2>5. OnlyOlderClosed'
    <3>1. routes \in Conn => routes < c
      BY <1>2, <1>5 DEF Conn
    <3> QED
      BY <1>2, <2>1, <2>2, <3>1 DEF RegistryInv, OnlyOlderClosed
  <2>6. Unopened' /\ Counting'
    BY <1>2, <2>1 DEF RegistryInv, Unopened, Counting
  <2> QED
    BY <1>1, <1>3, <2>3, <2>4, <2>5, <2>6 DEF RegistryInv
<1> QED
  BY <1>4, <1>5 DEF Publish

\* The teardown: the registration of c goes, or was another's, and then its
\* route, or that was another's.
LEMMA TearDownStep ==
  ASSUME RegistryInv, NEW c \in Conn, TearDown(c)
  PROVE  RegistryInv'
<1>1. TypeOK' /\ TypeOK
  BY TearDownType DEF RegistryInv
<1>2. UNCHANGED <<opened, heart, unacked, closing, served, removed>>
  BY DEF TearDown, orbitVars
<1>3. "unroute" \in HandlerPc /\ "fail" \in HandlerPc /\ "done" \in HandlerPc
      /\ "unroute" \in ServedPc /\ "fail" \in ServedPc /\ "done" \in ServedPc
      /\ c # 0
  BY DEF HandlerPc, ServedPc, Conn
<1>4. CASE pc[c] = "leave" /\ DeregisterConnection(c) /\ Goto(c, "unroute")
           /\ UNCHANGED routes
  <2>1. \/ entry.present /\ entry.epoch = c /\ entry'.epoch = 0
        \/ ~(entry.present /\ entry.epoch = c) /\ entry' = entry
    BY <1>4 DEF DeregisterConnection, Node, Absent, Unserved
  <2>2. entry'.epoch # c /\ entry'.epoch \in {0, entry.epoch}
    BY <1>3, <2>1 DEF RegistryInv, Unowned
  <2>3. Unowned'
    <3>1. CASE UNCHANGED entry
      BY <3>1 DEF RegistryInv, Unowned
    <3> QED
      BY <2>1, <3>1 DEF Unowned
  <2>4. \A d \in served :
          (IF d = c THEN "unroute" ELSE pc[d]) \in {"unroute", "fail", "done"}
            => entry'.epoch # d
    <3>1. 0 \notin served
      BY <1>1 DEF TypeOK, Conn
    <3> QED
      BY <2>2, <3>1 DEF RegistryInv, TornDown
  <2> QED
    BY <1>1, <1>2, <1>3, <1>4, <2>3, <2>4, Moved, ZenonT(40) DEF Goto
<1>5. CASE pc[c] = "unroute" /\ routes # c /\ Goto(c, "done")
           /\ UNCHANGED <<entry, routes>>
  <2>1. Unowned'
    BY <1>5 DEF RegistryInv, Unowned
  <2>2. \A d \in served :
          (IF d = c THEN "done" ELSE pc[d]) \in {"unroute", "fail", "done"}
            => entry'.epoch # d
    BY <1>5 DEF RegistryInv, TornDown
  <2>3. /\ pc' = [pc EXCEPT ![c] = "done"] /\ pc[c] # "none" /\ UNCHANGED routes
        /\ c \in served => routes # c
    BY <1>5 DEF Goto
  <2> QED
    BY <1>1, <1>2, <1>3, <2>1, <2>2, <2>3, Moved
<1>6. CASE pc[c] = "fail" /\ Goto(c, "done") /\ UNCHANGED <<entry, routes>>
  <2>1. Unowned'
    BY <1>6 DEF RegistryInv, Unowned
  <2>2. \A d \in served :
          (IF d = c THEN "done" ELSE pc[d]) \in {"unroute", "fail", "done"}
            => entry'.epoch # d
    BY <1>6 DEF RegistryInv, TornDown
  <2>3. c \in served => routes # c
    BY <1>6 DEF RegistryInv, TornDown
  <2>4. pc' = [pc EXCEPT ![c] = "done"] /\ pc[c] # "none" /\ UNCHANGED routes
    BY <1>6 DEF Goto
  <2> QED
    BY <1>1, <1>2, <1>3, <2>1, <2>2, <2>3, <2>4, Moved
<1>7. CASE pc[c] = "unroute" /\ routes = c /\ routes' = 0 /\ Goto(c, "fail")
           /\ UNCHANGED entry
  <2>1. \A d \in Conn : pc'[d] = (IF d = c THEN "fail" ELSE pc[d])
    BY <1>1, <1>7 DEF TypeOK, Goto
  <2>2. served \subseteq Conn /\ 0 \notin served
    BY <1>1, SMTT(30) DEF TypeOK, Conn
  <2>3. Published' /\ TornDown'
    BY <1>2, <1>7, <2>1, <2>2 DEF RegistryInv, Published, TornDown, ServedPc
  <2>4. RoutedOrClosing' /\ OnlyOlderClosed'
    BY <1>2, <1>7, <2>1 DEF RegistryInv, RoutedOrClosing, OnlyOlderClosed
  <2>5. Unopened' /\ Counting' /\ Unowned'
    BY <1>2, <1>7, <2>1 DEF RegistryInv, Unopened, Counting, Unowned
  <2> QED
    BY <1>1, <2>3, <2>4, <2>5 DEF RegistryInv
<1> QED
  BY <1>4, <1>5, <1>6, <1>7 DEF TearDown

LEMMA OperatorStep ==
  ASSUME RegistryInv, Deregister \/ Drop
  PROVE  RegistryInv'
<1>1. TypeOK' /\ TypeOK
  BY OperatorType DEF RegistryInv
<1>2. CASE Deregister
  <2>1. /\ UNCHANGED <<opened, heart, unacked, pc, closing, routes, served, removed>>
        /\ ~entry'.present /\ entry'.epoch = 0
    BY <1>2 DEF Deregister, orbitVars, routeVars, Absent, Unserved
  <2>2. Unowned' /\ Counting'
    BY <2>1 DEF RegistryInv, Unowned, Counting
  <2> QED
    BY <1>1, <2>1, <2>2, Undisturbed
<1>3. CASE Drop
  <2>1. UNCHANGED <<opened, heart, unacked, pc, entry, served>>
    BY <1>3 DEF Drop, orbitVars, nodeVars
  <2>2. /\ routes' = 0 /\ removed \subseteq removed'
        /\ \A d \in Conn :
             \/ d = routes /\ d \in removed' /\ closing'[d] = "signal"
             \/ d # routes /\ closing'[d] = closing[d]
    BY <1>1, <1>3 DEF Drop, TypeOK, Conn
  <2>3. 0 \notin served
    BY <1>1 DEF TypeOK, Conn
  <2>4. Published' /\ TornDown' /\ Unowned' /\ Counting' /\ Unopened'
    BY <2>1, <2>2, <2>3 DEF RegistryInv, Published, TornDown, Unowned, Counting, Unopened
  <2>5. RoutedOrClosing' /\ OnlyOlderClosed'
    BY <2>1, <2>2 DEF RegistryInv, RoutedOrClosing, OnlyOlderClosed
  <2> QED
    BY <1>1, <2>4, <2>5 DEF RegistryInv
<1> QED
  BY <1>2, <1>3

LEMMA AxisRestartStep ==
  ASSUME RegistryInv, AxisRestart
  PROVE  RegistryInv'
<1>1. TypeOK'
  BY AxisRestartType DEF RegistryInv
<1>2. /\ served' = {} /\ routes' = 0 /\ opened' = opened /\ unacked' = 0
      /\ \A c \in Conn : pc'[c] = IF pc[c] = "none" THEN "none" ELSE "done"
      /\ \A c \in Conn : closing'[c] = "none"
  BY DEF AxisRestart
<1>3. Published' /\ TornDown' /\ RoutedOrClosing' /\ OnlyOlderClosed' /\ Unopened'
  BY <1>2 DEF RegistryInv, Published, TornDown, RoutedOrClosing, OnlyOlderClosed, Unopened
<1>4. Unowned' /\ Counting'
  BY <1>2 DEF AxisRestart, Unowned, Counting, Inventory, Unserved
<1> QED
  BY <1>1, <1>3, <1>4 DEF RegistryInv

LEMMA RegistryStep ==
  ASSUME RegistryInv, [Next]_vars
  PROVE  RegistryInv'
<1>1. CASE UNCHANGED vars
  BY <1>1 DEF vars, orbitVars, nodeVars, routeVars, callVars, bounds, RegistryInv, TypeOK,
     Published, TornDown, Unowned, Counting, Unopened, RoutedOrClosing, OnlyOlderClosed
<1>2. ASSUME NEW c \in Conn, Handler(c) PROVE RegistryInv'
  BY <1>2, HelloStep, RolesStep, PublishStep, BeatStep, RespStep, LeaveStep, TearDownStep
  DEF Handler
<1>3. ASSUME NEW c \in Conn, Close(c) PROVE RegistryInv'
  BY <1>3, CloseStep
<1> QED
  BY <1>1, <1>2, <1>3, ConnectStep, OrbitStep, ListStep, RequestStep, OperatorStep,
     AxisRestartStep
  DEF Next

\* No step takes a registration away but the ones that may.
LEMMA YieldsStep ==
  ASSUME RegistryInv, [Next]_vars
  PROVE  [RegistrationYields]_vars
<1> SUFFICES ASSUME entry.present, entry.epoch # 0,
                    ~(entry'.present /\ entry'.epoch = entry.epoch)
             PROVE  RegistrationYields
  BY DEF RegistrationYields
<1>1. entry.epoch \in Conn
  BY DEF RegistryInv, TypeOK, Entry
<1>2. CASE UNCHANGED entry
  BY <1>2
<1>3. ASSUME NEW c \in Conn, Register(c)
      PROVE  entry'.present /\ entry'.epoch > entry.epoch
  <2>1. entry'.present /\ entry'.epoch = c /\ ~(c < entry.epoch)
    BY <1>3 DEF Register, Accepts, Node
  <2> QED
    BY <1>1, <2>1 DEF Conn
<1>4. ASSUME NEW c \in Conn, Handler(c) PROVE RegistrationYields
  <2>1. CASE FirstHello(c) \/ ReadHello(c)
    BY <1>2, <1>3, <2>1 DEF FirstHello, ReadHello, RegistrationYields
  <2>2. CASE ReadHeartbeat(c)
    BY <2>2 DEF ReadHeartbeat, Beat, Registered, Node
  <2>3. CASE TearDown(c)
    <3>1. \/ UNCHANGED entry
          \/ pc[c] = "leave" /\ entry.epoch = c
      BY <2>3 DEF TearDown, DeregisterConnection
    <3> QED
      BY <1>2, <3>1 DEF RegistrationYields
  <2>4. CASE SetRoles(c) \/ Publish(c) \/ ReadResp(c) \/ Leave(c)
    BY <1>2, <2>4 DEF SetRoles, Publish, ReadResp, Leave, nodeVars
  <2> QED
    BY <1>4, <2>1, <2>2, <2>3, <2>4 DEF Handler
<1>5. CASE List \/ Tick \/ Drain
  BY <1>5 DEF List, Tick, Drain, Node, RegistrationYields
<1>6. CASE Deregister
  BY <1>6 DEF Deregister, RegistrationYields
<1>7. CASE AxisRestart
  BY <1>7 DEF AxisRestart, Occurs, RegistrationYields, RegistryInv, TypeOK
<1>8. CASE UNCHANGED vars
  BY <1>2, <1>8 DEF vars, nodeVars
<1>9. CASE \/ Connect \/ Heartbeat \/ HeartbeatCheck \/ OrbitRead \/ OrbitSeesEnd \/ Disconnect
           \/ RequestGet \/ Request \/ RemoveNode \/ Drop
           \/ \E c \in Conn : Close(c)
  <2>1. UNCHANGED entry
    BY <1>9 DEF Connect, Heartbeat, HeartbeatCheck, OrbitRead, OrbitSeesEnd, Disconnect,
       RequestGet, Request, RequestSlot, RequestWrite, RemoveNode, Drop, Close, nodeVars
  <2> QED
    BY <1>2, <2>1
<1> QED
  BY <1>4, <1>5, <1>6, <1>7, <1>8, <1>9 DEF Next

-----------------------------------------------------------------------------
(***************************************************************************)
(* The theorems.                                                           *)
(***************************************************************************)
\* The registry, the routes and the handlers stay consistent through every
\* interleaving of registrations, removals and teardowns.
THEOREM RegistryCorrect == Spec => []RegistryInv
<1>1. Init => RegistryInv
  BY InitCorrect
<1>2. RegistryInv /\ [Next]_vars => RegistryInv'
  BY RegistryStep
<1> QED
  BY <1>1, <1>2, PTL DEF Spec

\* Every variable keeps its type.
THEOREM TypeCorrect == Spec => []TypeOK
<1>1. RegistryInv => TypeOK
  BY DEF RegistryInv
<1> QED
  BY <1>1, RegistryCorrect, PTL

\* A connection that a handler serves is routed to or is being closed.
THEOREM Routed == Spec => []RoutedOrClosing
<1>1. RegistryInv => RoutedOrClosing
  BY DEF RegistryInv
<1> QED
  BY <1>1, RegistryCorrect, PTL

\* No connection is closed for an older one.
THEOREM ClosedForNewer == Spec => []OnlyOlderClosed
<1>1. RegistryInv => OnlyOlderClosed
  BY DEF RegistryInv
<1> QED
  BY <1>1, RegistryCorrect, PTL

\* A published connection that has ended leaves neither route nor registration.
THEOREM CleanedUp == Spec => []NothingLeft
<1>1. RegistryInv => NothingLeft
  BY DEF RegistryInv, TornDown, NothingLeft
<1> QED
  BY <1>1, RegistryCorrect, PTL

\* The death of a connection takes away its own registration and no newer one.
THEOREM Kept == Spec => RegistrationKept
<1>1. RegistryInv /\ [Next]_vars => [RegistrationYields]_vars
  BY YieldsStep
<1> QED
  BY <1>1, RegistryCorrect, PTL DEF Spec, RegistrationKept
=============================================================================
