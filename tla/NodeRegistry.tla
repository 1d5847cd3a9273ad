----------------------------- MODULE NodeRegistry -----------------------------
(***************************************************************************)
(* Registration of an Orbit with Axis.                                     *)
(*                                                                         *)
(*   Orbit: run_connection (Hello, heartbeats) --> one connection at a time *)
(*   Axis:  handle_orbit_conn, one task per connection, numbered by epoch  *)
(*          NodeRegistry (the entry of the node and its roles)             *)
(*          OrbitConnections (the connection that requests are routed to)  *)
(*          routes: DELETE and drain of /api/nodes/:id, GET /api/nodes,    *)
(*          and a request that is sent to the Orbit                        *)
(*                                                                         *)
(* One node id.  The handlers of its connections run concurrently, and     *)
(* each takes the two maps' locks one after the other, so registration     *)
(* and teardown of several epochs interleave.  Epochs go on counting over  *)
(* an Axis restart: nothing that a restart leaves compares them.           *)
(***************************************************************************)
EXTENDS Integers, Sequences

CONSTANTS
  Happens,    \* which of "disconnect", "axis_restart", "remove", "drain", "request" do
  Missed,     \* HEARTBEAT_REREGISTER_AFTER
  WireCap,    \* frames a connection holds before its writer waits
  MaxFaults,  \* bound: disconnections, restarts and removals, in all
  MaxTicks    \* bound: heartbeat timeouts

ASSUME RegistryAssumption ==
  /\ Happens \subseteq {"disconnect", "axis_restart", "remove", "drain", "request"}
  /\ Missed \in Nat \ {0} /\ WireCap \in Nat /\ MaxFaults \in Nat /\ MaxTicks \in Nat

VARIABLES
  \* the Orbit
  link,       \* the connection it works on, 0 when it has none
  opened,     \* connections opened so far
  heart,      \* the heartbeat loop: "sleep", or "check" after a heartbeat
  unacked,    \* unacked_heartbeats
  \* the connections
  upWire, downWire,  \* [Conn -> Seq], frames on their way
  pc,         \* [Conn -> the pc of handle_orbit_conn]
  closing,    \* [Conn -> the pc of OrbitConnection::close]
  \* Axis
  enrolled,   \* the node is in the durable inventory
  entry,      \* its NodeEntry
  roles,      \* the connection whose Hello gave its roles, 0 when it has none
  routes,     \* the connection in OrbitConnections, 0 when there is none
  served,     \* history: the connections that were published there
  removed,    \* history: those that an operator's removal took out
  operator,   \* the pc of remove_node
  request,    \* a request to the Orbit: its pc and its connection
  faults, ticks

orbitVars == <<link, opened, heart, unacked>>
nodeVars  == <<enrolled, entry, roles>>
routeVars == <<routes, served, removed>>
callVars  == <<operator, request>>
bounds    == <<faults, ticks>>
vars == <<orbitVars, upWire, downWire, pc, closing, nodeVars, routeVars, callVars, bounds>>

Conn == 1..(MaxFaults + 1)

UpFrame   == {"hello", "heartbeat", "resp"}
DownFrame == {"ack", "reregister", "request"}
HandlerPc == {"none", "hello", "roles", "publish", "serving", "reroles", "leave",
              "unroute", "fail", "done"}
ClosePc   == {"none", "signal", "fail", "shut", "done"}
\* The caller has the connection, its slot, the frame written, its outcome.
RequestPc == {"idle", "got", "slot", "waiting", "ended"}

\* status is Draining once an operator asks for it; age is the time since
\* last_heartbeat: within HEARTBEAT_TIMEOUT, beyond it, beyond EVICTION_TIMEOUT.
Entry   == [present : BOOLEAN, epoch : {0} \cup Conn,
            status : {"Online", "Offline", "Draining"}, age : 0..2]
Node(epoch, status, age) ==
  [present |-> TRUE, epoch |-> epoch, status |-> status, age |-> age]
Unserved(present) == [present |-> present, epoch |-> 0, status |-> "Offline", age |-> 0]
Absent == Unserved(FALSE)

TypeOK ==
  /\ link \in {0} \cup Conn /\ opened \in {0} \cup Conn
  /\ heart \in {"sleep", "check"} /\ unacked \in 0..Missed
  /\ upWire \in [Conn -> Seq(UpFrame)] /\ downWire \in [Conn -> Seq(DownFrame)]
  /\ pc \in [Conn -> HandlerPc] /\ closing \in [Conn -> ClosePc]
  /\ enrolled \in BOOLEAN /\ entry \in Entry /\ roles \in {0} \cup Conn
  /\ routes \in {0} \cup Conn /\ served \subseteq Conn /\ removed \subseteq Conn
  /\ operator \in {"idle", "deregister", "drop"}
  /\ request \in [pc : RequestPc, conn : {0} \cup Conn]
  /\ faults \in 0..MaxFaults /\ ticks \in 0..MaxTicks

\* NodeRegistry::with_inventory: an enrolled node is there, and offline.
Inventory == Unserved(enrolled)

Init ==
  /\ link = 0 /\ opened = 0 /\ heart = "sleep" /\ unacked = 0
  /\ upWire = [c \in Conn |-> <<>>] /\ downWire = [c \in Conn |-> <<>>]
  /\ pc = [c \in Conn |-> "none"] /\ closing = [c \in Conn |-> "none"]
  /\ enrolled \in BOOLEAN /\ entry = Inventory /\ roles = 0
  /\ routes = 0 /\ served = {} /\ removed = {}
  /\ operator = "idle" /\ request = [pc |-> "idle", conn |-> 0]
  /\ faults = 0 /\ ticks = 0

Occurs(fault) == fault \in Happens /\ faults < MaxFaults /\ faults' = faults + 1
-----------------------------------------------------------------------------
(***************************************************************************)
(* The Orbit.                                                              *)
(***************************************************************************)
Sends(c, frame) == upWire' = [upWire EXCEPT ![c] = Append(@, frame)]

\* run_orbit and run_connection: a new connection starts with a Hello, and
\* handle_orbit_conn allocates its epoch.  Every loss of a connection costs one
\* of MaxFaults, so the bound on Conn never keeps the Orbit from connecting.
Connect ==
  /\ link = 0 /\ opened < MaxFaults + 1
  /\ opened' = opened + 1 /\ link' = opened'
  /\ Sends(link', "hello")
  /\ pc' = [pc EXCEPT ![link'] = "hello"]
  /\ UNCHANGED <<heart, unacked, downWire, closing, nodeVars, routeVars, callVars, bounds>>

Heartbeat ==
  /\ link # 0 /\ heart = "sleep" /\ Len(upWire[link]) < WireCap
  /\ Sends(link, "heartbeat")
  /\ heart' = "check" /\ unacked' = unacked + 1
  /\ UNCHANGED <<link, opened, downWire, pc, closing, nodeVars, routeVars, callVars, bounds>>

\* A Hello is sent again when acknowledgements are missing.
HeartbeatCheck ==
  /\ link # 0 /\ heart = "check"
  /\ \/ unacked >= Missed /\ Sends(link, "hello") /\ unacked' = 0
     \/ unacked < Missed /\ UNCHANGED <<upWire, unacked>>
  /\ heart' = "sleep"
  /\ UNCHANGED <<link, opened, downWire, pc, closing, nodeVars, routeVars, callVars, bounds>>

\* dispatch_frame: HeartbeatAck, ReRegister, and any request.
OrbitRead ==
  /\ link # 0 /\ downWire[link] # <<>>
  /\ downWire' = [downWire EXCEPT ![link] = Tail(@)]
  /\ LET m == Head(downWire[link]) IN
     \/ m = "ack" /\ unacked' = 0 /\ UNCHANGED upWire
     \/ m = "reregister" /\ unacked' = 0 /\ Sends(link, "hello")
     \/ m = "request" /\ Sends(link, "resp") /\ UNCHANGED unacked
  /\ UNCHANGED <<link, opened, heart, pc, closing, nodeVars, routeVars, callVars, bounds>>

\* Whoever still has the OrbitConnection of c keeps its writer open.
Held(c) ==
  \/ pc[c] \notin {"none", "done"}
  \/ closing[c] \in {"signal", "fail", "shut"}
  \/ request.conn = c /\ request.pc \in {"got", "slot", "waiting"}

\* run_connection returns, and its Conn goes.
OrbitLeaves ==
  /\ link' = 0 /\ heart' = "sleep" /\ unacked' = 0
  /\ downWire' = [downWire EXCEPT ![link] = <<>>]
  /\ UNCHANGED opened

OrbitSeesEnd ==
  /\ link # 0 /\ (closing[link] = "done" \/ ~Held(link))
  /\ OrbitLeaves
  /\ UNCHANGED <<upWire, pc, closing, nodeVars, routeVars, callVars, bounds>>

\* The connection is lost, or the Orbit is started again: what has not yet
\* arrived is lost with it.  Axis learns of it at the end of its stream.
Disconnect ==
  /\ link # 0 /\ Occurs("disconnect")
  /\ \E n \in 0..Len(upWire[link]) :
       upWire' = [upWire EXCEPT ![link] = SubSeq(@, 1, n)]
  /\ OrbitLeaves
  /\ UNCHANGED <<pc, closing, nodeVars, routeVars, callVars, ticks>>
-----------------------------------------------------------------------------
(***************************************************************************)
(* The node registry.                                                      *)
(***************************************************************************)
\* register_inner accepts the epoch.
Accepts(c) == ~(entry.present /\ c < entry.epoch)
Register(c) ==
  Accepts(c) /\ entry' = Node(c, "Online", 0)

\* Fault: the registration of a newer connection goes with an older one.
DeregisterConnectionAny(c) == entry' = Inventory /\ roles' = 0

\* deregister_connection
DeregisterConnection(c) ==
  IF entry.present /\ entry.epoch = c
  THEN roles' = 0 /\ entry' = IF enrolled THEN Node(0, "Offline", entry.age) ELSE Absent
  ELSE UNCHANGED <<entry, roles>>

\* heartbeat, and the frame that answers it.
Registered(c) == entry.present /\ entry.epoch = c
Beat(c) ==
  entry' = IF Registered(c)
           THEN Node(c, IF entry.status = "Offline" THEN "Online" ELSE entry.status, 0)
           ELSE entry

\* Fault: a heartbeat of an unknown node is acknowledged.
AnswerBlindly(c) == "ack"
Answer(c) == IF Registered(c) THEN "ack" ELSE "reregister"

\* list, when it changes something.
List ==
  /\ entry.present
  /\ entry' = IF entry.age = 2 /\ ~enrolled THEN Absent
              ELSE IF entry.age > 0 /\ entry.status = "Online"
                   THEN Node(entry.epoch, "Offline", entry.age) ELSE entry
  /\ entry' # entry
  /\ UNCHANGED <<orbitVars, upWire, downWire, pc, closing, enrolled, roles, routeVars,
                 callVars, bounds>>

\* One of the timeouts, or both, pass without a heartbeat.
Tick ==
  /\ ticks < MaxTicks /\ ticks' = ticks + 1
  /\ entry.present
  /\ \E age \in (entry.age + 1)..2 : entry' = Node(entry.epoch, entry.status, age)
  /\ UNCHANGED <<orbitVars, upWire, downWire, pc, closing, enrolled, roles, routeVars,
                 callVars, faults>>

\* drain_node
Drain ==
  /\ "drain" \in Happens /\ entry.present
  /\ entry' = Node(entry.epoch, "Draining", entry.age)
  /\ UNCHANGED <<orbitVars, upWire, downWire, pc, closing, enrolled, roles, routeVars,
                 callVars, bounds>>
-----------------------------------------------------------------------------
(***************************************************************************)
(* A request to the Orbit, and what ends it.                               *)
(***************************************************************************)
Pending(c) == request.conn = c /\ request.pc \in {"slot", "waiting"}

Ends == request' = [pc |-> "ended", conn |-> 0]

\* fail_all: the callers of the pending requests get an error; resolve, of a
\* response: its caller gets that.
EndPending(c) == IF Pending(c) THEN Ends ELSE UNCHANGED request

RequestGet ==
  /\ "request" \in Happens /\ request.pc = "idle" /\ routes # 0
  /\ request' = [pc |-> "got", conn |-> routes]
  /\ UNCHANGED <<orbitVars, upWire, downWire, pc, closing, nodeVars, routeVars, operator,
                 bounds>>

\* send_request: the slot first ...
RequestSlot ==
  /\ request.pc = "got"
  /\ request' = [pc |-> "slot", conn |-> request.conn]
  /\ UNCHANGED <<orbitVars, upWire, downWire, pc, closing, nodeVars, routeVars, operator,
                 bounds>>

\* ... then the frame.  A writer that was shut down fails; one whose peer is
\* gone may take the frame all the same.
Waits == request' = [pc |-> "waiting", conn |-> request.conn]
RequestWrite ==
  /\ request.pc = "slot"
  /\ LET c == request.conn IN
     \/ /\ closing[c] # "done" /\ link = c
        /\ downWire' = [downWire EXCEPT ![c] = Append(@, "request")]
        /\ Waits
     \/ /\ closing[c] # "done" /\ link # c
        /\ Waits
        /\ UNCHANGED downWire
     \/ /\ closing[c] = "done" \/ link # c
        /\ Ends
        /\ UNCHANGED downWire
  /\ UNCHANGED <<orbitVars, upWire, pc, closing, nodeVars, routeVars, operator, bounds>>

\* close, in a task of its own.
Close(c) ==
  /\ \/ closing[c] = "signal" /\ closing' = [closing EXCEPT ![c] = "fail"]
        /\ UNCHANGED request
     \/ closing[c] = "fail" /\ closing' = [closing EXCEPT ![c] = "shut"] /\ EndPending(c)
     \/ closing[c] = "shut" /\ closing' = [closing EXCEPT ![c] = "done"]
        /\ UNCHANGED request
  /\ UNCHANGED <<orbitVars, upWire, downWire, pc, nodeVars, routeVars, operator, bounds>>

\* shutdown_rx.changed()
ShutDown(c) == closing[c] \in {"fail", "shut", "done"}
-----------------------------------------------------------------------------
(***************************************************************************)
(* handle_orbit_conn.                                                      *)
(***************************************************************************)
Goto(c, l) == pc' = [pc EXCEPT ![c] = l]
Reads(c, frame) ==
  upWire[c] # <<>> /\ Head(upWire[c]) = frame
  /\ upWire' = [upWire EXCEPT ![c] = Tail(@)]
EndOfStream(c) == link # c /\ upWire[c] = <<>>

\* handle_orbit_hello: registered, given its roles, and published.
FirstHello(c) ==
  /\ pc[c] = "hello"
  /\ \/ Reads(c, "hello") /\ Register(c) /\ Goto(c, "roles")
     \/ Reads(c, "hello") /\ ~Accepts(c) /\ Goto(c, "done") /\ UNCHANGED entry
     \/ EndOfStream(c) /\ Goto(c, "done") /\ UNCHANGED <<upWire, entry>>
  /\ UNCHANGED <<orbitVars, downWire, closing, enrolled, roles, routeVars, callVars, bounds>>

SetRoles(c) ==
  /\ pc[c] \in {"roles", "reroles"}
  /\ roles' = c
  /\ Goto(c, IF pc[c] = "roles" THEN "publish" ELSE "serving")
  /\ UNCHANGED <<orbitVars, upWire, downWire, closing, enrolled, entry, routeVars, callVars,
                 bounds>>

InsertEpoch(c) ==
  /\ routes' = c /\ served' = served \cup {c}
  /\ closing' = IF routes # 0 THEN [closing EXCEPT ![routes] = "signal"] ELSE closing
  /\ Goto(c, "serving")

\* Fault: an older connection replaces a newer one.
PublishUnchecked(c) ==
  /\ pc[c] = "publish" /\ InsertEpoch(c)
  /\ UNCHANGED <<orbitVars, upWire, downWire, nodeVars, removed, callVars, bounds>>

\* Fault: the connection that is replaced stays open.
PublishLeaving(c) ==
  /\ pc[c] = "publish"
  /\ \/ /\ routes <= c /\ routes' = c /\ served' = served \cup {c}
        /\ Goto(c, "serving")
     \/ routes > c /\ Goto(c, "done") /\ UNCHANGED <<routes, served>>
  /\ UNCHANGED <<orbitVars, upWire, downWire, closing, nodeVars, removed, callVars, bounds>>

\* insert_epoch: a stale connection is closed and its registration, if it
\* still has one, stays.
Publish(c) ==
  /\ pc[c] = "publish"
  /\ \/ routes <= c /\ InsertEpoch(c)
     \/ routes > c /\ Goto(c, "done") /\ UNCHANGED <<routes, served, closing>>
  /\ UNCHANGED <<orbitVars, upWire, downWire, nodeVars, removed, callVars, bounds>>

\* handle_orbit_frame: Heartbeat.  Its answer fails when the writer is shut
\* down or, at times, when the peer is gone.
ReadHeartbeat(c) ==
  /\ pc[c] = "serving" /\ Reads(c, "heartbeat")
  /\ Beat(c)
  /\ \/ /\ closing[c] # "done" /\ link = c /\ Len(downWire[c]) < WireCap
        /\ downWire' = [downWire EXCEPT ![c] = Append(@, Answer(c))]
        /\ UNCHANGED pc
     \/ closing[c] # "done" /\ link # c /\ UNCHANGED <<downWire, pc>>
     \/ (closing[c] = "done" \/ link # c) /\ Goto(c, "leave") /\ UNCHANGED downWire
  /\ UNCHANGED <<orbitVars, closing, enrolled, roles, routeVars, callVars, bounds>>

\* reregister_hello
ReadHello(c) ==
  /\ pc[c] = "serving" /\ Reads(c, "hello")
  /\ \/ Register(c) /\ Goto(c, "reroles")
     \/ ~Accepts(c) /\ Goto(c, "leave") /\ UNCHANGED entry
  /\ UNCHANGED <<orbitVars, downWire, closing, enrolled, roles, routeVars, callVars, bounds>>

\* resolve
ReadResp(c) ==
  /\ pc[c] = "serving" /\ Reads(c, "resp")
  /\ EndPending(c)
  /\ UNCHANGED <<orbitVars, downWire, pc, closing, nodeVars, routeVars, operator, bounds>>

\* The read loop ends.
Leave(c) ==
  /\ pc[c] = "serving" /\ (EndOfStream(c) \/ ShutDown(c))
  /\ Goto(c, "leave")
  /\ UNCHANGED <<orbitVars, upWire, downWire, closing, nodeVars, routeVars, callVars, bounds>>

\* The teardown: deregister_connection, remove_epoch, fail_all.
TearDown(c) ==
  /\ \/ /\ pc[c] = "leave" /\ DeregisterConnection(c) /\ Goto(c, "unroute")
        /\ UNCHANGED <<routes, request>>
     \/ /\ pc[c] = "unroute" /\ routes = c
        /\ routes' = 0 /\ Goto(c, "fail")
        /\ UNCHANGED <<entry, roles, request>>
     \/ /\ pc[c] = "unroute" /\ routes # c /\ Goto(c, "done")
        /\ UNCHANGED <<entry, roles, routes, request>>
     \/ /\ pc[c] = "fail" /\ EndPending(c) /\ Goto(c, "done")
        /\ UNCHANGED <<entry, roles, routes>>
  /\ UNCHANGED <<orbitVars, upWire, downWire, closing, enrolled, served, removed, operator,
                 bounds>>
-----------------------------------------------------------------------------
(***************************************************************************)
(* The operator and the process.                                           *)
(***************************************************************************)
\* remove_node, of a node that is not enrolled (the removal of one that is
\* revokes its key as well, and it does not come back).
RemoveNode ==
  /\ operator = "idle" /\ entry.present /\ ~enrolled /\ Occurs("remove")
  /\ operator' = "deregister"
  /\ UNCHANGED <<orbitVars, upWire, downWire, pc, closing, nodeVars, routeVars, request, ticks>>

Deregister ==
  /\ operator = "deregister" /\ operator' = "drop"
  /\ entry' = Absent /\ roles' = 0
  /\ UNCHANGED <<orbitVars, upWire, downWire, pc, closing, enrolled, routeVars, request, bounds>>

Drop ==
  /\ operator = "drop" /\ operator' = "idle"
  /\ \/ /\ routes # 0
        /\ closing' = [closing EXCEPT ![routes] = "signal"]
        /\ removed' = removed \cup {routes} /\ routes' = 0
     \/ routes = 0 /\ UNCHANGED <<closing, removed, routes>>
  /\ UNCHANGED <<orbitVars, upWire, downWire, pc, nodeVars, served, request, bounds>>

\* Axis is started again; the inventory is read back.
AxisRestart ==
  /\ Occurs("axis_restart")
  /\ link' = 0 /\ heart' = "sleep" /\ unacked' = 0
  /\ upWire' = [c \in Conn |-> <<>>] /\ downWire' = [c \in Conn |-> <<>>]
  /\ pc' = [c \in Conn |-> IF pc[c] = "none" THEN "none" ELSE "done"]
  /\ closing' = [c \in Conn |-> "none"]
  /\ entry' = Inventory /\ roles' = 0
  /\ routes' = 0 /\ served' = {} /\ removed' = {}
  /\ operator' = "idle" /\ request' = [pc |-> "idle", conn |-> 0]
  /\ UNCHANGED <<opened, enrolled, ticks>>
-----------------------------------------------------------------------------
Handler(c) ==
  \/ FirstHello(c) \/ SetRoles(c) \/ Publish(c) \/ ReadHeartbeat(c) \/ ReadHello(c)
  \/ ReadResp(c) \/ Leave(c) \/ TearDown(c)

Request == RequestSlot \/ RequestWrite

Next ==
  \/ Connect \/ Heartbeat \/ HeartbeatCheck \/ OrbitRead \/ OrbitSeesEnd \/ Disconnect
  \/ \E c \in Conn : Handler(c) \/ Close(c)
  \/ List \/ Tick \/ Drain
  \/ RequestGet \/ Request
  \/ RemoveNode \/ Deregister \/ Drop \/ AxisRestart

Spec == Init /\ [][Next]_vars

(***************************************************************************)
(* Every task that has a step to take takes it.  Nobody has to list the    *)
(* nodes, to drain or remove one, or to make a request.                    *)
(***************************************************************************)
Fairness ==
  /\ WF_vars(Connect) /\ WF_vars(Heartbeat) /\ WF_vars(HeartbeatCheck)
  /\ WF_vars(OrbitRead) /\ WF_vars(OrbitSeesEnd)
  /\ \A c \in Conn : WF_vars(Handler(c)) /\ WF_vars(Close(c))
  /\ WF_vars(Request) /\ WF_vars(Deregister \/ Drop)

FairSpec == Spec /\ Fairness
-----------------------------------------------------------------------------
(***************************************************************************)
(* Properties.                                                             *)
(***************************************************************************)
\* A connection that a handler serves is the one that requests go to, or it is
\* being closed: no Orbit heartbeats for ever into a handler that nothing is
\* sent through.
RoutedOrClosing ==
  \A c \in Conn : pc[c] \in {"serving", "reroles"} => routes = c \/ closing[c] # "none"

\* Axis closes a connection only for a newer one or for the operator: a late
\* Hello of an old connection never closes the one that has replaced it.
OnlyOlderClosed ==
  \A c \in Conn : closing[c] # "none" =>
    c \in removed \/ \E d \in served : d > c

\* A connection that was served and has ended is neither registered nor routed
\* to, in whatever order it was superseded, removed and disconnected.
NothingLeft ==
  \A c \in served : pc[c] = "done" => routes # c /\ entry.epoch # c

\* The inductive invariant: a connection is routed to from the step that
\* publishes it until its teardown, and each step of the teardown undoes what
\* is its own.
ServedPc == {"serving", "reroles", "leave", "unroute", "fail", "done"}
Published ==
  /\ \A c \in served : pc[c] \in ServedPc
  /\ routes # 0 => routes \in served
TornDown ==
  \A c \in served :
    /\ pc[c] \in {"unroute", "fail", "done"} => entry.epoch # c
    /\ pc[c] \in {"fail", "done"} => routes # c
Unowned  == ~entry.present => entry.epoch = 0
Counting == heart = "sleep" => unacked < Missed
Unopened == \A c \in Conn : c > opened => pc[c] = "none"

RegistryInv ==
  /\ TypeOK /\ Published /\ TornDown /\ Unowned /\ Counting /\ Unopened
  /\ RoutedOrClosing /\ OnlyOlderClosed

\* "A stale connection's death must never deregister a newer registration"
\* (docs/postmortems/0037-node-vanished-heartbeat-blackhole.md): a registration
\* goes away with its own connection, with its heartbeats or by the operator,
\* and yields only to that of a newer connection.
RegistrationYields ==
  entry.present /\ entry.epoch # 0 /\ ~(entry'.present /\ entry'.epoch = entry.epoch) =>
    \/ entry'.present /\ entry'.epoch > entry.epoch
    \/ pc[entry.epoch] = "leave" \/ entry.age = 2
    \/ operator = "deregister" \/ faults' > faults
RegistrationKept == [][RegistrationYields]_vars

\* Once faults end, the Orbit's connection is the registered one, requests
\* reach it, its roles are known and it is not shown as offline: whatever was
\* evicted, superseded or removed is repaired by the next heartbeats.
Visible ==
  /\ link # 0 /\ routes = link
  /\ entry.present /\ entry.epoch = link /\ entry.status # "Offline"
  /\ roles # 0
ComesBack == <>[]Visible

=============================================================================
