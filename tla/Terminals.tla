------------------------------- MODULE Terminals -------------------------------
(***************************************************************************)
(* One operator terminal: the WebSocket relays of the Axis that attach to  *)
(* it, the broadcast channel they listen on, and the PtyManager of the     *)
(* node that hosts its shell, the Axis itself or an Orbit.                 *)
(*                                                                         *)
(* A manager's entry is an attachment: a child on a pty (a tmux client, or *)
(* the shell itself where there is no tmux) and the reader task of its     *)
(* output.  Attachments are numbered as they are spawned.  A tmux session  *)
(* outlives its clients; a bare shell ends when the manager lets go of its *)
(* pty.  For a terminal of an Orbit the frames of the relays run as tasks  *)
(* of their own, in any order, and nobody waits for the answer.            *)
(*                                                                         *)
(* Abstracted: bytes, both ways, and window sizes, which change nothing    *)
(* here: of what a reader reports, the exits are left.                     *)
(***************************************************************************)
EXTENDS Integers, FiniteSets

CONSTANTS
  Relay,       \* the operator's sockets for the terminal
  MaxSpawns,   \* bound: attachments spawned
  MaxLinks     \* bound: connections of the Orbit

ASSUME TerminalAssumption == MaxSpawns \in Nat /\ MaxLinks \in Nat \ {0}

VARIABLES
  site,        \* the node of the terminal: "axis" or "orbit"
  tmux,        \* whether that node has tmux
  \* the node
  entry,       \* the attachment in `shells`, or 0
  spawned,     \* attachments spawned so far
  plan,        \* [attachment -> what its child has yet to exec]
  running,       \* attachments whose child runs
  reader,      \* attachments whose reader task runs
  shell,       \* the tmux session exists
  open,        \* [Relay -> where its call of PtyManager::open is]
  mine,        \* [Relay -> the attachment that call has spawned, or 0]
  exits,       \* exits reported that Axis has not routed
  \* Axis
  relay,       \* [Relay -> where it is]
  listening,   \* relays whose receiver is of the terminal's channel
  exited,      \* relays whose receiver holds an exit
  closes,      \* relays whose TerminalClose the Orbit has not handled
  link         \* connections of the Orbit so far

where == <<site, tmux>>
node == <<entry, spawned, plan, running, reader, shell>>
calls == <<open, mine>>
subscribers == <<listening, exited>>
terminalVars == <<where, node, calls, exits, relay, subscribers, closes, link>>

Attachment == 1..MaxSpawns

TerminalsInit ==
  /\ site \in {"axis", "orbit"} /\ tmux \in BOOLEAN
  /\ entry = 0 /\ spawned = 0 /\ plan = [a \in Attachment |-> "none"]
  /\ running = {} /\ reader = {} /\ shell = FALSE
  /\ open = [r \in Relay |-> "none"] /\ mine = [r \in Relay |-> 0] /\ exits = 0
  /\ relay = [r \in Relay |-> "idle"] /\ listening = {} /\ exited = {}
  /\ closes = {} /\ link = 1

At(r, from, to) == relay[r] = from /\ relay' = [relay EXCEPT ![r] = to]
Opens(r, from, to) == open[r] = from /\ open' = [open EXCEPT ![r] = to]

-----------------------------------------------------------------------------
(***************************************************************************)
(* The relay.                                                              *)
(***************************************************************************)
\* It subscribes before it opens the shell: the channel is made when there is
\* none, and one that is dropped closes the receivers it had.
Subscribe(r) ==
  /\ At(r, "idle", "subscribed") /\ listening' = listening \cup {r}
  /\ UNCHANGED <<where, node, calls, exits, exited, closes, link>>

\* It calls the Axis' own manager, or writes TerminalOpen to the Orbit and
\* takes the shell for open.
CallOpen(r) ==
  /\ At(r, "subscribed", IF site = "axis" THEN "opening" ELSE "attached")
  /\ Opens(r, "none", "check")
  /\ UNCHANGED <<where, node, mine, exits, subscribers, closes, link>>

\* The shell is open; when it is not, the relay ends without detaching.
Attached(r) ==
  /\ site = "axis"
  /\ \/ At(r, "opening", "attached") /\ Opens(r, "open", "none") /\ UNCHANGED listening
     \/ At(r, "opening", "gone") /\ Opens(r, "failed", "none") /\ listening' = listening \ {r}
  /\ UNCHANGED <<where, node, mine, exits, exited, closes, link>>

\* An exit that reached the receiver ends the loop, and so does a channel that
\* was dropped, or the operator, who closes the tab (code 4000) or only the
\* socket.
ExitRelayed(r) ==
  /\ r \in exited /\ At(r, "attached", "detach")
  /\ UNCHANGED <<where, node, calls, exits, subscribers, closes, link>>

ReceiverClosed(r) ==
  /\ r \notin listening \cup exited /\ At(r, "attached", "detach")
  /\ UNCHANGED <<where, node, calls, exits, subscribers, closes, link>>

SocketCloses(r) ==
  /\ \E end \in {"detach", "close"} : At(r, "attached", end)
  /\ UNCHANGED <<where, node, calls, exits, subscribers, closes, link>>

-----------------------------------------------------------------------------
(***************************************************************************)
(* PtyManager.                                                             *)
(***************************************************************************)
\* The entry is looked up under the lock.
OpenCheck(r) ==
  /\ Opens(r, "check", IF entry # 0 THEN "open" ELSE "spawn")
  /\ UNCHANGED <<where, node, mine, exits, relay, subscribers, closes, link>>

\* A child on a new pty; tmux is asked whether the session exists.
OpenSpawn(r) ==
  /\ spawned < MaxSpawns /\ Opens(r, "spawn", "insert")
  /\ spawned' = spawned + 1 /\ mine' = [mine EXCEPT ![r] = spawned']
  /\ plan' = [plan EXCEPT ![spawned'] =
       IF ~tmux THEN "none" ELSE IF shell THEN "attach" ELSE "new"]
  /\ running' = running \cup {spawned'} /\ reader' = reader \cup {spawned'}
  /\ UNCHANGED <<where, entry, shell, exits, relay, subscribers, closes, link>>

\* forkpty or dup fails.
OpenFails(r) ==
  /\ Opens(r, "spawn", "failed")
  /\ UNCHANGED <<where, node, mine, exits, relay, subscribers, closes, link>>

\* The child runs tmux: it ends when it has no session to attach to, or one to
\* create that exists.
ChildExecs(a) ==
  /\ a \in running /\ plan[a] # "none" /\ plan' = [plan EXCEPT ![a] = "none"]
  /\ running' = IF (plan[a] = "attach") = shell THEN running ELSE running \ {a}
  /\ shell' = (shell \/ plan[a] = "new")
  /\ UNCHANGED <<where, entry, spawned, reader, calls, exits, relay, subscribers, closes, link>>

\* The entry is made, over one that an overlapping call has made.
OpenInsert(r) ==
  /\ Opens(r, "insert", "open") /\ entry' = mine[r] /\ mine' = [mine EXCEPT ![r] = 0]
  /\ UNCHANGED <<where, spawned, plan, running, reader, shell, exits, relay, subscribers, closes, link>>

\* An open of an Orbit's is answered, and nobody waits for the answer.
OpenAnswered(r) ==
  /\ site = "orbit" /\ open[r] \in {"open", "failed"} /\ open' = [open EXCEPT ![r] = "none"]
  /\ UNCHANGED <<where, node, mine, exits, relay, subscribers, closes, link>>

\* The pty of an entry is closed with its reader: a tmux client detaches and
\* a bare shell hangs up.
Released ==
  /\ entry' = 0 /\ reader' = reader \ {entry} /\ running' = running \ {entry}
  /\ UNCHANGED <<spawned, plan>>

\* detach
DetachEntry == IF entry = 0 THEN UNCHANGED node ELSE Released /\ UNCHANGED shell

\* The clients of a session end with it.
SessionEnds == shell' = FALSE /\ running' = {a \in running : plan[a] # "none" /\ a # entry}

\* close
CloseEntry ==
  IF entry = 0 THEN UNCHANGED node
  ELSE IF tmux
  THEN entry' = 0 /\ reader' = reader \ {entry} /\ SessionEnds /\ UNCHANGED <<spawned, plan>>
  ELSE Released /\ UNCHANGED shell

\* The end of a relay on the Axis: the manager lets go, then the channel is
\* dropped.
LeaveAxis(r) ==
  /\ site = "axis"
  /\ \/ At(r, "detach", "drop") /\ DetachEntry
     \/ At(r, "close", "drop") /\ CloseEntry
  /\ UNCHANGED <<where, calls, exits, subscribers, closes, link>>

\* Fault: other relays of the terminal keep the channel.
DropTerminalOwn(r) ==
  /\ At(r, "drop", "gone") /\ listening' = listening \ {r} /\ exited' = exited \ {r}
  /\ UNCHANGED <<where, node, calls, exits, closes, link>>

DropTerminal(r) ==
  /\ At(r, "drop", "gone") /\ listening' = {} /\ exited' = exited \ {r}
  /\ UNCHANGED <<where, node, calls, exits, closes, link>>

\* An Orbit is told only of an explicit close. A detach drops the channel of
\* that name among the Axis' own terminals, where this one has none.
LeaveOrbit(r) ==
  /\ site = "orbit"
  /\ \/ At(r, "detach", "gone") /\ listening' = listening \ {r} /\ UNCHANGED closes
     \/ At(r, "close", "gone") /\ listening' = {} /\ closes' = closes \cup {r}
  /\ exited' = exited \ {r}
  /\ UNCHANGED <<where, node, calls, exits, link>>

\* The Orbit handles a TerminalClose, perhaps before the TerminalOpen.
HandleClose(r) ==
  /\ r \in closes /\ closes' = closes \ {r} /\ CloseEntry
  /\ UNCHANGED <<where, calls, exits, relay, subscribers, link>>

-----------------------------------------------------------------------------
(***************************************************************************)
(* Shells, readers and the way to the relays.                              *)
(***************************************************************************)
ShellExits ==
  /\ \/ tmux /\ shell /\ shell' = FALSE /\ running' = {a \in running : plan[a] # "none"}
     \/ ~tmux /\ \E a \in running : running' = running \ {a} /\ UNCHANGED shell
  /\ UNCHANGED <<where, entry, spawned, plan, reader, calls, exits, relay, subscribers, closes, link>>

\* The reader sees the end of its pty. With tmux the client may only have
\* been detached: the exit is reported when the session is gone. The entry stays.
ReaderEnds(a) ==
  /\ a \in reader \ running /\ reader' = reader \ {a}
  /\ exits' = IF tmux /\ shell THEN exits ELSE exits + 1
  /\ UNCHANGED <<where, entry, spawned, plan, running, shell, calls, relay, subscribers, closes, link>>

\* The exit reaches those who listen on the channel.
Forwarded == exits > 0 /\ exits' = exits - 1 /\ exited' = exited \cup listening

\* The fan-out task of the Axis' own terminals keeps the channel.
FanOut ==
  /\ site = "axis" /\ Forwarded
  /\ UNCHANGED <<where, node, calls, relay, listening, closes, link>>

\* The forwarder of the Orbit's connection and the read loop of Axis, which
\* drops the channel.
ReadExited ==
  /\ site = "orbit" /\ Forwarded /\ listening' = {}
  /\ UNCHANGED <<where, node, calls, relay, closes, link>>

\* The Orbit connects again: the new connection has a manager of its own. The
\* readers of the old one run on with nobody to report to, and keep their ptys.
Reconnect ==
  /\ site = "orbit" /\ link < MaxLinks /\ link' = link + 1
  /\ entry' = 0 /\ reader' = {} /\ exits' = 0 /\ closes' = {} /\ listening' = {}
  /\ open' = [r \in Relay |-> "none"] /\ mine' = [r \in Relay |-> 0]
  /\ UNCHANGED <<where, spawned, plan, running, shell, relay, exited>>

TerminalsNext ==
  \/ \E r \in Relay :
       \/ Subscribe(r) \/ CallOpen(r) \/ Attached(r) \/ ExitRelayed(r) \/ ReceiverClosed(r)
       \/ SocketCloses(r) \/ LeaveAxis(r) \/ DropTerminal(r) \/ LeaveOrbit(r) \/ HandleClose(r)
       \/ OpenCheck(r) \/ OpenSpawn(r) \/ OpenFails(r) \/ OpenInsert(r) \/ OpenAnswered(r)
  \/ \E a \in Attachment : ChildExecs(a) \/ ReaderEnds(a)
  \/ ShellExits \/ FanOut \/ ReadExited \/ Reconnect

TerminalsSpec == TerminalsInit /\ [][TerminalsNext]_terminalVars

-----------------------------------------------------------------------------
(***************************************************************************)
(* Properties.                                                             *)
(***************************************************************************)
\* Every variable has its type.
TerminalsTypeOK ==
  /\ site \in {"axis", "orbit"} /\ tmux \in BOOLEAN /\ shell \in BOOLEAN
  /\ spawned \in 0..MaxSpawns /\ entry \in 0..spawned /\ exits \in Nat
  /\ plan \in [Attachment -> {"none", "attach", "new"}]
  /\ running \subseteq 1..spawned /\ reader \subseteq 1..spawned
  /\ open \in [Relay -> {"none", "check", "spawn", "insert", "open", "failed"}]
  /\ mine \in [Relay -> 0..spawned]
  /\ relay \in [Relay -> {"idle", "subscribed", "opening", "attached", "detach", "close", "drop", "gone"}]
  /\ listening \subseteq Relay /\ exited \subseteq Relay
  /\ closes \subseteq Relay /\ link \in 1..MaxLinks

ShellLives == shell \/ running # {}

\* A relay that is on its way out, and with which the channel goes: it has the
\* shell, or will have it at its next step, and has received the exit or has lost
\* its receiver, or it has left its loop.
Holds(q) == relay[q] = "attached" \/ open[q] \in {"insert", "open"}
Leaving(q) ==
  \/ relay[q] \in {"detach", "close", "drop"}
  \/ Holds(q) /\ (q \in exited \/ q \notin listening)

\* No operator of a terminal on the Axis host is left attached to a shell that
\* is gone: the exit is on its way from a reader or through the channel, or some
\* relay is on its way out, and with it goes the channel.
ExitIsTold ==
  \A r \in Relay :
    site = "axis" /\ relay[r] = "attached" /\ r \in listening /\ ~ShellLives =>
      reader # {} \/ exits > 0 \/ \E q \in Relay : Leaving(q)
=============================================================================
