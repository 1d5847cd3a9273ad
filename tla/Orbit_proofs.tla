----------------------------- MODULE Orbit_proofs -----------------------------
(***************************************************************************)
(* Theorems about the parts of an Orbit that MCOrbit checks side by side,  *)
(* for every value of their constants.                                     *)
(***************************************************************************)
EXTENDS RuntimeTable, Terminals, TLAPS

USE RuntimeAssumption, TerminalAssumption

-----------------------------------------------------------------------------
(***************************************************************************)
(* The runtime table.                                                      *)
(***************************************************************************)

(* Whoever waits for a start lock, or holds it, has the one that is mapped:
   a lock is replaced only when nobody refers to it. *)
LocksMapped ==
  /\ \A c \in Ensure : lockOf[c] # NoRuntime => lockOf[c] = mapped
  /\ \A c \in Ensure : ensuring[c] \in Starting \cup {"wait"} => lockOf[c] # NoRuntime

(* A stop, or the reaper, has a target exactly between the removal of the
   entry and the end of the process. *)
TargetsHeld ==
  \A k \in Closer : IF closing[k] = "removed" THEN target[k] \in Ensure
                                              ELSE target[k] = NoRuntime

RuntimeInv == RuntimeTypeOK /\ LocksMapped /\ OneStart /\ TargetsHeld /\ NoStray

(***************************************************************************)
(* Types                                                                   *)
(***************************************************************************)
(* The initial state is well typed, and every step keeps the types. *)
LEMMA InitType == RuntimeInit => RuntimeTypeOK
  BY DEF RuntimeInit, RuntimeTypeOK, Attempt, Closer, Proc

LEMMA StepType ==
  ASSUME RuntimeTypeOK, [RuntimeNext]_runtimeVars
  PROVE  RuntimeTypeOK'
<1> USE DEF RuntimeTypeOK, locking, closers, Goes, Releases, Closes, Starting, Attempt, Proc, Closer
<1>1. ASSUME NEW c \in Ensure, FastPath(c)
      PROVE  RuntimeTypeOK'
  BY <1>1 DEF FastPath
<1>2. ASSUME NEW c \in Ensure, TakeLock(c)
      PROVE  RuntimeTypeOK'
  <2>1. StartLock(c) \in Ensure \cup {NoRuntime}
    BY DEF StartLock
  <2> QED
    BY <1>2, <2>1 DEF TakeLock
<1>3. ASSUME NEW c \in Ensure, Acquire(c)
      PROVE  RuntimeTypeOK'
  BY <1>3 DEF Acquire
<1>4. ASSUME NEW c \in Ensure, Spawn(c)
      PROVE  RuntimeTypeOK'
  BY <1>4 DEF Spawn
<1>5. ASSUME NEW c \in Ensure, Handshake(c)
      PROVE  RuntimeTypeOK'
  BY <1>5 DEF Handshake
<1>6. ASSUME NEW c \in Ensure, FailStart(c)
      PROVE  RuntimeTypeOK'
  BY <1>6 DEF FailStart
<1>7. ASSUME NEW c \in Ensure, Register(c)
      PROVE  RuntimeTypeOK'
  BY <1>7 DEF Register
<1>8. ASSUME NEW c \in Ensure, Answer(c)
      PROVE  RuntimeTypeOK'
  BY <1>8 DEF Answer
<1>9. ASSUME NEW k \in Closer, Unregister(k)
      PROVE  RuntimeTypeOK'
  BY <1>9 DEF Unregister
<1>10. ASSUME NEW k \in Closer, StopRuntime(k)
       PROVE  RuntimeTypeOK'
  BY <1>10 DEF StopRuntime
<1>11. CASE ReapPick \/ AbortReaper
  BY <1>11 DEF ReapPick, AbortReaper
<1>12. CASE Prompt \/ Cancel \/ Tick \/ (\E p \in Proc : Dies(p))
  BY <1>12 DEF Prompt, Cancel, Tick, Dies
<1>13. CASE UNCHANGED runtimeVars
  BY <1>13 DEF runtimeVars
<1> QED
  BY <1>1, <1>2, <1>3, <1>4, <1>5, <1>6, <1>7, <1>8, <1>9, <1>10, <1>11, <1>12, <1>13
     DEF RuntimeNext, EnsureStep, ReapStep

(***************************************************************************)
(* The start lock                                                          *)
(***************************************************************************)
(* Every step keeps everybody on the mapped lock. *)
LEMMA LockStep ==
  ASSUME RuntimeTypeOK, LocksMapped, [RuntimeNext]_runtimeVars
  PROVE  LocksMapped'
<1> USE DEF RuntimeTypeOK, LocksMapped, locking, closers, Goes, Releases, Starting
<1>1. ASSUME NEW c \in Ensure, TakeLock(c)
      PROVE  LocksMapped'
  <2>1. CASE mapped \in Referenced
    BY <1>1, <2>1 DEF TakeLock, StartLock, Referenced
  <2>2. CASE mapped \notin Referenced
    <3>1. \A d \in Ensure : lockOf[d] = NoRuntime
      BY <2>2 DEF Referenced
    <3>2. StartLock(c) = c
      BY <2>2 DEF StartLock
    <3> QED
      BY <1>1, <3>1, <3>2 DEF TakeLock
  <2> QED
    BY <2>1, <2>2
<1>2. ASSUME NEW c \in Ensure, FastPath(c)
      PROVE  LocksMapped'
  BY <1>2 DEF FastPath
<1>3. ASSUME NEW c \in Ensure, Acquire(c)
      PROVE  LocksMapped'
  BY <1>3 DEF Acquire
<1>4. ASSUME NEW c \in Ensure, Spawn(c) \/ Handshake(c)
      PROVE  LocksMapped'
  BY <1>4 DEF Spawn, Handshake
<1>5. ASSUME NEW c \in Ensure, FailStart(c)
      PROVE  LocksMapped'
  BY <1>5 DEF FailStart
<1>6. ASSUME NEW c \in Ensure, Register(c)
      PROVE  LocksMapped'
  BY <1>6 DEF Register
<1>7. CASE UNCHANGED <<mapped, lockOf, ensuring>>
  BY <1>7
<1>8. (\E c \in Ensure : FastPath(c) \/ EnsureStep(c)) \/ UNCHANGED <<mapped, lockOf, ensuring>>
  BY DEF RuntimeNext, ReapStep, Answer, Unregister, StopRuntime, ReapPick, AbortReaper,
         Prompt, Cancel, Tick, Dies, runtimeVars
<1> QED
  BY <1>1, <1>2, <1>3, <1>4, <1>5, <1>6, <1>7, <1>8 DEF EnsureStep

(* A request acquires the lock only when nobody starts a runtime under it. *)
LEMMA OneStartStep ==
  ASSUME RuntimeTypeOK, LocksMapped, OneStart, [RuntimeNext]_runtimeVars
  PROVE  OneStart'
<1> USE DEF RuntimeTypeOK, OneStart, locking, closers, Goes, Releases, Starting
<1>1. ASSUME NEW c \in Ensure, Acquire(c)
      PROVE  OneStart'
  <2>1. ensuring[c] = "wait" /\ registered' = registered
        /\ \A d \in Ensure \ {c} : ensuring'[d] = ensuring[d]
    BY <1>1 DEF Acquire
  <2>2. \A d \in Ensure : ensuring[d] \notin Starting
    BY <1>1, <2>1 DEF Acquire, Locked, LocksMapped
  <2>3. ensuring'[c] \in Starting => registered = NoRuntime
    BY <1>1 DEF Acquire
  <2> QED
    BY <2>1, <2>2, <2>3
<1>2. ASSUME NEW c \in Ensure, FastPath(c) \/ TakeLock(c)
      PROVE  OneStart'
  BY <1>2 DEF FastPath, TakeLock
<1>3. ASSUME NEW c \in Ensure, Spawn(c) \/ Handshake(c)
      PROVE  OneStart'
  BY <1>3 DEF Spawn, Handshake
<1>4. ASSUME NEW c \in Ensure, FailStart(c)
      PROVE  OneStart'
  BY <1>4 DEF FailStart
<1>5. ASSUME NEW c \in Ensure, Register(c)
      PROVE  OneStart'
  BY <1>5 DEF Register
<1>6. CASE UNCHANGED ensuring /\ registered' \in {registered, NoRuntime}
  BY <1>6
<1>7. \/ \E c \in Ensure : FastPath(c) \/ EnsureStep(c)
      \/ UNCHANGED ensuring /\ registered' \in {registered, NoRuntime}
  BY DEF RuntimeNext, ReapStep, Answer, Unregister, StopRuntime, ReapPick, AbortReaper,
         Prompt, Cancel, Tick, Dies, runtimeVars
<1> QED
  BY <1>1, <1>2, <1>3, <1>4, <1>5, <1>6, <1>7 DEF EnsureStep

(***************************************************************************)
(* The targets of stops, and the processes                                 *)
(***************************************************************************)
(* A target is taken with the entry and let go with the process. *)
LEMMA TargetsStep ==
  ASSUME RuntimeTypeOK, TargetsHeld, [RuntimeNext]_runtimeVars
  PROVE  TargetsHeld'
<1> USE DEF RuntimeTypeOK, TargetsHeld, locking, closers, Closes, Closer
<1>1. ASSUME NEW k \in Closer, Unregister(k)
      PROVE  TargetsHeld'
  BY <1>1 DEF Unregister
<1>2. ASSUME NEW k \in Closer, StopRuntime(k)
      PROVE  TargetsHeld'
  BY <1>2 DEF StopRuntime
<1>3. CASE ReapPick \/ AbortReaper
  BY <1>3 DEF ReapPick, AbortReaper
<1>4. CASE UNCHANGED closers
  BY <1>4
<1>5. (\E k \in Closer : Unregister(k) \/ StopRuntime(k)) \/ ReapPick \/ AbortReaper \/ UNCHANGED closers
  BY DEF RuntimeNext, EnsureStep, ReapStep, FastPath, TakeLock, Acquire, Spawn, Handshake,
         FailStart, Register, Answer, Prompt, Cancel, Tick, Dies, runtimeVars
<1> QED
  BY <1>1, <1>2, <1>3, <1>4, <1>5

(* A process that the table knows of stays known: one more may appear in a
   start, and those of a runtime that is let go have ended. *)
LEMMA NoStrayStep ==
  ASSUME RuntimeTypeOK, TargetsHeld, OneStart, NoStray, [RuntimeNext]_runtimeVars
  PROVE  NoStray'
<1> USE DEF RuntimeTypeOK, NoStray, locking, closers, Goes, Closes, Closer, Proc, Attempt, Starting
<1>1. ASSUME NEW c \in Ensure, FastPath(c) \/ TakeLock(c) \/ Acquire(c)
      PROVE  NoStray'
  BY <1>1 DEF FastPath, TakeLock, Acquire
<1>2. ASSUME NEW c \in Ensure, Spawn(c)
      PROVE  NoStray'
  BY <1>2 DEF Spawn
<1>3. ASSUME NEW c \in Ensure, Handshake(c)
      PROVE  NoStray'
  BY <1>3 DEF Handshake
<1>4. ASSUME NEW c \in Ensure, FailStart(c)
      PROVE  NoStray'
  <2>1. \A p \in alive' : p[1] # c
    BY <1>4 DEF FailStart, ProcessOf
  <2> QED
    BY <1>4, <2>1 DEF FailStart
<1>5. ASSUME NEW c \in Ensure, Register(c)
      PROVE  NoStray'
  BY <1>5 DEF Register, OneStart
<1>6. ASSUME NEW k \in Closer, Unregister(k)
      PROVE  NoStray'
  BY <1>6 DEF Unregister, TargetsHeld
<1>7. ASSUME NEW k \in Closer, StopRuntime(k)
      PROVE  NoStray'
  <2>1. target[k] \in Ensure
    BY <1>7 DEF StopRuntime, TargetsHeld
  <2>2. \A p \in alive' : p \in alive /\ p[1] # target[k]
    BY <1>7, <2>1 DEF StopRuntime, ProcessOf
  <2> QED
    BY <1>7, <2>1, <2>2 DEF StopRuntime
<1>8. CASE AbortReaper
  BY <1>8 DEF AbortReaper
<1>9. CASE UNCHANGED <<registered, ensuring, child, target, abandoned>> /\ alive' \subseteq alive
  BY <1>9
<1>10. \/ \E c \in Ensure : FastPath(c) \/ EnsureStep(c)
       \/ (\E k \in Closer : Unregister(k) \/ StopRuntime(k)) \/ AbortReaper
       \/ UNCHANGED <<registered, ensuring, child, target, abandoned>> /\ alive' \subseteq alive
  BY DEF RuntimeNext, ReapStep, ReapPick, Answer, Prompt, Cancel, Tick, Dies, runtimeVars
<1> QED
  BY <1>1, <1>2, <1>3, <1>4, <1>5, <1>6, <1>7, <1>8, <1>9, <1>10 DEF EnsureStep

(***************************************************************************)
(* The theorems                                                            *)
(***************************************************************************)
(* The table is well typed, everybody is on the mapped lock, and the two
   properties hold, in every reachable state. *)
THEOREM TableCorrect == RuntimeSpec => []RuntimeInv
<1>1. RuntimeInit => RuntimeInv
  <2> USE DEF RuntimeInit, Starting, Closer
  <2>1. RuntimeInit => LocksMapped
    BY DEF LocksMapped
  <2>2. RuntimeInit => OneStart /\ NoStray
    BY DEF OneStart, NoStray
  <2>3. RuntimeInit => TargetsHeld
    BY DEF TargetsHeld
  <2> QED
    BY <2>1, <2>2, <2>3, InitType DEF RuntimeInv
<1>2. RuntimeInv /\ [RuntimeNext]_runtimeVars => RuntimeInv'
  BY StepType, LockStep, OneStartStep, TargetsStep, NoStrayStep DEF RuntimeInv
<1> QED
  BY <1>1, <1>2, PTL DEF RuntimeSpec

(* At most one request starts a runtime, and none while one is registered. *)
THEOREM StartsAreExclusive == RuntimeSpec => []OneStart
<1>1. RuntimeInv => OneStart
  BY DEF RuntimeInv
<1> QED
  BY <1>1, TableCorrect, PTL

(* The process of every runtime that was started is known to somebody. *)
THEOREM ProcessesAreKnown == RuntimeSpec => []NoStray
<1>1. RuntimeInv => NoStray
  BY DEF RuntimeInv
<1> QED
  BY <1>1, TableCorrect, PTL

-----------------------------------------------------------------------------
(***************************************************************************)
(* Terminals.                                                              *)
(***************************************************************************)
(* A call of open that is made is its relay's, the manager is told of no   *)
(* close by a frame, and a child that runs has a reader.                   *)
Called == closes = {} /\ \A r \in Relay : open[r] # "none" => relay[r] = "opening"
Read   == running \subseteq reader

(* An entry has a relay that is to let go of it. *)
EntryHeld == entry # 0 => \E q \in Relay : Holds(q) \/ relay[q] \in {"detach", "close"}

(* Where a relay listens and has the shell, somebody is there to report its end: *)
(* a client of the tmux session, while it lives, or else any reader; unless its  *)
(* end is on its way, or a relay is on its way out.                              *)
Pending == exits > 0 \/ \E q \in Relay : Leaving(q)
Reported ==
  (\E r \in listening : Holds(r)) =>
    \/ Pending
    \/ IF tmux /\ shell THEN \E a \in running : plan[a] # "new" ELSE reader # {}

AxisHosted == site = "axis" => Called /\ Read /\ EntryHeld /\ Reported
TerminalsInv == TerminalsTypeOK /\ AxisHosted

(* The initial state is well typed, and every step keeps the types. *)
LEMMA TerminalsInitType == TerminalsInit => TerminalsInv
<1> SUFFICES ASSUME TerminalsInit PROVE TerminalsInv
  OBVIOUS
<1>1. TerminalsTypeOK
  <2>1. /\ site \in {"axis", "orbit"} /\ tmux \in BOOLEAN
        /\ spawned \in 0..MaxSpawns /\ entry \in 0..spawned /\ exits \in Nat /\ link \in 1..MaxLinks
    BY DEF TerminalsInit
  <2>3. shell \in BOOLEAN
    BY DEF TerminalsInit
  <2>2. /\ plan \in [Attachment -> {"none", "attach", "new"}]
        /\ open \in [Relay -> {"none", "check", "spawn", "insert", "open", "failed"}]
        /\ mine \in [Relay -> 0..spawned]
    BY DEF TerminalsInit
  <2> QED
    BY <2>1, <2>2, <2>3 DEF TerminalsInit, TerminalsTypeOK
<1>2. Called /\ Read /\ EntryHeld /\ Reported
  BY DEF TerminalsInit, Called, Read, EntryHeld, Reported
<1> QED
  BY <1>1, <1>2 DEF TerminalsInv, AxisHosted

LEMMA NodeType ==
  ASSUME TerminalsTypeOK, DetachEntry \/ CloseEntry
  PROVE  /\ entry' \in 0..spawned' /\ spawned' = spawned /\ plan' = plan /\ shell' \in BOOLEAN
         /\ running' \subseteq running /\ reader' \subseteq reader
<1>1. CASE DetachEntry
  BY <1>1 DEF DetachEntry, Released, TerminalsTypeOK, node
<1>2. CASE CloseEntry
  <2>1. CASE entry = 0
    BY <1>2, <2>1 DEF CloseEntry, TerminalsTypeOK, node
  <2>2. CASE entry # 0 /\ tmux
    <3>1. running' \subseteq running
      BY <1>2, <2>2 DEF CloseEntry, SessionEnds
    <3>2. /\ entry' = 0 /\ reader' = reader \ {entry}
          /\ spawned' = spawned /\ plan' = plan
      BY <1>2, <2>2 DEF CloseEntry
    <3>3. shell' \in BOOLEAN
      BY <1>2, <2>2 DEF CloseEntry, SessionEnds
    <3> QED
      BY <3>1, <3>2, <3>3 DEF TerminalsTypeOK
  <2>3. CASE entry # 0 /\ ~tmux
    BY <1>2, <2>3 DEF CloseEntry, Released, TerminalsTypeOK
  <2> QED
    BY <2>1, <2>2, <2>3 DEF TerminalsTypeOK
<1> QED
  BY <1>1, <1>2

LEMMA RelayTypes ==
  ASSUME TerminalsTypeOK, NEW r \in Relay,
         \/ Subscribe(r) \/ CallOpen(r) \/ Attached(r) \/ ExitRelayed(r) \/ ReceiverClosed(r)
         \/ SocketCloses(r) \/ LeaveAxis(r) \/ DropTerminal(r) \/ LeaveOrbit(r) \/ HandleClose(r)
  PROVE  TerminalsTypeOK'
<1>1. CASE Subscribe(r) \/ CallOpen(r)
  BY <1>1 DEF TerminalsTypeOK, Subscribe, CallOpen, At, Opens, where, node, calls, subscribers
<1>2. CASE Attached(r)
  BY <1>2 DEF TerminalsTypeOK, Attached, At, Opens, where, node, calls, subscribers
<1>3. CASE ExitRelayed(r) \/ ReceiverClosed(r) \/ SocketCloses(r) \/ DropTerminal(r)
  BY <1>3 DEF TerminalsTypeOK, ExitRelayed, ReceiverClosed, SocketCloses, DropTerminal, At, where,
              node, calls, subscribers
<1>4. CASE LeaveOrbit(r)
  BY <1>4 DEF TerminalsTypeOK, LeaveOrbit, At, where, node, calls, subscribers
<1>5. CASE LeaveAxis(r)
  <2>1. relay' \in [Relay -> {"idle", "subscribed", "opening", "attached", "detach", "close",
                              "drop", "gone"}]
    BY <1>5 DEF TerminalsTypeOK, LeaveAxis, At
  <2> QED
    BY <1>5, <2>1, NodeType DEF TerminalsTypeOK, LeaveAxis, where, calls, subscribers
<1>6. CASE HandleClose(r)
  BY <1>6, NodeType DEF TerminalsTypeOK, HandleClose, where, calls, subscribers
<1> QED
  BY <1>1, <1>2, <1>3, <1>4, <1>5, <1>6

LEMMA OpenTypes ==
  ASSUME TerminalsTypeOK, NEW r \in Relay,
         OpenCheck(r) \/ OpenSpawn(r) \/ OpenFails(r) \/ OpenInsert(r) \/ OpenAnswered(r)
  PROVE  TerminalsTypeOK'
<1>1. CASE OpenCheck(r) \/ OpenFails(r) \/ OpenAnswered(r)
  BY <1>1 DEF TerminalsTypeOK, OpenCheck, OpenFails, OpenAnswered, Opens, where, node, calls,
              subscribers
<1>2. CASE OpenSpawn(r)
  BY <1>2 DEF TerminalsTypeOK, OpenSpawn, Opens, where, subscribers, Attachment
<1>3. CASE OpenInsert(r)
  BY <1>3 DEF TerminalsTypeOK, OpenInsert, Opens, where, subscribers
<1> QED
  BY <1>1, <1>2, <1>3

LEMMA ShellTypes ==
  ASSUME TerminalsTypeOK,
         \/ \E a \in Attachment : ChildExecs(a) \/ ReaderEnds(a)
         \/ ShellExits \/ FanOut \/ ReadExited \/ Reconnect
  PROVE  TerminalsTypeOK'
<1>1. ASSUME NEW a \in Attachment, ChildExecs(a) PROVE TerminalsTypeOK'
  BY <1>1 DEF TerminalsTypeOK, ChildExecs, where, calls, subscribers
<1>2. ASSUME NEW a \in Attachment, ReaderEnds(a) PROVE TerminalsTypeOK'
  BY <1>2 DEF TerminalsTypeOK, ReaderEnds, where, calls, subscribers
<1>3. CASE ShellExits
  BY <1>3 DEF TerminalsTypeOK, ShellExits, where, calls, subscribers
<1>4. CASE FanOut \/ ReadExited
  <2>1. exits' \in Nat /\ exited' \subseteq Relay /\ listening' \subseteq Relay
    BY <1>4 DEF TerminalsTypeOK, FanOut, ReadExited, Forwarded
  <2> QED
    BY <1>4, <2>1 DEF TerminalsTypeOK, FanOut, ReadExited, where, node, calls
<1>5. CASE Reconnect
  BY <1>5 DEF TerminalsTypeOK, Reconnect, where
<1> QED
  BY <1>1, <1>2, <1>3, <1>4, <1>5

(* What a step of one relay, or of its call, does to who holds and who     *)
(* leaves: nothing to the others.                                          *)
LEMMA RelayFrame ==
  ASSUME TerminalsTypeOK, NEW r \in Relay, NEW p, NEW o,
         relay' = [relay EXCEPT ![r] = p], open' = [open EXCEPT ![r] = o],
         \A q \in Relay \ {r} : (q \in exited \/ q \notin listening) =>
                                  (q \in exited' \/ q \notin listening')
  PROVE  /\ Holds(r)' <=> p = "attached" \/ o \in {"insert", "open"}
         /\ \A q \in Relay \ {r} : (Holds(q)' <=> Holds(q)) /\ (Leaving(q) => Leaving(q)')
         /\ \A q \in Relay \ {r} : relay'[q] = relay[q] /\ open'[q] = open[q]
         /\ relay'[r] = p /\ open'[r] = o
BY DEF Holds, Leaving, TerminalsTypeOK

(* The relays before they hold the shell, and the calls that fail.         *)
LEMMA IdleStep ==
  ASSUME TerminalsInv, site = "axis", NEW r \in Relay,
         \/ Subscribe(r) \/ CallOpen(r) \/ OpenFails(r) \/ (OpenCheck(r) /\ entry = 0)
         \/ (Attached(r) /\ open[r] = "failed")
  PROVE  AxisHosted'
<1>1. /\ relay' = [relay EXCEPT ![r] = relay'[r]] /\ open' = [open EXCEPT ![r] = open'[r]]
      /\ open[r] \notin {"insert", "open"} /\ relay[r] \notin {"attached", "detach", "close", "drop"}
      /\ open'[r] \notin {"insert", "open"} /\ relay'[r] # "attached"
      /\ open'[r] # "none" => relay'[r] = "opening"
  BY DEF TerminalsInv, AxisHosted, Called, TerminalsTypeOK, Subscribe, CallOpen, OpenFails,
         OpenCheck, Attached, At, Opens, calls
<1>2. /\ UNCHANGED <<site, tmux, entry, plan, running, reader, shell, exits, exited, closes>>
      /\ listening \ {r} = listening' \ {r}
  BY DEF Subscribe, CallOpen, OpenFails, OpenCheck, Attached, where, node, calls, subscribers
<1>3. /\ ~Holds(r) /\ ~Leaving(r) /\ ~Holds(r)'
      /\ \A q \in Relay \ {r} : (Holds(q)' <=> Holds(q)) /\ (Leaving(q) => Leaving(q)')
      /\ \A q \in Relay \ {r} : relay'[q] = relay[q] /\ open'[q] = open[q]
  <2>1. \A q \in Relay \ {r} : (q \in exited \/ q \notin listening) =>
                                 (q \in exited' \/ q \notin listening')
    BY <1>2
  <2>2. PICK p : p = relay'[r]
    OBVIOUS
  <2>3. PICK o : o = open'[r]
    OBVIOUS
  <2> QED
    BY <1>1, <2>1, <2>2, <2>3, RelayFrame DEF TerminalsInv, Holds, Leaving
<1>4. Called' /\ Read'
  BY <1>1, <1>2, <1>3 DEF TerminalsInv, AxisHosted, Called, Read
<1>5. EntryHeld'
  BY <1>1, <1>2, <1>3 DEF TerminalsInv, AxisHosted, EntryHeld
<1>6. Reported'
  <2>1. Pending => Pending'
    BY <1>2, <1>3 DEF Pending
  <2>2. (\E q \in listening' : Holds(q)') => \E q \in listening : Holds(q)
    BY <1>2, <1>3 DEF TerminalsInv, TerminalsTypeOK
  <2> QED
    BY <1>2, <2>1, <2>2 DEF TerminalsInv, AxisHosted, Reported
<1> QED
  BY <1>4, <1>5, <1>6 DEF AxisHosted

(* The relays that come to hold the shell, or go on to leave it.           *)
LEMMA HoldStep ==
  ASSUME TerminalsInv, site = "axis", NEW r \in Relay,
         \/ (OpenCheck(r) /\ entry # 0) \/ OpenInsert(r) \/ (Attached(r) /\ open[r] = "open")
         \/ ExitRelayed(r) \/ ReceiverClosed(r) \/ SocketCloses(r)
  PROVE  AxisHosted'
<1>1. /\ relay' = [relay EXCEPT ![r] = relay'[r]] /\ open' = [open EXCEPT ![r] = open'[r]]
      /\ \/ relay'[r] = "attached" /\ open'[r] = "none"
         \/ relay'[r] = "opening" /\ open'[r] = "open"
         \/ relay'[r] \in {"detach", "close"} /\ open'[r] = "none"
      /\ relay[r] \notin {"detach", "close", "drop"}
  BY DEF TerminalsInv, AxisHosted, Called, TerminalsTypeOK, OpenInsert, OpenCheck, Attached,
         ExitRelayed, ReceiverClosed, SocketCloses, At, Opens, calls
<1>2. UNCHANGED <<site, tmux, plan, running, reader, shell, exits, exited, listening, closes>>
  BY DEF OpenInsert, OpenCheck, Attached, ExitRelayed, ReceiverClosed, SocketCloses, At, Opens,
         where, node, calls, subscribers
<1>3. entry' # 0 => entry # 0 \/ Holds(r)'
  BY DEF OpenInsert, OpenCheck, Attached, ExitRelayed, ReceiverClosed, SocketCloses, Holds, Opens,
         node, TerminalsInv, TerminalsTypeOK
<1>4. /\ Holds(r)' \/ relay'[r] \in {"detach", "close"}
      /\ \A q \in Relay \ {r} : (Holds(q)' <=> Holds(q)) /\ (Leaving(q) => Leaving(q)')
      /\ \A q \in Relay \ {r} : relay'[q] = relay[q] /\ open'[q] = open[q]
  <2>1. \A q \in Relay \ {r} : (q \in exited \/ q \notin listening) =>
                                 (q \in exited' \/ q \notin listening')
    BY <1>2
  <2>2. PICK p : p = relay'[r]
    OBVIOUS
  <2>3. PICK o : o = open'[r]
    OBVIOUS
  <2> QED
    BY <1>1, <2>1, <2>2, <2>3, RelayFrame DEF TerminalsInv
<1>5. Called' /\ Read'
  BY <1>1, <1>2, <1>4 DEF TerminalsInv, AxisHosted, Called, Read
<1>6. EntryHeld'
  BY <1>3, <1>4 DEF TerminalsInv, AxisHosted, EntryHeld
<1>7. Leaving(r) => Leaving(r)'
  BY <1>1, <1>2, <1>4 DEF Leaving
<1>8. Reported'
  <2>1. Pending => Pending'
    BY <1>2, <1>4, <1>7 DEF Pending
  <2>2. CASE entry = 0 \/ Holds(r)
    <3>1. Holds(r)
      BY <2>2 DEF OpenInsert, OpenCheck, Attached, ExitRelayed, ReceiverClosed, SocketCloses, At,
                  Opens, Holds
    <3>2. (\E q \in listening' : Holds(q)') => \E q \in listening : Holds(q)
      BY <1>2, <1>4, <3>1 DEF TerminalsInv, TerminalsTypeOK
    <3> QED
      BY <1>2, <2>1, <3>2 DEF TerminalsInv, AxisHosted, Reported
  <2>3. CASE entry # 0 /\ ~Holds(r)
    <3>1. PICK q \in Relay : Holds(q) \/ relay[q] \in {"detach", "close"}
      BY <2>3 DEF TerminalsInv, AxisHosted, EntryHeld
    <3>2. q \notin listening => Pending
      BY <3>1 DEF Pending, Leaving
    <3>3. relay[q] \in {"detach", "close"} => Pending
      BY <3>1 DEF Pending, Leaving
    <3> QED
      BY <1>2, <2>1, <3>1, <3>2, <3>3 DEF TerminalsInv, AxisHosted, Reported
  <2> QED
    BY <2>2, <2>3
<1> QED
  BY <1>5, <1>6, <1>8 DEF AxisHosted

(* The end of a relay: it lets go of the entry, and then drops the channel. *)
LEMMA LeaveStep ==
  ASSUME TerminalsInv, site = "axis", NEW r \in Relay, LeaveAxis(r) \/ DropTerminal(r)
  PROVE  AxisHosted'
<1>1. /\ relay' = [relay EXCEPT ![r] = relay'[r]] /\ open' = [open EXCEPT ![r] = open[r]]
      /\ relay'[r] \in {"drop", "gone"} /\ open[r] = "none"
      /\ UNCHANGED <<site, tmux, exits, closes, open>>
  BY DEF TerminalsInv, AxisHosted, Called, TerminalsTypeOK, LeaveAxis, DropTerminal, At, where,
         calls
<1>2. Called'
  BY <1>1 DEF TerminalsInv, AxisHosted, Called, TerminalsTypeOK
<1>3. CASE LeaveAxis(r)
  <2>1. /\ relay'[r] = "drop" /\ UNCHANGED <<listening, exited>> /\ (DetachEntry \/ CloseEntry)
    BY <1>3 DEF LeaveAxis, At, subscribers, TerminalsInv, TerminalsTypeOK
  <2>2. entry' = 0
    BY <2>1 DEF DetachEntry, CloseEntry, Released, node
  <2>3. running' \subseteq reader'
    <3>1. CASE entry = 0
      BY <2>1, <3>1 DEF DetachEntry, CloseEntry, node, TerminalsInv, AxisHosted, Read
    <3>2. CASE entry # 0
      <4>1. reader' = reader \ {entry}
        BY <2>1, <3>2 DEF DetachEntry, CloseEntry, Released
      <4>2. running' \subseteq running \ {entry}
        BY <2>1, <3>2 DEF DetachEntry, CloseEntry, Released, SessionEnds
      <4> QED
        BY <4>1, <4>2 DEF TerminalsInv, AxisHosted, Read
    <3> QED
      BY <3>1, <3>2
  <2>4. Pending'
    BY <2>1 DEF Pending, Leaving
  <2> QED
    BY <1>2, <2>2, <2>3, <2>4 DEF AxisHosted, EntryHeld, Reported, Read
<1>4. CASE DropTerminal(r)
  <2>1. /\ UNCHANGED node /\ listening' = {} /\ relay[r] = "drop"
    BY <1>4 DEF DropTerminal, At
  <2>2. EntryHeld'
    BY <1>1, <2>1 DEF TerminalsInv, AxisHosted, EntryHeld, Holds, node, TerminalsTypeOK
  <2> QED
    BY <1>2, <2>1, <2>2 DEF TerminalsInv, AxisHosted, Reported, Read, node
<1> QED
  BY <1>3, <1>4

(* Children, readers and the fan-out.                                      *)
LEMMA SpawnStep ==
  ASSUME TerminalsInv, site = "axis", NEW r \in Relay, OpenSpawn(r)
  PROVE  AxisHosted'
<1>1. PICK a \in Attachment : a = spawned + 1 /\ a = spawned'
  BY DEF OpenSpawn, TerminalsInv, TerminalsTypeOK, Attachment
<1>2. /\ running' = running \cup {a} /\ reader' = reader \cup {a}
      /\ plan' = [plan EXCEPT ![a] = IF ~tmux THEN "none" ELSE IF shell THEN "attach" ELSE "new"]
      /\ UNCHANGED <<site, tmux, entry, shell, exits, relay, listening, exited, closes>>
  BY <1>1 DEF OpenSpawn, where, subscribers
<1>3. relay' = [relay EXCEPT ![r] = relay[r]] /\ open' = [open EXCEPT ![r] = "insert"]
      /\ open[r] = "spawn"
  BY <1>2 DEF OpenSpawn, Opens, TerminalsInv, TerminalsTypeOK
<1>4. \A q \in Relay \ {r} : Holds(q)' <=> Holds(q)
  BY <1>2, <1>3 DEF Holds, TerminalsInv, TerminalsTypeOK
<1>5. ~Holds(r) /\ relay[r] = "opening"
  BY <1>3 DEF Holds, TerminalsInv, AxisHosted, Called
<1>6. EntryHeld'
  BY <1>2, <1>4, <1>5 DEF TerminalsInv, AxisHosted, EntryHeld
<1>7. Called' /\ Read'
  BY <1>2, <1>3, <1>5 DEF TerminalsInv, AxisHosted, Called, Read, TerminalsTypeOK
<1>8. a \in reader' /\ a \in running' /\ (tmux /\ shell => plan'[a] # "new")
  BY <1>2 DEF TerminalsInv, TerminalsTypeOK
<1>9. Reported'
  BY <1>2, <1>8 DEF Reported
<1> QED
  BY <1>6, <1>7, <1>9 DEF AxisHosted

(* Where nobody's place changes and nothing pending is lost, the rest of   *)
(* what is there to report is to be shown.                                 *)
LEMMA StayStep ==
  ASSUME TerminalsInv, site = "axis", running' \subseteq reader',
         UNCHANGED <<site, tmux, entry, open, relay, listening, closes>>,
         exits' >= exits, exited \subseteq exited', exits' \in Nat,
         \/ exits' > 0
         \/ (\E a \in running : plan[a] # "new") /\ tmux /\ shell =>
              IF tmux' /\ shell' THEN \E a \in running' : plan'[a] # "new" ELSE reader' # {},
         \/ exits' > 0
         \/ ~(tmux /\ shell) /\ reader # {} =>
              IF tmux' /\ shell' THEN \E a \in running' : plan'[a] # "new" ELSE reader' # {}
  PROVE  AxisHosted'
<1>1. \A q \in Relay : Holds(q)' <=> Holds(q)
  BY DEF Holds
<1>2. \A q \in Relay : Leaving(q) => Leaving(q)'
  BY <1>1 DEF Leaving
<1>3. Called' /\ Read' /\ EntryHeld'
  BY <1>1 DEF TerminalsInv, AxisHosted, Called, Read, EntryHeld
<1>4. Pending => Pending'
  BY <1>2 DEF Pending, TerminalsInv, TerminalsTypeOK
<1>5. exits' > 0 => Pending'
  BY DEF Pending
<1>6. Reported'
  <2>1. SUFFICES ASSUME \E q \in listening' : Holds(q)', ~Pending' PROVE
                   IF tmux' /\ shell' THEN \E a \in running' : plan'[a] # "new" ELSE reader' # {}
    BY DEF Reported
  <2>2. IF tmux /\ shell THEN \E a \in running : plan[a] # "new" ELSE reader # {}
    BY <1>1, <1>4, <2>1 DEF Reported, TerminalsInv, AxisHosted, TerminalsTypeOK
  <2>3. CASE tmux /\ shell
    BY <1>5, <2>1, <2>2, <2>3
  <2>4. CASE ~(tmux /\ shell)
    BY <1>5, <2>1, <2>2, <2>4
  <2> QED
    BY <2>3, <2>4
<1> QED
  BY <1>3, <1>6 DEF AxisHosted

LEMMA ChildStep ==
  ASSUME TerminalsInv, site = "axis", NEW a \in Attachment, ChildExecs(a)
  PROVE  AxisHosted'
<1>1. /\ UNCHANGED <<site, tmux, entry, open, relay, listening, closes, exits, exited, reader>>
      /\ a \in running /\ plan[a] # "none" /\ running' \subseteq running
  BY DEF ChildExecs, where, calls, subscribers
<1>2. running' \subseteq reader' /\ exits' >= exits /\ exited \subseteq exited' /\ exits' \in Nat
  BY <1>1 DEF TerminalsInv, TerminalsTypeOK, AxisHosted, Read
<1>3. /\ plan'[a] = "none"
      /\ \A b \in Attachment \ {a} : plan'[b] = plan[b] /\ (b \in running => b \in running')
  BY DEF ChildExecs, TerminalsInv, TerminalsTypeOK
<1>4. ASSUME tmux, shell, NEW b \in running, plan[b] # "new"
      PROVE  tmux' /\ shell' /\ b \in running' /\ plan'[b] # "new"
  <2>1. b \in Attachment
    BY DEF TerminalsInv, TerminalsTypeOK, Attachment
  <2>2. shell'
    BY <1>4 DEF ChildExecs
  <2>3. CASE b = a
    <3>1. plan[a] = "attach"
      BY <1>1, <1>4, <2>3 DEF TerminalsInv, TerminalsTypeOK
    <3>2. running' = running
      BY <1>4, <3>1 DEF ChildExecs
    <3> QED
      BY <1>1, <1>3, <1>4, <2>2, <2>3, <3>2
  <2> QED
    BY <1>1, <1>3, <1>4, <2>1, <2>2, <2>3
<1>5. ASSUME ~(tmux /\ shell), reader # {}, tmux', shell'
      PROVE  a \in running' /\ plan'[a] # "new"
  <2>1. ~shell
    BY <1>1, <1>5
  <2>2. plan[a] = "new"
    BY <1>5, <2>1 DEF ChildExecs
  <2>3. shell = FALSE
    BY <2>1 DEF TerminalsInv, TerminalsTypeOK
  <2>4. running' = running
    BY <2>2, <2>3 DEF ChildExecs
  <2> QED
    BY <1>1, <1>3, <2>4
<1> QED
  BY <1>1, <1>2, <1>4, <1>5, StayStep

LEMMA ExitStep ==
  ASSUME TerminalsInv, site = "axis", ShellExits
  PROVE  AxisHosted'
<1>1. /\ UNCHANGED <<site, tmux, entry, open, relay, listening, closes, exits, exited, reader>>
      /\ running' \subseteq running
  BY DEF ShellExits, where, calls, subscribers
<1>2. running' \subseteq reader' /\ exits' >= exits /\ exited \subseteq exited' /\ exits' \in Nat
  BY <1>1 DEF TerminalsInv, TerminalsTypeOK, AxisHosted, Read
<1>3. ~(tmux' /\ shell')
  BY <1>1 DEF ShellExits
<1>4. running # {} => reader' # {}
  BY <1>1 DEF TerminalsInv, AxisHosted, Read
<1> QED
  BY <1>1, <1>2, <1>3, <1>4, StayStep

LEMMA ReaderStep ==
  ASSUME TerminalsInv, site = "axis", NEW a \in Attachment, ReaderEnds(a)
  PROVE  AxisHosted'
<1>1. /\ UNCHANGED <<site, tmux, entry, open, relay, listening, closes, exited, running, shell, plan>>
      /\ a \in reader \ running /\ reader' = reader \ {a}
  BY DEF ReaderEnds, where, calls, subscribers
<1>2. running' \subseteq reader' /\ exited \subseteq exited'
  BY <1>1 DEF TerminalsInv, AxisHosted, Read
<1>3. exits' \in Nat /\ exits' >= exits /\ (exits' > 0 \/ (tmux /\ shell))
  <2>1. CASE tmux /\ shell
    BY <2>1 DEF ReaderEnds, TerminalsInv, TerminalsTypeOK
  <2>2. CASE ~(tmux /\ shell)
    <3>1. exits' = exits + 1
      BY <2>2 DEF ReaderEnds
    <3>2. exits \in Nat
      BY DEF TerminalsInv, TerminalsTypeOK
    <3>3. exits' \in Nat /\ exits' >= exits /\ exits' > 0
      BY <3>1, <3>2
    <3> QED
      BY <3>3
  <2> QED
    BY <2>1, <2>2
<1> QED
  BY <1>1, <1>2, <1>3, StayStep

(* The fan-out hands the exit to every relay that listens: one that holds  *)
(* the shell is leaving from here on.                                      *)
LEMMA FanOutStep ==
  ASSUME TerminalsInv, site = "axis", FanOut
  PROVE  AxisHosted'
<1>1. /\ UNCHANGED <<site, tmux, entry, open, relay, listening, closes, running, reader>>
      /\ exited' = exited \cup listening
  BY DEF FanOut, Forwarded, where, node, calls
<1>2. \A q \in Relay : Holds(q)' <=> Holds(q)
  BY <1>1 DEF Holds
<1>3. Called' /\ Read' /\ EntryHeld'
  BY <1>1, <1>2 DEF TerminalsInv, AxisHosted, Called, Read, EntryHeld
<1>4. ASSUME NEW q \in listening', Holds(q)' PROVE Pending'
  <2>1. q \in Relay /\ q \in exited'
    BY <1>1, <1>4 DEF TerminalsInv, TerminalsTypeOK
  <2> QED
    BY <1>4, <2>1 DEF Pending, Leaving
<1>5. Reported'
  BY <1>4 DEF Reported
<1> QED
  BY <1>3, <1>5 DEF AxisHosted

(* No step moves a terminal, and one of a terminal on the Axis host keeps  *)
(* the invariant.                                                          *)
LEMMA SiteStays ==
  ASSUME [TerminalsNext]_terminalVars
  PROVE  site' = site
BY DEF TerminalsNext, terminalVars, where, Subscribe, CallOpen, Attached, ExitRelayed,
       ReceiverClosed, SocketCloses, LeaveAxis, DropTerminal, LeaveOrbit, HandleClose, OpenCheck,
       OpenSpawn, OpenFails, OpenInsert, OpenAnswered, ChildExecs, ReaderEnds, ShellExits, FanOut,
       ReadExited, Reconnect

LEMMA TerminalsStep == TerminalsInv /\ [TerminalsNext]_terminalVars => TerminalsInv'
<1> SUFFICES ASSUME TerminalsInv, [TerminalsNext]_terminalVars PROVE TerminalsInv'
  OBVIOUS
<1>1. TerminalsTypeOK'
  <2>1. CASE TerminalsNext
    BY <2>1, RelayTypes, OpenTypes, ShellTypes DEF TerminalsInv, TerminalsNext
  <2>2. CASE UNCHANGED terminalVars
    BY <2>2 DEF TerminalsInv, TerminalsTypeOK, terminalVars, where, node, calls, subscribers
  <2> QED
    BY <2>1, <2>2
<1>2. CASE site # "axis"
  BY <1>1, <1>2, SiteStays DEF TerminalsInv, AxisHosted
<1>3. CASE site = "axis"
  <2>1. ASSUME UNCHANGED terminalVars PROVE AxisHosted'
    <3>1. \A q \in Relay : (Holds(q)' <=> Holds(q)) /\ (Leaving(q)' <=> Leaving(q))
      BY <2>1 DEF Holds, Leaving, terminalVars, calls, subscribers
    <3>2. Called' /\ Read' /\ EntryHeld'
      BY <1>3, <2>1, <3>1 DEF TerminalsInv, AxisHosted, Called, Read, EntryHeld, terminalVars, node,
         calls
    <3>3. Pending' <=> Pending
      BY <2>1, <3>1 DEF Pending, terminalVars
    <3>4. Reported'
      BY <1>3, <2>1, <3>1, <3>3 DEF TerminalsInv, TerminalsTypeOK, AxisHosted, Reported,
         terminalVars, where, node, subscribers
    <3> QED
      BY <3>2, <3>4 DEF AxisHosted
  <2>2. ASSUME NEW r \in Relay,
               \/ Subscribe(r) \/ CallOpen(r) \/ Attached(r) \/ OpenFails(r) \/ OpenCheck(r)
               \/ ExitRelayed(r) \/ ReceiverClosed(r) \/ SocketCloses(r) \/ OpenInsert(r)
        PROVE  AxisHosted'
    <3>1. CASE Subscribe(r) \/ CallOpen(r) \/ OpenFails(r)
      BY <1>3, <3>1, IdleStep
    <3>2. CASE OpenCheck(r)
      <4>1. CASE entry = 0
        BY <1>3, <3>2, <4>1, IdleStep
      <4>2. CASE entry # 0
        BY <1>3, <3>2, <4>2, HoldStep
      <4> QED
        BY <4>1, <4>2
    <3>3. CASE Attached(r)
      <4>1. open[r] = "open" \/ open[r] = "failed"
        BY <3>3 DEF Attached, Opens
      <4>2. CASE open[r] = "open"
        BY <1>3, <3>3, <4>2, HoldStep
      <4>3. CASE open[r] = "failed"
        BY <1>3, <3>3, <4>3, IdleStep
      <4> QED
        BY <4>1, <4>2, <4>3
    <3>4. CASE ExitRelayed(r) \/ ReceiverClosed(r) \/ SocketCloses(r) \/ OpenInsert(r)
      BY <1>3, <3>4, HoldStep
    <3> QED
      BY <2>2, <3>1, <3>2, <3>3, <3>4
  <2>3. ASSUME NEW r \in Relay, LeaveAxis(r) \/ DropTerminal(r) \/ OpenSpawn(r)
        PROVE  AxisHosted'
    BY <1>3, <2>3, LeaveStep, SpawnStep
  <2>4. ASSUME NEW r \in Relay, LeaveOrbit(r) \/ HandleClose(r) \/ OpenAnswered(r)
        PROVE  AxisHosted'
    BY <1>3, <2>4 DEF LeaveOrbit, HandleClose, OpenAnswered, TerminalsInv, AxisHosted, Called
  <2>5. ASSUME NEW a \in Attachment, ChildExecs(a) \/ ReaderEnds(a) PROVE AxisHosted'
    BY <1>3, <2>5, ChildStep, ReaderStep
  <2>6. ASSUME ShellExits \/ FanOut PROVE AxisHosted'
    BY <1>3, <2>6, ExitStep, FanOutStep
  <2>7. ~ReadExited /\ ~Reconnect
    BY <1>3 DEF ReadExited, Reconnect
  <2>8. AxisHosted'
    BY <2>1, <2>2, <2>3, <2>4, <2>5, <2>6, <2>7 DEF TerminalsNext
  <2> QED
    BY <1>1, <2>8 DEF TerminalsInv
<1> QED
  BY <1>2, <1>3

(* A terminal is well typed, and one on the Axis host has a relay to let go of
   its entry and somebody to report its end, in every reachable state. *)
THEOREM TerminalsCorrect == TerminalsSpec => []TerminalsInv
BY TerminalsInitType, TerminalsStep, PTL DEF TerminalsSpec

(* No operator is left attached to a shell of the Axis host that is gone: the
   exit is on its way, or a relay that takes the channel with it is. *)
THEOREM ExitsAreTold == TerminalsSpec => []ExitIsTold
<1>1. ASSUME TerminalsInv PROVE ExitIsTold
  <2> SUFFICES ASSUME NEW r \in Relay, site = "axis", relay[r] = "attached", r \in listening,
                      ~ShellLives
               PROVE  reader # {} \/ exits > 0 \/ \E q \in Relay : Leaving(q)
    BY DEF ExitIsTold
  <2>1. Holds(r)
    BY DEF Holds
  <2>2. Reported
    BY <1>1 DEF TerminalsInv, AxisHosted
  <2>3. ~shell
    BY DEF ShellLives
  <2> QED
    BY <2>1, <2>2, <2>3 DEF Reported, Pending
<1> QED
  BY <1>1, TerminalsCorrect, PTL

=============================================================================
