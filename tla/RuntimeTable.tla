----------------------------- MODULE RuntimeTable -----------------------------
(***************************************************************************)
(* The Orbit's table of agent runtimes, for one managed session:           *)
(* ensure_runtime with its per-session start lock, start with its two      *)
(* attempts, stop, and the reaper of idle runtimes, which runs only while  *)
(* a connection lasts.                                                     *)
(*                                                                         *)
(* Every EnsureRuntime makes at most one runtime, so a runtime is named by *)
(* the request that made it, and the processes it spawns by the runtime    *)
(* and the attempt. The messages of a start are AcpClient's.               *)
(***************************************************************************)
EXTENDS Integers, FiniteSets

CONSTANTS
  Ensure,      \* the EnsureRuntime requests
  Stop,        \* the Stop requests
  Reaper,      \* the task that reaps idle runtimes
  NoRuntime,   \* nothing registered, nothing held
  Threshold    \* ticks without activity after which a runtime is idle

ASSUME RuntimeAssumption ==
  /\ NoRuntime \notin Ensure /\ Reaper \notin Stop
  /\ Threshold \in Nat

Attempt == {1, 2}
Proc == Ensure \X Attempt
Closer == Stop \cup {Reaper}

VARIABLES
  registered,  \* the entry of runtimes: a runtime, or NoRuntime
  age,         \* ticks since its last_activity
  mapped,      \* the lock in start_locks, named by who inserted it
  lockOf,      \* [Ensure -> the lock a request holds a reference to]
  ensuring,    \* [Ensure -> where the request is]
  attempt,     \* [Ensure -> the attempt of its start]
  child,       \* [Ensure -> the attempt whose process the runtime holds, or 0]
  alive,       \* the processes that run
  closing,     \* [Closer -> where the stop or the reaper is]
  target,      \* [Closer -> the runtime it has removed]
  busy,        \* runtimes with a prompt their agent has not answered
  abandoned    \* history: runtimes whose reaping was aborted

locking == <<mapped, lockOf>>
closers == <<closing, target>>
runtimeVars == <<registered, age, locking, ensuring, attempt, child, alive, closers,
                 busy, abandoned>>

(***************************************************************************)
(* Helpers                                                                 *)
(***************************************************************************)
(* Every lock a request refers to. *)
Referenced == {lockOf[c] : c \in Ensure} \ {NoRuntime}

(* Fault: the locks that are in use are dropped too. *)
StartLockFresh(c) == c

(* start_lock: locks without a caller are dropped, then one is found or made. *)
StartLock(c) == IF mapped \in Referenced THEN mapped ELSE c

(* The places of a request that holds its start lock. *)
Starting == {"spawn", "handshake", "timedout", "broken", "register"}

Locked(l) == \E d \in Ensure : lockOf[d] = l /\ ensuring[d] \in Starting

(* A request goes on; at its end the guard and the lock are dropped. *)
Goes(c, from, to) == ensuring[c] = from /\ ensuring' = [ensuring EXCEPT ![c] = to]
Releases(c) == lockOf' = [lockOf EXCEPT ![c] = NoRuntime] /\ UNCHANGED mapped

(* The process a runtime holds. *)
ProcessOf(r) == {<<r, n>> : n \in {child[r]} \ {0}}

RuntimeInit ==
  /\ registered = NoRuntime /\ age = 0
  /\ mapped = NoRuntime /\ lockOf = [c \in Ensure |-> NoRuntime]
  /\ ensuring = [c \in Ensure |-> "idle"] /\ attempt = [c \in Ensure |-> 1]
  /\ child = [c \in Ensure |-> 0] /\ alive = {}
  /\ closing = [k \in Closer |-> "idle"] /\ target = [k \in Closer |-> NoRuntime]
  /\ busy = {} /\ abandoned = {}

(***************************************************************************)
(* EnsureRuntime                                                           *)
(***************************************************************************)
(* The fast path returns a registered runtime as it is, alive or not. *)
FastPath(c) ==
  /\ Goes(c, "idle", IF registered # NoRuntime THEN "done" ELSE "lock")
  /\ UNCHANGED <<registered, age, locking, attempt, child, alive, closers, busy, abandoned>>

TakeLock(c) ==
  /\ Goes(c, "lock", "wait")
  /\ mapped' = StartLock(c)
  /\ lockOf' = [lockOf EXCEPT ![c] = StartLock(c)]
  /\ UNCHANGED <<registered, age, attempt, child, alive, closers, busy, abandoned>>

(* Under the lock the table is read again; then the factory makes a runtime,
   or refuses the session's identity. *)
Acquire(c) ==
  /\ ~Locked(lockOf[c])
  /\ \/ registered = NoRuntime /\ Goes(c, "wait", "spawn") /\ UNCHANGED locking
     \/ registered = NoRuntime /\ Goes(c, "wait", "failed") /\ Releases(c)
     \/ registered # NoRuntime /\ Goes(c, "wait", "done") /\ Releases(c)
  /\ UNCHANGED <<registered, age, attempt, child, alive, closers, busy, abandoned>>

(* spawn_client refuses a runtime that still has a child. *)
Spawn(c) ==
  /\ \/ /\ child[c] = 0
        /\ Goes(c, "spawn", "handshake")
        /\ child' = [child EXCEPT ![c] = attempt[c]]
        /\ alive' = alive \cup {<<c, attempt[c]>>}
     \/ Goes(c, "spawn", "broken") /\ UNCHANGED <<child, alive>>
  /\ UNCHANGED <<registered, age, locking, attempt, closers, busy, abandoned>>

(* initialize and session/new or session/resume are answered, or fail, or
   take longer than start_timeout_secs. *)
Handshake(c) ==
  /\ \/ ProcessOf(c) \subseteq alive /\ Goes(c, "handshake", "register")
     \/ Goes(c, "handshake", "broken")
     \/ Goes(c, "handshake", "timedout")
  /\ UNCHANGED <<registered, age, locking, attempt, child, alive, closers, busy, abandoned>>

(* failure_report and cleanup_runtime, which reaps the process; then a second
   attempt after a timeout, or the error. *)
FailStart(c) ==
  /\ \/ attempt[c] = 1 /\ Goes(c, "timedout", "spawn") /\ UNCHANGED locking
     \/ attempt[c] = 2 /\ Goes(c, "timedout", "failed") /\ Releases(c)
     \/ Goes(c, "broken", "failed") /\ Releases(c)
  /\ attempt' = [attempt EXCEPT ![c] = 2]
  /\ child' = [child EXCEPT ![c] = 0]
  /\ alive' = alive \ ProcessOf(c)
  /\ UNCHANGED <<registered, age, closers, busy, abandoned>>

(* The entry is inserted, with its activity now. *)
Register(c) ==
  /\ Goes(c, "register", "done")
  /\ registered' = c /\ age' = 0
  /\ Releases(c)
  /\ UNCHANGED <<attempt, child, alive, closers, busy, abandoned>>

(***************************************************************************)
(* Stop, and the reaper                                                    *)
(***************************************************************************)
Closes(k, from, to) == closing[k] = from /\ closing' = [closing EXCEPT ![k] = to]

(* The reaper's snapshot: idle longer than the threshold. *)
ReapPick ==
  /\ registered # NoRuntime /\ age > Threshold
  /\ Closes(Reaper, "idle", "picked")
  /\ UNCHANGED <<registered, age, locking, ensuring, attempt, child, alive, target,
                 busy, abandoned>>

(* A stop, or the reaper after its snapshot, removes whatever is registered
   now, by the session's id. *)
Unregister(k) ==
  /\ LET from == IF k = Reaper THEN "picked" ELSE "idle"
         over == IF k = Reaper THEN "idle" ELSE "ended" IN
       Closes(k, from, IF registered = NoRuntime THEN over ELSE "removed")
  /\ target' = [target EXCEPT ![k] = registered]
  /\ registered' = NoRuntime
  /\ UNCHANGED <<age, locking, ensuring, attempt, child, alive, busy, abandoned>>

(* Fault: the entry is dropped and the runtime is not stopped. *)
StopRuntimeForgotten(k) ==
  /\ Closes(k, "removed", IF k = Reaper THEN "idle" ELSE "ended")
  /\ target' = [target EXCEPT ![k] = NoRuntime]
  /\ UNCHANGED <<registered, age, locking, ensuring, attempt, child, alive, busy, abandoned>>

(* runtime.stop: cleanup_runtime takes the child and reaps it. *)
StopRuntime(k) ==
  /\ Closes(k, "removed", IF k = Reaper THEN "idle" ELSE "ended")
  /\ target' = [target EXCEPT ![k] = NoRuntime]
  /\ alive' = alive \ ProcessOf(target[k])
  /\ child' = [child EXCEPT ![target[k]] = 0]
  /\ UNCHANGED <<registered, age, locking, ensuring, attempt, busy, abandoned>>

(* The end of the connection aborts the reaper, between its removal of an
   entry and the end of the process too; a new connection starts another. *)
AbortReaper ==
  /\ closing[Reaper] # "idle"
  /\ closing' = [closing EXCEPT ![Reaper] = "idle"]
  /\ abandoned' = abandoned \cup ({target[Reaper]} \ {NoRuntime})
  /\ target' = [target EXCEPT ![Reaper] = NoRuntime]
  /\ UNCHANGED <<registered, age, locking, ensuring, attempt, child, alive, busy>>

(***************************************************************************)
(* Commands, the agents and time                                           *)
(***************************************************************************)
(* send_and_stream gets the runtime and sends to it directly. *)
Prompt ==
  /\ registered # NoRuntime /\ ProcessOf(registered) \cap alive # {}
  /\ busy' = busy \cup {registered}
  /\ UNCHANGED <<registered, age, locking, ensuring, attempt, child, alive, closers, abandoned>>

Answer(r) ==
  /\ r \in busy /\ ProcessOf(r) \cap alive # {}
  /\ busy' = busy \ {r}
  /\ UNCHANGED <<registered, age, locking, ensuring, attempt, child, alive, closers, abandoned>>

(* Fault: the activity is noted whether or not the command could be written. *)
CancelTouching ==
  /\ registered # NoRuntime
  /\ age' = 0
  /\ UNCHANGED <<registered, locking, ensuring, attempt, child, alive, closers, busy, abandoned>>

(* Cancel goes through the table's send, which notes the activity after the
   command was written. *)
Cancel ==
  /\ registered # NoRuntime /\ ProcessOf(registered) \cap alive # {}
  /\ age' = 0
  /\ UNCHANGED <<registered, locking, ensuring, attempt, child, alive, closers, busy, abandoned>>

(* An agent's process ends by itself; nothing tells the table. *)
Dies(p) ==
  /\ p \in alive
  /\ alive' = alive \ {p}
  /\ UNCHANGED <<registered, age, locking, ensuring, attempt, child, closers, busy, abandoned>>

Tick ==
  /\ registered # NoRuntime /\ age <= Threshold
  /\ age' = age + 1
  /\ UNCHANGED <<registered, locking, ensuring, attempt, child, alive, closers, busy, abandoned>>

(***************************************************************************)
(* Specification                                                           *)
(***************************************************************************)
EnsureStep(c) == TakeLock(c) \/ Acquire(c) \/ Spawn(c) \/ Handshake(c) \/ FailStart(c) \/ Register(c)
ReapStep == ReapPick \/ Unregister(Reaper) \/ StopRuntime(Reaper)

RuntimeNext ==
  \/ \E c \in Ensure : FastPath(c) \/ EnsureStep(c) \/ Answer(c)
  \/ \E s \in Stop : Unregister(s) \/ StopRuntime(s)
  \/ ReapStep \/ AbortReaper \/ Prompt \/ Cancel \/ Tick
  \/ \E p \in Proc : Dies(p)

RuntimeSpec == RuntimeInit /\ [][RuntimeNext]_runtimeVars

(* Requests run on, time passes, the reaper wakes up; and some connection
   lasts long enough for a pass of it. *)
RuntimeFairness ==
  /\ \A c \in Ensure : WF_runtimeVars(EnsureStep(c))
  /\ WF_runtimeVars(Tick) /\ WF_runtimeVars(ReapPick) /\ SF_runtimeVars(Unregister(Reaper))
  /\ WF_runtimeVars(StopRuntime(Reaper))

(***************************************************************************)
(* Properties                                                              *)
(***************************************************************************)
RuntimeTypeOK ==
  /\ registered \in Ensure \cup {NoRuntime} /\ age \in 0..(Threshold + 1)
  /\ mapped \in Ensure \cup {NoRuntime} /\ lockOf \in [Ensure -> Ensure \cup {NoRuntime}]
  /\ ensuring \in [Ensure -> {"idle", "lock", "wait", "done", "failed"} \cup Starting]
  /\ attempt \in [Ensure -> Attempt] /\ child \in [Ensure -> Attempt \cup {0}]
  /\ alive \in SUBSET Proc
  /\ closing \in [Closer -> {"idle", "picked", "removed", "ended"}]
  /\ target \in [Closer -> Ensure \cup {NoRuntime}]
  /\ busy \in SUBSET Ensure /\ abandoned \in SUBSET Ensure

(* However many EnsureRuntime requests run at once, at most one of them starts
   a runtime, and none while one is registered. *)
OneStart ==
  \A c \in Ensure : ensuring[c] \in Starting =>
    /\ registered = NoRuntime
    /\ \A d \in Ensure : ensuring[d] \in Starting => d = c

(* A process that runs belongs to the registered runtime, to a start in
   progress, or to a stop in progress; the one way to lose sight of it is a
   connection that ends while the reaper stops it. *)
NoStray ==
  \A p \in alive :
    /\ child[p[1]] = p[2]
    /\ \/ registered = p[1]
       \/ ensuring[p[1]] \in Starting
       \/ \E k \in Closer : target[k] = p[1]
       \/ p[1] \in abandoned

(* A registered runtime whose process is dead, which the fast path would hand
   out for ever, is removed in the end. *)
Dead == registered # NoRuntime /\ ProcessOf(registered) \cap alive = {}
DeadIsReaped == Dead ~> ~Dead
=============================================================================
