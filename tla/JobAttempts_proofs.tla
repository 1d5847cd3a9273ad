-------------------------- MODULE JobAttempts_proofs --------------------------
(***************************************************************************)
(* Theorems about JobAttempts, for every value of its constants.           *)
(*                                                                         *)
(* Whatever fails and restarts, a connection carries one dispatch of a job *)
(* (Dispatches), so an execution has one dispatch task, one waiter and one *)
(* result (Executions), and the frames on their way are rows of the spool  *)
(* (Frames): ResultIsLast and VerdictIsReal follow.  AcceptedIsRetained    *)
(* needs that nothing is pruned, NoOrphan and StartsOnce that a connection *)
(* is lost only with the Orbit.                                            *)
(***************************************************************************)
EXTENDS JobAttempts, SequenceTheorems, FiniteSetTheorems, TLAPS

USE JobsAssumption

-----------------------------------------------------------------------------
(***************************************************************************)
(* The inductive invariant.                                                *)
(***************************************************************************)
IsDispatch(m, j) == m.kind = "dispatch" /\ m.job = j
OnItsWay(j) == \E i \in DOMAIN toOrbit : IsDispatch(toOrbit[i], j)

\* The current connection carries, or carried, a dispatch of j.
Dispatched(j) == conn # 0 /\ (task[j][conn] # "none" \/ OnItsWay(j))

(* Connections are numbered in the order they are opened, and nothing is on
   its way without one. *)
Connections ==
  /\ conn \in {0, opened}
  /\ conn = 0 => toOrbit = <<>> /\ toAxis = <<>>
  /\ ~up => conn = 0
  /\ hello.conn <= opened
  /\ hello.phase = "idle" <=> hello.conn = 0
  /\ \A j \in Job : route[j].conn <= opened
  /\ \A j \in Job, c \in Conn : task[j][c] # "none" => c <= opened /\ up

(* A connection begins with its Hello, and routes use it after that. *)
Hellos ==
  /\ \A i \in DOMAIN toAxis : toAxis[i].kind = "hello" => i = 1 /\ hello.conn # conn
  /\ \A j \in Job :
       /\ route[j].pc # "none" => route[j].conn # 0 /\ record[j].status # "none"
       /\ (route[j].conn = conn /\ conn # 0) => hello.conn = conn
       /\ route[j].pc = "lost" => route[j].conn # conn
       /\ (hello.phase = "published" /\ route[j].conn = conn /\ conn # 0) =>
            record[j].status = "running" /\ route[j].pc \in {"created", "await"}
       /\ (hello.phase = "reconcile" /\ hello.conn = conn /\ j \in hello.pending) =>
            route[j].conn # conn /\ record[j].status # "none"

(* A connection carries one dispatch of a job. *)
Dispatches ==
  \A j \in Job :
    /\ Dispatched(j) =>
         /\ hello.conn = conn /\ record[j].status # "none"
         /\ ~(route[j].pc = "created" /\ route[j].conn = conn)
         /\ hello.phase = "published" => route[j].conn = conn
         /\ hello.phase = "reconcile" => j \notin hello.pending
    /\ OnItsWay(j) => task[j][conn] = "none"
    /\ \A i, k \in DOMAIN toOrbit :
         IsDispatch(toOrbit[i], j) /\ IsDispatch(toOrbit[k], j) => i = k

RowOf(j, c)    == \E i \in DOMAIN spool[j] : spool[j][i].of = c
ResultOf(j, c) == \E i \in DOMAIN spool[j] : spool[j][i].of = c /\ spool[j][i].kind = "result"

\* The program of the execution has not been let go, and may still be.
Unlaunched(j, c) ==
  \/ task[j][c] \in {"check", "record", "spawn", "persist", "launch"}
  \/ task[j][c] = "none" /\ (c > opened \/ c = conn)

(* What an execution has behind it at each point of its life. *)
Life(j, c) ==
  /\ Unlaunched(j, c) => waiter[j][c] = "off" /\ said[j][c] = 0 /\ heard[j][c] = 0
                         /\ ~RowOf(j, c) /\ prog[j][c] \in {"none", "gated"}
  /\ prog[j][c] = "gated" <=> task[j][c] \in {"persist", "launch"}
  /\ waiter[j][c] # "off" => up
  /\ waiter[j][c] = "watching" => prog[j][c] \in {"running"} \cup Verdict /\ ~ResultOf(j, c)
  /\ waiter[j][c] \in {"spooled", "unspooled", "done"} =>
       prog[j][c] \in Verdict /\ heard[j][c] = said[j][c]
  /\ waiter[j][c] = "spooled" => ResultOf(j, c)
  /\ ResultOf(j, c) => prog[j][c] \in Ended /\ heard[j][c] = said[j][c]
  /\ heard[j][c] <= said[j][c]

\* The jobs map holds a program that was let go.
Held(j) == jobs[j] # 0 => prog[j][jobs[j]] \in {"running"} \cup Verdict /\ up

Executions == \A j \in Job : Held(j) /\ \A c \in Conn : Life(j, c)

(* The frames on their way to Axis are rows of the spool, and Axis has
   stored none that is not. *)
IsRow(f, rows) ==
  f.kind = "job" => f.seq + 1 \in DOMAIN rows[f.job] /\ f.body = rows[f.job][f.seq + 1]

Frames ==
  /\ \A i \in DOMAIN toAxis : IsRow(toAxis[i], spool)
  /\ \A j \in Job : watermark[j] >= -1 /\ watermark[j] + 1 <= Len(spool[j])
                    /\ sent[j] <= Len(spool[j])

(* A recorded verdict is the one of a stored row. *)
VerdictStored ==
  \A j \in Job : record[j].status = "completed" =>
    \/ record[j].reason = "refused"
    \/ \E i \in 1..(watermark[j] + 1) :
         spool[j][i].kind = "result" /\ spool[j][i].verdict = record[j].reason

(* What the answer to a dispatch says of the ledger. *)
Answers ==
  /\ \A j \in Job, c \in Conn :
       task[j][c] \in {"spawn", "persist", "launch", "respond"} => Retained(j)
  /\ \A i \in DOMAIN toAxis : (toAxis[i].kind = "resp" /\ toAxis[i].ok) => Retained(toAxis[i].job)
  /\ AcceptedIsRetained

(* Where a connection is lost only with the Orbit, the only tasks are those of
   the current one, and the ledger names every program that runs. *)
Alone(j, c) ==
  /\ task[j][c] # "none" => c = conn
  /\ waiter[j][c] # "off" => task[j][c] \in {"respond", "done"}
  /\ task[j][c] = "launch" => ledger[j].state = "Running" /\ ledger[j].pgid = c
  /\ prog[j][c] = "running" => /\ ledger[j].state = "Running" /\ ledger[j].pgid = c
                               /\ up => jobs[j] = c /\ waiter[j][c] = "watching"
Sole == \A j \in Job, c \in Conn : Alone(j, c)

(* ... and the ledger keeps a job that was started from being started again. *)
Starting == {"record", "spawn", "persist", "launch"}
OnceOf(j) ==
  /\ \A c \in Started(j) : Retained(j) /\ \A d \in Started(j) : c = d
  /\ \A c \in Conn : /\ task[j][c] = "record" => ~Retained(j)
                     /\ task[j][c] \in Starting => Started(j) = {}
Once == \A j \in Job : OnceOf(j)

JobsInv ==
  TypeOK /\ Connections /\ Hellos /\ Dispatches /\ Executions /\ ResultIsLast
  /\ Frames /\ VerdictStored
-----------------------------------------------------------------------------
(***************************************************************************)
(* Types.                                                                  *)
(***************************************************************************)
(* SetToSeq lists a finite set without repetition. *)
LEMMA SetToSeqLists ==
  ASSUME NEW S, IsFiniteSet(S)
  PROVE  /\ Cardinality(S) \in Nat
         /\ SetToSeq(S) \in [1..Cardinality(S) -> S]
         /\ \A i, k \in 1..Cardinality(S) : SetToSeq(S)[i] = SetToSeq(S)[k] => i = k
<1>1. Cardinality(S) \in Nat
  BY FS_CardinalityType
<1>2. ExistsBijection(1..Cardinality(S), S)
  BY FS_CardinalityType
<1>3. PICK f \in [1..Cardinality(S) -> S] : IsInjective(f)
  BY <1>2 DEF ExistsBijection, Bijection, Injection, IsInjective
<1> QED
  BY <1>1, <1>3 DEF SetToSeq, IsInjective

LEMMA InitType == Init => TypeOK
<1> SUFFICES ASSUME Init PROVE TypeOK
  OBVIOUS
<1>1. <<>> \in Seq(DownMsg) /\ <<>> \in Seq(UpMsg) /\ <<>> \in Seq(Body)
  BY EmptySeq
<1>2. NoRecord \in JobRecord /\ NoAttempt \in Attempt
  BY DEF NoRecord, NoAttempt, JobRecord, Attempt, Status, Reason, Verdict
<1>3. Idle \in HelloTask
  BY DEF Idle, HelloTask
<1>4. route \in [Job -> Route]
  BY DEF Init, Route, RoutePc
<1> QED
  BY <1>1, <1>2, <1>3, <1>4 DEF Init, TypeOK, PerExecution, TaskPc, WaiterPc, Conn

(* The ledger keeps its type, whatever is pruned. *)
LEMMA PruneType ==
  ASSUME NEW l \in [Job -> Attempt], Prune(l)
  PROVE  ledger' \in [Job -> Attempt]
<1>1. NoAttempt \in Attempt
  BY DEF NoAttempt, Attempt, Reason, Verdict
<1> QED
  BY <1>1 DEF Prune

LEMMA UpdateType ==
  ASSUME TypeOK, NEW j \in Job, NEW a \in Attempt, Update(j, a)
  PROVE  ledger' \in [Job -> Attempt]
BY PruneType DEF Update, TypeOK

(* An execution that the jobs map holds has ended, or is killed. *)
LEMMA KilledType ==
  ASSUME TypeOK, NEW j \in Job, NEW v \in Verdict, prog' = Killed(j, jobs[j], v)
  PROVE  prog' \in [Job -> [Conn -> {"none", "gated", "running"} \cup Ended]]
<1>1. jobs[j] # 0 => jobs[j] \in Conn
  BY DEF TypeOK, Conn
<1> QED
  BY <1>1 DEF TypeOK, Killed, Ended

LEMMA MarkType ==
  ASSUME TypeOK, NEW j \in Job, NEW reason \in Reason, MarkIndeterminate(j, reason)
  PROVE  /\ ledger' \in [Job -> Attempt]
         /\ prog' \in [Job -> [Conn -> {"none", "gated", "running"} \cup Ended]]
<1>1. Entry("StepIndeterminate", reason, jobs[j], -1) \in Attempt
  BY DEF Entry, Attempt, TypeOK
<1>2. ledger' \in [Job -> Attempt]
  BY <1>1, UpdateType DEF MarkIndeterminate
<1> QED
  BY <1>2, KilledType DEF MarkIndeterminate, Verdict

(* The dispatch task, which moves one execution. *)
LEMMA TaskType ==
  ASSUME TypeOK, NEW j \in Job, NEW c \in Conn, NEW p \in TaskPc, Goto(j, c, p)
  PROVE  task' \in [Job -> [Conn -> TaskPc]]
BY DEF TypeOK, Goto

LEMMA SpoolerType ==
  ASSUME TypeOK, NEW j \in Job, NEW c \in Conn, StopSpooler(j, c)
  PROVE  spooler' \in [Job -> [Conn -> BOOLEAN]]
BY DEF TypeOK, StopSpooler

LEMMA EmitsType ==
  ASSUME TypeOK, NEW c \in Conn, NEW f \in UpMsg, Emits(c, <<f>>)
  PROVE  toAxis' \in Seq(UpMsg)
<1>1. toAxis \in Seq(UpMsg)
  BY DEF TypeOK
<1>2. <<f>> \in Seq(UpMsg)
  OBVIOUS
<1>3. toAxis \o <<f>> \in Seq(UpMsg)
  BY <1>1, <1>2, ConcatProperties
<1> QED
  BY <1>1, <1>3 DEF Emits

(* A failed operation is counted. *)
LEMMA FailsType == ASSUME TypeOK, IoFails PROVE faults' \in Nat
BY DEF TypeOK, IoFails

LEMMA CheckType ==
  ASSUME TypeOK, NEW j \in Job, NEW c \in Conn, Check(j, c)
  PROVE  TypeOK'
<1>1. task' \in [Job -> [Conn -> TaskPc]]
  BY TaskType DEF Check, TaskPc
<1>2. spooler' \in [Job -> [Conn -> BOOLEAN]]
  BY SpoolerType DEF Check, TypeOK
<1>3. faults' \in Nat
  BY FailsType DEF Check, TypeOK
<1> QED
  BY <1>1, <1>2, <1>3 DEF Check, TypeOK, axisVars, connVars, progVars

LEMMA RecordType ==
  ASSUME TypeOK, NEW j \in Job, NEW c \in Conn, Record(j, c)
  PROVE  TypeOK'
<1>1. task' \in [Job -> [Conn -> TaskPc]]
  BY TaskType DEF Record, TaskPc
<1>2. Entry("Running", "none", 0, -1) \in Attempt
  BY DEF Entry, Attempt, Reason
<1>3. ledger' \in [Job -> Attempt]
  BY <1>2, UpdateType DEF Record
<1> QED
  BY <1>1, <1>3 DEF Record, TypeOK, axisVars, connVars, progVars

LEMMA SpawnType ==
  ASSUME TypeOK, NEW j \in Job, NEW c \in Conn, Spawn(j, c)
  PROVE  TypeOK'
<1>1. task' \in [Job -> [Conn -> TaskPc]]
  BY TaskType DEF Spawn, TaskPc
<1>2. spooler' \in [Job -> [Conn -> BOOLEAN]]
  BY SpoolerType DEF Spawn, TypeOK
<1>3. faults' \in Nat
  BY FailsType DEF Spawn, TypeOK
<1>4. /\ ledger' \in [Job -> Attempt]
      /\ prog' \in [Job -> [Conn -> {"none", "gated", "running"} \cup Ended]]
  <2>1. CASE prog' = [prog EXCEPT ![j][c] = "gated"] /\ UNCHANGED ledger
    BY <2>1 DEF TypeOK
  <2>2. CASE MarkIndeterminate(j, "spawn_failed")
    BY <2>2, MarkType DEF Reason
  <2> QED
    BY <2>1, <2>2 DEF Spawn
<1> QED
  BY <1>1, <1>2, <1>3, <1>4 DEF Spawn, TypeOK, axisVars, connVars

LEMMA PersistType ==
  ASSUME TypeOK, NEW j \in Job, NEW c \in Conn, Persist(j, c)
  PROVE  TypeOK'
<1>1. task' \in [Job -> [Conn -> TaskPc]]
  BY TaskType DEF Persist, TaskPc
<1>2. Entry("Running", "none", c, -1) \in Attempt
  BY DEF Entry, Attempt, Reason, Conn
<1>3. ledger' \in [Job -> Attempt]
  BY <1>2, UpdateType DEF Persist
<1> QED
  BY <1>1, <1>3 DEF Persist, TypeOK, axisVars, connVars, progVars

LEMMA LaunchType ==
  ASSUME TypeOK, NEW j \in Job, NEW c \in Conn, Launch(j, c)
  PROVE  TypeOK'
<1>1. task' \in [Job -> [Conn -> TaskPc]]
  BY TaskType DEF Launch, TaskPc
<1>2. spooler' \in [Job -> [Conn -> BOOLEAN]]
  BY SpoolerType DEF Launch, TypeOK
<1>3. faults' \in Nat
  BY FailsType DEF Launch, TypeOK
<1>4. prog' \in [Job -> [Conn -> {"none", "gated", "running"} \cup Ended]]
  <2>1. CASE prog' = [prog EXCEPT ![j][c] = "running"]
    BY <2>1 DEF TypeOK
  <2>2. CASE prog' = [prog EXCEPT ![j][c] = "none"]
    BY <2>2 DEF TypeOK
  <2> QED
    BY <2>1, <2>2 DEF Launch
<1>5. waiter' \in [Job -> [Conn -> WaiterPc]]
  <2>1. CASE waiter' = [waiter EXCEPT ![j][c] = "watching"]
    BY <2>1 DEF TypeOK, WaiterPc
  <2>2. CASE waiter' = waiter
    BY <2>2 DEF TypeOK, WaiterPc
  <2> QED
    BY <2>1, <2>2 DEF Launch
<1>6. jobs' \in [Job -> 0..MaxConn]
  <2>1. CASE jobs' = [jobs EXCEPT ![j] = c]
    BY <2>1 DEF TypeOK, Conn
  <2>2. CASE jobs' = jobs
    BY <2>2 DEF TypeOK, Conn
  <2> QED
    BY <2>1, <2>2 DEF Launch
<1> QED
  BY <1>1, <1>2, <1>3, <1>4, <1>5, <1>6 DEF Launch, TypeOK, axisVars, connVars

LEMMA RespondType ==
  ASSUME TypeOK, NEW j \in Job, NEW c \in Conn, Respond(j, c)
  PROVE  TypeOK'
<1>1. task' \in [Job -> [Conn -> TaskPc]]
  BY TaskType DEF Respond, TaskPc
<1>2. [kind |-> "resp", job |-> j, ok |-> task[j][c] = "respond"] \in UpMsg
  BY DEF UpMsg, RespFrame
<1>3. toAxis' \in Seq(UpMsg)
  BY <1>2, EmitsType DEF Respond
<1> QED
  BY <1>1, <1>3 DEF Respond, TypeOK, axisVars, progVars

LEMMA ProgramType ==
  ASSUME TypeOK, NEW j \in Job, NEW c \in Conn, Write(j, c) \/ Exit(j, c)
  PROVE  TypeOK'
<1>1. CASE Write(j, c)
  <2>1. said' \in [Job -> [Conn -> Nat]]
    BY <1>1 DEF Write, TypeOK
  <2> QED
    BY <1>1, <2>1 DEF Write, TypeOK, axisVars, connVars, orbitVars
<1>2. CASE Exit(j, c)
  <2>1. prog' \in [Job -> [Conn -> {"none", "gated", "running"} \cup Ended]]
    BY <1>2 DEF Exit, TypeOK, Ended, Verdict
  <2> QED
    BY <1>2, <2>1 DEF Exit, TypeOK, axisVars, connVars, orbitVars
<1> QED
  BY <1>1, <1>2

(* A row of the spool, as it is sent. *)
LEMMA FrameType ==
  ASSUME TypeOK, NEW j \in Job, NEW q \in Nat, q < Len(spool[j])
  PROVE  FrameAt(j, q) \in UpMsg
<1>1. spool[j][q + 1] \in Body
  BY ElementOfSeq DEF TypeOK
<1> QED
  BY <1>1 DEF FrameAt, UpMsg, JobFrame

LEMMA SpoolRowType ==
  ASSUME TypeOK, NEW j \in Job, NEW c \in Conn, NEW b \in Body, SpoolRow(j, c, b)
  PROVE  /\ spool' \in [Job -> Seq(Body)]
         /\ toAxis' \in Seq(UpMsg)
         /\ spooler' \in [Job -> [Conn -> BOOLEAN]]
<1>1. spool[j] \in Seq(Body)
  BY DEF TypeOK
<1>2. Append(spool[j], b) \in Seq(Body) /\ Len(spool[j]) \in Nat
  BY <1>1, AppendProperties, LenProperties
<1>3. spool' \in [Job -> Seq(Body)]
  BY <1>2 DEF SpoolRow, TypeOK
<1>4. [kind |-> "job", job |-> j, seq |-> Len(spool[j]), body |-> b] \in UpMsg
  BY <1>2 DEF UpMsg, JobFrame
<1>5. toAxis' \in Seq(UpMsg)
  BY <1>4, EmitsType DEF SpoolRow
<1>6. spooler' \in [Job -> [Conn -> BOOLEAN]]
  BY SpoolerType DEF SpoolRow, TypeOK
<1> QED
  BY <1>3, <1>5, <1>6

LEMMA SpoolFailsType ==
  ASSUME TypeOK, NEW j \in Job, NEW c \in Conn, SpoolFails(j, c)
  PROVE  /\ ledger' \in [Job -> Attempt]
         /\ prog' \in [Job -> [Conn -> {"none", "gated", "running"} \cup Ended]]
         /\ spooler' \in [Job -> [Conn -> BOOLEAN]]
         /\ faults' \in Nat /\ UNCHANGED <<spool, toAxis>>
<1>1. "spool_loss" \in Reason
  BY DEF Reason
<1> QED
  BY <1>1, MarkType, SpoolerType, FailsType DEF SpoolFails

LEMMA HearType ==
  ASSUME TypeOK, NEW j \in Job, NEW c \in Conn, Hear(j, c)
  PROVE  TypeOK'
<1>1. [kind |-> "output", of |-> c] \in Body
  BY DEF Body
<1>2. heard' \in [Job -> [Conn -> Nat]]
  <2>1. CASE heard' = [heard EXCEPT ![j][c] = @ + 1]
    BY <2>1 DEF TypeOK
  <2>2. CASE heard' = [heard EXCEPT ![j][c] = said[j][c]]
    BY <2>2 DEF TypeOK
  <2> QED
    BY <2>1, <2>2 DEF Hear
<1>3. /\ spool' \in [Job -> Seq(Body)] /\ toAxis' \in Seq(UpMsg)
      /\ spooler' \in [Job -> [Conn -> BOOLEAN]]
      /\ ledger' \in [Job -> Attempt]
      /\ prog' \in [Job -> [Conn -> {"none", "gated", "running"} \cup Ended]]
      /\ faults' \in Nat
  <2>1. CASE SpoolRow(j, c, [kind |-> "output", of |-> c]) /\ UNCHANGED <<ledger, prog, faults>>
    BY <1>1, <2>1, SpoolRowType DEF TypeOK
  <2>2. CASE SpoolFails(j, c)
    BY <2>2, SpoolFailsType DEF TypeOK
  <2>3. CASE UNCHANGED <<spool, toAxis, spooler, ledger, prog, faults>>
    BY <2>3 DEF TypeOK
  <2> QED
    BY <2>1, <2>2, <2>3 DEF Hear
<1> QED
  BY <1>2, <1>3 DEF Hear, TypeOK, axisVars

LEMMA ConcludeType ==
  ASSUME TypeOK, Executions, NEW j \in Job, NEW c \in Conn, Conclude(j, c)
  PROVE  TypeOK'
<1>1. prog[j][c] \in Verdict
  BY DEF Conclude, Executions, Life, Ended, Verdict
<1>2. [kind |-> "result", of |-> c, verdict |-> prog[j][c]] \in Body
  BY <1>1 DEF Body
<1>3. waiter' \in [Job -> [Conn -> WaiterPc]]
  <2>1. CASE waiter' = [waiter EXCEPT ![j][c] = "spooled"]
    BY <2>1 DEF TypeOK, WaiterPc
  <2>2. CASE waiter' = [waiter EXCEPT ![j][c] = "unspooled"]
    BY <2>2 DEF TypeOK, WaiterPc
  <2> QED
    BY <2>1, <2>2 DEF Conclude, HandResult
<1>4. /\ spool' \in [Job -> Seq(Body)] /\ toAxis' \in Seq(UpMsg)
      /\ spooler' \in [Job -> [Conn -> BOOLEAN]]
      /\ ledger' \in [Job -> Attempt]
      /\ prog' \in [Job -> [Conn -> {"none", "gated", "running"} \cup Ended]]
      /\ faults' \in Nat
  <2>1. CASE /\ SpoolRow(j, c, [kind |-> "result", of |-> c, verdict |-> prog[j][c]])
             /\ UNCHANGED <<ledger, prog, faults>>
    BY <1>2, <2>1, SpoolRowType DEF TypeOK
  <2>2. CASE SpoolFails(j, c)
    BY <2>2, SpoolFailsType DEF TypeOK
  <2>3. CASE UNCHANGED <<spool, toAxis, spooler, ledger, prog, faults>>
    BY <2>3 DEF TypeOK
  <2> QED
    BY <2>1, <2>2, <2>3 DEF Conclude, HandResult
<1>5. jobs' \in [Job -> 0..MaxConn]
  BY DEF Conclude, HandResult, TypeOK
<1> QED
  BY <1>3, <1>4, <1>5 DEF Conclude, HandResult, TypeOK, axisVars

LEMMA CloseType ==
  ASSUME TypeOK, Executions, NEW j \in Job, NEW c \in Conn, CloseAttempt(j, c)
  PROVE  TypeOK'
<1>1. /\ ledger' \in [Job -> Attempt]
      /\ prog' \in [Job -> [Conn -> {"none", "gated", "running"} \cup Ended]]
  <2>1. CASE waiter[j][c] = "unspooled" /\ MarkIndeterminate(j, "spool_loss")
    <3>1. "spool_loss" \in Reason
      BY DEF Reason
    <3> QED
      BY <2>1, <3>1, MarkType
  <2>2. CASE /\ waiter[j][c] = "spooled" /\ UNCHANGED prog
             /\ CompleteAttempt(j, spool[j][ResultSeq(j, c) + 1].verdict, ResultSeq(j, c))
    <3> DEFINE q == ResultSeq(j, c)
    <3>1. PICK i \in DOMAIN spool[j] : spool[j][i].of = c /\ spool[j][i].kind = "result"
      BY <2>2 DEF Executions, Life, ResultOf
    <3>2. q + 1 \in DOMAIN spool[j] /\ spool[j][q + 1].kind = "result" /\ q \in Int
      <4>1. spool[j] \in Seq(Body)
        BY DEF TypeOK
      <4>2. DOMAIN spool[j] \subseteq Int
        BY <4>1, LenProperties
      <4> DEFINE e == CHOOSE n \in DOMAIN spool[j] :
                        spool[j][n].kind = "result" /\ spool[j][n].of = c
      <4>3. e \in DOMAIN spool[j] /\ spool[j][e].kind = "result"
        BY <3>1
      <4>4. e \in Int /\ q = e - 1
        BY <4>2, <4>3 DEF ResultSeq
      <4> HIDE DEF e, q
      <4>5. q + 1 = e /\ q \in Int
        BY <4>4
      <4> QED
        BY <4>3, <4>5
    <3> HIDE DEF q
    <3>3. spool[j][q + 1] \in Body
      BY <3>2 DEF TypeOK
    <3>4. spool[j][q + 1].verdict \in Reason
      BY <3>2, <3>3 DEF Body, Reason
    <3>5. Entry("Completed", spool[j][q + 1].verdict, 0, q) \in Attempt
      BY <3>2, <3>4 DEF Entry, Attempt
    <3>6. CompleteAttempt(j, spool[j][q + 1].verdict, q)
      BY <2>2 DEF q
    <3>7. CASE UNCHANGED ledger
      BY <2>2, <3>7 DEF TypeOK
    <3>8. CASE Update(j, Entry("Completed", spool[j][q + 1].verdict, 0, q))
      BY <2>2, <3>5, <3>8, UpdateType DEF TypeOK
    <3> QED
      BY <3>6, <3>7, <3>8 DEF CompleteAttempt
  <2> QED
    BY <2>1, <2>2 DEF CloseAttempt
<1>2. waiter' \in [Job -> [Conn -> WaiterPc]]
  BY DEF CloseAttempt, TypeOK, WaiterPc
<1>3. spooler' \in [Job -> [Conn -> BOOLEAN]]
  BY SpoolerType DEF CloseAttempt
<1> QED
  BY <1>1, <1>2, <1>3 DEF CloseAttempt, TypeOK, axisVars, connVars

(* A replay sends rows of the spool. *)
LEMMA RowsType ==
  ASSUME TypeOK, NEW j \in Job, NEW n \in Nat, NEW from \in Nat, from + n <= Len(spool[j])
  PROVE  [i \in 1..n |-> FrameAt(j, from + i - 1)] \in Seq(UpMsg)
<1>1. Len(spool[j]) \in Nat
  BY LenProperties DEF TypeOK
<1>2. ASSUME NEW i \in 1..n
      PROVE  FrameAt(j, from + i - 1) \in UpMsg
  <2>1. from + i - 1 \in Nat /\ from + i - 1 < Len(spool[j])
    BY <1>1
  <2> QED
    BY <2>1, FrameType
<1> QED
  BY <1>2, IsASeq

LEMMA ReplayType ==
  ASSUME TypeOK, NEW j \in Job, Replay(j)
  PROVE  TypeOK'
<1>1. Len(spool[j]) \in Nat /\ sent[j] \in Nat /\ toAxis \in Seq(UpMsg)
  BY LenProperties DEF TypeOK
<1>2. Len(spool[j]) - sent[j] \in Nat /\ sent[j] + (Len(spool[j]) - sent[j]) <= Len(spool[j])
  BY <1>1 DEF Replay
<1>3. [i \in 1..(Len(spool[j]) - sent[j]) |-> FrameAt(j, sent[j] + i - 1)] \in Seq(UpMsg)
  BY <1>1, <1>2, RowsType
<1>4. toAxis' \in Seq(UpMsg)
  BY <1>1, <1>3, ConcatProperties DEF Replay
<1>5. sent' \in [Job -> Nat]
  BY <1>1 DEF Replay, TypeOK
<1> QED
  BY <1>4, <1>5 DEF Replay, TypeOK, axisVars, progVars

(* Axis reads the first frame. *)
LEMMA ReadUpFacts ==
  ASSUME TypeOK, NEW kind, ReadUp(kind)
  PROVE  /\ toAxis' \in Seq(UpMsg) /\ 1 \in DOMAIN toAxis
         /\ Head(toAxis) = toAxis[1] /\ Head(toAxis) \in UpMsg /\ Head(toAxis).kind = kind
         /\ \A i \in DOMAIN toAxis' : i + 1 \in DOMAIN toAxis /\ toAxis'[i] = toAxis[i + 1]
<1>1. toAxis \in Seq(UpMsg) /\ toAxis # <<>> /\ toAxis' = Tail(toAxis)
  BY DEF TypeOK, ReadUp
<1>2. /\ Tail(toAxis) \in Seq(UpMsg) /\ Len(Tail(toAxis)) = Len(toAxis) - 1
      /\ Head(toAxis) \in UpMsg
      /\ \A i \in 1..Len(Tail(toAxis)) : Tail(toAxis)[i] = toAxis[i + 1]
  BY <1>1, HeadTailProperties
<1>3. Len(toAxis) \in Nat \ {0} /\ DOMAIN toAxis = 1..Len(toAxis)
  BY <1>1, EmptySeq, LenProperties
<1>4. DOMAIN toAxis' = 1..(Len(toAxis) - 1)
  BY <1>1, <1>2, <1>3, LenProperties
<1>5. Head(toAxis) = toAxis[1]
  BY <1>1
<1> QED
  BY <1>1, <1>2, <1>3, <1>4, <1>5 DEF ReadUp

LEMMA RouteType ==
  ASSUME TypeOK, NEW j \in Job, NEW pc \in RoutePc, NEW c \in 0..MaxConn,
         route' = [route EXCEPT ![j] = [pc |-> pc, conn |-> c]]
  PROVE  route' \in [Job -> Route]
BY DEF TypeOK, Route

(* A route that goes on stays with its connection. *)
LEMMA MovedType ==
  ASSUME TypeOK, NEW j \in Job, NEW pc \in RoutePc
  PROVE  /\ Moved(route[j], pc) \in Route
         /\ Moved(route[j], pc).pc = pc /\ Moved(route[j], pc).conn = route[j].conn
<1>1. route[j] \in Route
  BY DEF TypeOK
<1> QED
  BY <1>1 DEF Moved, Route

LEMMA RecordedType ==
  ASSUME TypeOK, NEW j \in Job, NEW s \in Status, NEW r \in Reason, Reconciled(j, s, r)
  PROVE  record' \in [Job -> JobRecord]
BY DEF TypeOK, Reconciled, JobRecord

LEMMA DroppedType ==
  ASSUME TypeOK, DropRequests
  PROVE  route' \in [Job -> Route]
<1>1. \A j \in Job : Dropped(route[j]) \in Route
  BY MovedType DEF TypeOK, Dropped, RoutePc
<1> QED
  BY <1>1 DEF DropRequests

LEMMA LostType ==
  ASSUME TypeOK, LoseConnection
  PROVE  conn' \in 0..MaxConn /\ opened' \in 0..MaxConn
         /\ toOrbit' \in Seq(DownMsg) /\ toAxis' \in Seq(UpMsg)
<1>1. <<>> \in Seq(DownMsg) /\ <<>> \in Seq(UpMsg)
  BY EmptySeq
<1> QED
  BY <1>1 DEF LoseConnection, TypeOK

(* One more message for the Orbit. *)
LEMMA DownType ==
  ASSUME TypeOK, NEW m \in DownMsg, toOrbit' = Append(toOrbit, m)
  PROVE  toOrbit' \in Seq(DownMsg)
<1>1. toOrbit \in Seq(DownMsg)
  BY DEF TypeOK
<1> QED
  BY <1>1, AppendProperties

LEMMA RouteStepType ==
  ASSUME TypeOK, NEW j \in Job,
         \/ RouteCreate(j) \/ RouteSend(j) \/ RouteFinish(j) \/ CancelRequest(j)
  PROVE  TypeOK'
<1>1. CASE RouteCreate(j)
  <2>1. hello.conn \in 0..MaxConn
    BY DEF TypeOK, HelloTask, Conn
  <2>2. route' \in [Job -> Route]
    BY <1>1, <2>1, RouteType DEF RouteCreate, RoutePc
  <2>3. record' \in [Job -> JobRecord]
    BY <1>1, RecordedType DEF RouteCreate, Status, Reason
  <2> QED
    BY <1>1, <2>2, <2>3 DEF RouteCreate, TypeOK, connVars, orbitVars, progVars
<1>2. CASE RouteSend(j)
  <2>1. [kind |-> "dispatch", job |-> j] \in DownMsg
    BY DEF DownMsg
  <2>2. toOrbit' \in Seq(DownMsg)
    BY <1>2, <2>1, DownType DEF RouteSend, TypeOK
  <2>3. Moved(route[j], "await") \in Route /\ Moved(route[j], "lost") \in Route
    BY MovedType DEF RoutePc
  <2>4. CASE route' = [route EXCEPT ![j] = Moved(@, "await")]
    <3>1. route' \in [Job -> Route]
      BY <2>3, <2>4 DEF TypeOK
    <3> QED
      BY <1>2, <2>2, <3>1 DEF RouteSend, TypeOK, orbitVars, progVars
  <2>5. CASE route' = [route EXCEPT ![j] = Moved(@, "lost")]
    <3>1. route' \in [Job -> Route]
      BY <2>3, <2>5 DEF TypeOK
    <3> QED
      BY <1>2, <2>2, <3>1 DEF RouteSend, TypeOK, orbitVars, progVars
  <2> QED
    BY <1>2, <2>4, <2>5 DEF RouteSend
<1>3. CASE RouteFinish(j)
  <2>1. Moved(route[j], "answered") \in Route
    BY MovedType DEF RoutePc
  <2>2. route' \in [Job -> Route]
    BY <1>3, <2>1 DEF RouteFinish, TypeOK
  <2>3. record' \in [Job -> JobRecord]
    BY <1>3, RecordedType DEF RouteFinish, Status, Reason
  <2> QED
    BY <1>3, <2>2, <2>3 DEF RouteFinish, TypeOK, connVars, orbitVars, progVars
<1>4. CASE CancelRequest(j)
  <2>1. [kind |-> "cancel", job |-> j] \in DownMsg
    BY DEF DownMsg
  <2>2. toOrbit' \in Seq(DownMsg)
    BY <1>4, <2>1, DownType DEF CancelRequest
  <2> QED
    BY <1>4, <2>2 DEF CancelRequest, TypeOK, axisVars, orbitVars, progVars
<1> QED
  BY <1>1, <1>2, <1>3, <1>4

(* The Hello's handler. *)
LEMMA HelloPublishType == ASSUME TypeOK, Connections, HelloPublish PROVE TypeOK'
<1>1. toAxis' \in Seq(UpMsg) /\ Head(toAxis) \in UpMsg /\ Head(toAxis).kind = "hello"
  BY ReadUpFacts DEF HelloPublish
<1>2. Head(toAxis) \in HelloMsg
  BY <1>1 DEF UpMsg, JobFrame, RespFrame, HelloMsg
<1>3. Head(toAxis).attempts \in SUBSET Report /\ Head(toAxis).runtimes \in SUBSET Job
  BY <1>2 DEF HelloMsg
<1>4. conn \in Conn
  <2>1. toAxis # <<>> /\ conn \in 0..MaxConn
    BY DEF TypeOK, HelloPublish, ReadUp
  <2> QED
    BY <2>1 DEF Connections, Conn
<1>5. hello' \in HelloTask
  BY <1>3, <1>4 DEF HelloPublish, HelloTask
<1> QED
  BY <1>1, <1>5 DEF HelloPublish, TypeOK, orbitVars, progVars

LEMMA HelloPickType == ASSUME TypeOK, HelloPick PROVE TypeOK'
<1>1. hello \in [phase : {"published"}, conn : Conn, attempts : SUBSET Report, runtimes : SUBSET Job]
  BY DEF TypeOK, HelloTask, HelloPick
<1>2. hello' \in HelloTask
  BY <1>1 DEF HelloPick, HelloTask
<1> QED
  BY <1>2 DEF HelloPick, TypeOK, connVars, orbitVars, progVars

(* What a handler that reconciles knows. *)
Reconciling ==
  hello \in [phase : {"reconcile"}, conn : Conn, attempts : SUBSET Report,
             runtimes : SUBSET Job, pending : SUBSET Job, todo : SUBSET Job]

LEMMA ReconcilingType == ASSUME TypeOK, hello.phase = "reconcile" PROVE Reconciling
BY DEF TypeOK, HelloTask, Reconciling

LEMMA ReconcileType == ASSUME TypeOK, NEW j \in Job, Reconcile(j) PROVE TypeOK'
<1>1. Reconciling
  BY ReconcilingType DEF Reconcile
<1>2. hello' \in HelloTask
  BY <1>1 DEF Reconcile, Settles, Reconciling, HelloTask
<1>3. ReportsOn(j) \subseteq Report
  BY <1>1 DEF ReportsOn, Reconciling
<1>4. \A r \in Report : r.reason \in Reason
  BY DEF Report
<1>5. /\ {"StepIndeterminate", "running", "recovering"} \subseteq Status
      /\ {"none", "not_reported"} \subseteq Reason
  BY DEF Status, Reason
<1>6. \E s \in Status, r \in Reason : Reconciled(j, s, r)
  BY <1>3, <1>4, <1>5 DEF Reconcile
<1>7. record' \in [Job -> JobRecord]
  BY <1>6, RecordedType
<1> QED
  BY <1>2, <1>7 DEF Reconcile, TypeOK, connVars, orbitVars, progVars

(* The messages that the Hello's handler sends: each names a job, once. *)
Messages(kind, J) == [i \in DOMAIN SetToSeq(J) |-> [kind |-> kind, job |-> SetToSeq(J)[i]]]

LEMMA MessagesFacts ==
  ASSUME NEW J, J \subseteq Job, NEW kind \in {"dispatch", "cancel", "resume"}
  PROVE  /\ Messages(kind, J) \in Seq(DownMsg)
         /\ \A i \in DOMAIN Messages(kind, J) :
              Messages(kind, J)[i].kind = kind /\ Messages(kind, J)[i].job \in J
         /\ \A i, k \in DOMAIN Messages(kind, J) :
              Messages(kind, J)[i].job = Messages(kind, J)[k].job => i = k
<1> DEFINE n == Cardinality(J)
           m(i) == [kind |-> kind, job |-> SetToSeq(J)[i]]
<1>1. IsFiniteSet(J)
  BY FS_Subset
<1>2. /\ n \in Nat /\ SetToSeq(J) \in [1..n -> J]
      /\ \A i, k \in 1..n : SetToSeq(J)[i] = SetToSeq(J)[k] => i = k
  BY <1>1, SetToSeqLists
<1>3. Messages(kind, J) = [i \in 1..n |-> m(i)]
  BY <1>2 DEF Messages
<1>4. \A i \in 1..n : m(i) \in DownMsg
  BY <1>2 DEF DownMsg
<1>5. [i \in 1..n |-> m(i)] \in Seq(DownMsg)
  BY <1>2, <1>4, IsASeq
<1> HIDE DEF n
<1> QED
  BY <1>2, <1>3, <1>5

LEMMA HelloSendFacts ==
  ASSUME TypeOK, HelloSend
  PROVE  /\ Reconciling /\ hello' = [phase |-> "through", conn |-> hello.conn]
         /\ toOrbit' = IF hello.conn = conn
                       THEN (toOrbit \o Messages("dispatch", hello.pending))
                            \o Messages("resume", hello.runtimes)
                       ELSE toOrbit
         /\ UNCHANGED <<record, watermark, route, conn, opened, toAxis, orbitVars, progVars, faults>>
BY ReconcilingType DEF HelloSend, Messages

LEMMA HelloSendType == ASSUME TypeOK, HelloSend PROVE TypeOK'
<1>1. Reconciling
  BY HelloSendFacts
<1>2. hello' \in HelloTask
  BY <1>1, HelloSendFacts DEF Reconciling, HelloTask, Conn
<1>3. toOrbit' \in Seq(DownMsg)
  <2>1. toOrbit \in Seq(DownMsg)
    BY DEF TypeOK
  <2>2. /\ Messages("dispatch", hello.pending) \in Seq(DownMsg)
        /\ Messages("resume", hello.runtimes) \in Seq(DownMsg)
    BY <1>1, MessagesFacts DEF Reconciling
  <2>3. toOrbit \o Messages("dispatch", hello.pending) \in Seq(DownMsg)
    BY <2>1, <2>2, ConcatProperties
  <2>4. (toOrbit \o Messages("dispatch", hello.pending)) \o Messages("resume", hello.runtimes)
          \in Seq(DownMsg)
    BY <2>2, <2>3, ConcatProperties
  <2> QED
    BY <2>1, <2>4, HelloSendFacts
<1> QED
  BY <1>2, <1>3, HelloSendFacts DEF TypeOK, orbitVars, progVars

LEMMA ReadRespType == ASSUME TypeOK, ReadResp PROVE TypeOK'
<1> DEFINE m == Head(toAxis)
<1>1. toAxis' \in Seq(UpMsg) /\ m \in UpMsg /\ m.kind = "resp"
  BY ReadUpFacts DEF ReadResp
<1>2. m \in RespFrame
  BY <1>1 DEF UpMsg, JobFrame, RespFrame, HelloMsg
<1>3. m.job \in Job /\ m.ok \in BOOLEAN
  BY <1>2 DEF RespFrame
<1>4. Moved(route[m.job], IF m.ok THEN "accepted" ELSE "refused") \in Route
  BY <1>3, MovedType DEF RoutePc
<1>5. route' = route \/ route' = [route EXCEPT ![m.job] = Moved(@, IF m.ok THEN "accepted" ELSE "refused")]
  BY DEF ReadResp
<1> HIDE DEF m
<1>6. route' \in [Job -> Route]
  BY <1>3, <1>4, <1>5 DEF TypeOK
<1> QED
  BY <1>1, <1>6 DEF ReadResp, TypeOK, orbitVars, progVars

LEMMA ReadJobFrameType == ASSUME TypeOK, ReadJobFrame PROVE TypeOK'
<1> DEFINE m == Head(toAxis)
<1>1. toAxis' \in Seq(UpMsg) /\ m \in UpMsg /\ m.kind = "job"
  BY ReadUpFacts DEF ReadJobFrame
<1>2. m \in JobFrame
  BY <1>1 DEF UpMsg, JobFrame, RespFrame, HelloMsg
<1>3. m.job \in Job /\ m.seq \in Nat /\ m.body \in Body
  BY <1>2 DEF JobFrame
<1>4. /\ record' \in [Job -> JobRecord] /\ watermark' \in [Job -> Int] /\ faults' \in Nat
  <2>1. CASE UNCHANGED <<record, watermark, faults>>
    BY <2>1 DEF TypeOK
  <2>2. CASE Store(m) /\ UNCHANGED faults
    <3>1. watermark' \in [Job -> Int]
      BY <1>3, <2>2 DEF Store, TypeOK
    <3>2. CASE UNCHANGED record
      BY <2>2, <3>1, <3>2 DEF TypeOK
    <3>3. CASE m.body.kind = "result" /\ Reconciled(m.job, "completed", m.body.verdict)
      <4>1. m.body.verdict \in Reason
        BY <1>3, <3>3 DEF Body, Reason
      <4>2. record' \in [Job -> JobRecord]
        BY <1>3, <3>3, <4>1, RecordedType DEF Status
      <4> QED
        BY <2>2, <3>1, <4>2 DEF TypeOK
    <3> QED
      BY <2>2, <3>2, <3>3 DEF Store
  <2>3. CASE /\ Reconciled(m.job, "StepIndeterminate", "gap_or_persistence_failure")
             /\ UNCHANGED watermark /\ (IoFails \/ UNCHANGED faults)
    <3>1. record' \in [Job -> JobRecord]
      BY <1>3, <2>3, RecordedType DEF Status, Reason
    <3> QED
      BY <2>3, <3>1, FailsType DEF TypeOK
  <2> QED
    BY <2>1, <2>2, <2>3 DEF ReadJobFrame
<1> QED
  BY <1>1, <1>4 DEF ReadJobFrame, TypeOK, orbitVars, progVars

(* The Orbit reads the first message. *)
LEMMA ReadDownFacts ==
  ASSUME TypeOK, OrbitRead
  PROVE  /\ toOrbit' \in Seq(DownMsg) /\ 1 \in DOMAIN toOrbit /\ toOrbit # <<>>
         /\ Head(toOrbit) = toOrbit[1] /\ Head(toOrbit) \in DownMsg
         /\ \A i \in DOMAIN toOrbit' : i + 1 \in DOMAIN toOrbit /\ toOrbit'[i] = toOrbit[i + 1]
<1>1. toOrbit \in Seq(DownMsg) /\ toOrbit # <<>> /\ toOrbit' = Tail(toOrbit)
  BY DEF TypeOK, OrbitRead
<1>2. /\ Tail(toOrbit) \in Seq(DownMsg) /\ Len(Tail(toOrbit)) = Len(toOrbit) - 1
      /\ Head(toOrbit) \in DownMsg
      /\ \A i \in 1..Len(Tail(toOrbit)) : Tail(toOrbit)[i] = toOrbit[i + 1]
  BY <1>1, HeadTailProperties
<1>3. Len(toOrbit) \in Nat \ {0} /\ DOMAIN toOrbit = 1..Len(toOrbit)
  BY <1>1, EmptySeq, LenProperties
<1>4. DOMAIN toOrbit' = 1..(Len(toOrbit) - 1)
  BY <1>1, <1>2, <1>3, LenProperties
<1>5. Head(toOrbit) = toOrbit[1]
  BY <1>1
<1> QED
  BY <1>1, <1>2, <1>3, <1>4, <1>5

(* What the Orbit does with a message: start a dispatch task, cancel, resend. *)
LEMMA OrbitReadFacts ==
  ASSUME TypeOK, Connections, OrbitRead
  PROVE  \E j \in Job :
           /\ conn \in Conn /\ up
           /\ \/ /\ IsDispatch(toOrbit[1], j) /\ Goto(j, conn, "check")
                 /\ spooler' = [spooler EXCEPT ![j][conn] = TRUE]
                 /\ UNCHANGED <<toAxis, prog>>
              \/ /\ ~\E k \in Job : IsDispatch(toOrbit[1], k)
                 /\ prog' = Killed(j, jobs[j], "cancelled") /\ UNCHANGED <<toAxis, task, spooler>>
              \/ /\ ~\E k \in Job : IsDispatch(toOrbit[1], k)
                 /\ toAxis' = toAxis \o [i \in DOMAIN spool[j] |-> FrameAt(j, i - 1)]
                 /\ UNCHANGED <<task, spooler, prog>>
<1>1. toOrbit # <<>> /\ Head(toOrbit) = toOrbit[1] /\ Head(toOrbit) \in DownMsg
  BY ReadDownFacts
<1>2. conn \in Conn
  <2>1. conn \in 0..MaxConn
    BY DEF TypeOK
  <2> QED
    BY <1>1, <2>1 DEF Connections, Conn
<1>3. Head(toOrbit).job \in Job
  BY <1>1 DEF DownMsg
<1> QED
  BY <1>1, <1>2, <1>3 DEF OrbitRead, IsDispatch

LEMMA OrbitReadType == ASSUME TypeOK, Connections, OrbitRead PROVE TypeOK'
<1>1. toOrbit' \in Seq(DownMsg)
  BY ReadDownFacts
<1>2. PICK j \in Job :
           /\ conn \in Conn /\ up
           /\ \/ /\ Goto(j, conn, "check") /\ spooler' = [spooler EXCEPT ![j][conn] = TRUE]
                 /\ UNCHANGED <<toAxis, prog>>
              \/ prog' = Killed(j, jobs[j], "cancelled") /\ UNCHANGED <<toAxis, task, spooler>>
              \/ /\ toAxis' = toAxis \o [i \in DOMAIN spool[j] |-> FrameAt(j, i - 1)]
                 /\ UNCHANGED <<task, spooler, prog>>
  BY OrbitReadFacts
<1>3. /\ task' \in [Job -> [Conn -> TaskPc]] /\ spooler' \in [Job -> [Conn -> BOOLEAN]]
      /\ toAxis' \in Seq(UpMsg)
      /\ prog' \in [Job -> [Conn -> {"none", "gated", "running"} \cup Ended]]
  <2>1. CASE /\ Goto(j, conn, "check") /\ spooler' = [spooler EXCEPT ![j][conn] = TRUE]
             /\ UNCHANGED <<toAxis, prog>>
    <3> conn \in Conn
      BY <1>2
    <3>1. task' \in [Job -> [Conn -> TaskPc]]
      BY <2>1, TaskType DEF TaskPc
    <3>2. spooler' = [spooler EXCEPT ![j][conn] = TRUE]
      BY <2>1
    <3>3. spooler \in [Job -> [Conn -> BOOLEAN]]
      BY DEF TypeOK
    <3>4. spooler' \in [Job -> [Conn -> BOOLEAN]]
      BY <3>2, <3>3
    <3> QED
      BY <2>1, <3>1, <3>4 DEF TypeOK
  <2>2. CASE prog' = Killed(j, jobs[j], "cancelled") /\ UNCHANGED <<toAxis, task, spooler>>
    BY <2>2, KilledType DEF TypeOK, Verdict
  <2>3. CASE /\ toAxis' = toAxis \o [i \in DOMAIN spool[j] |-> FrameAt(j, i - 1)]
             /\ UNCHANGED <<task, spooler, prog>>
    <3>1. spool[j] \in Seq(Body) /\ toAxis \in Seq(UpMsg)
      BY DEF TypeOK
    <3>2. Len(spool[j]) \in Nat /\ DOMAIN spool[j] = 1..Len(spool[j])
      BY <3>1, LenProperties
    <3>3. [i \in 1..Len(spool[j]) |-> FrameAt(j, 0 + i - 1)] \in Seq(UpMsg)
      <4>1. 0 \in Nat /\ 0 + Len(spool[j]) <= Len(spool[j])
        BY <3>2
      <4> QED
        BY <3>2, <4>1, RowsType
    <3>4. [i \in DOMAIN spool[j] |-> FrameAt(j, i - 1)] = [i \in 1..Len(spool[j]) |-> FrameAt(j, 0 + i - 1)]
      BY <3>2
    <3>5. toAxis' \in Seq(UpMsg)
      BY <2>3, <3>1, <3>3, <3>4, ConcatProperties
    <3> QED
      BY <2>3, <3>5 DEF TypeOK
  <2> QED
    BY <1>2, <2>1, <2>2, <2>3
<1> QED
  BY <1>1, <1>3 DEF OrbitRead, TypeOK, axisVars

LEMMA ReportType ==
  ASSUME TypeOK, NEW j \in Job, Retained(j)
  PROVE  ReportOf(j) \in Report
<1>1. ledger[j] \in Attempt
  BY DEF TypeOK
<1> DEFINE rows == RowsUnder(WireId(j))
<1>2. rows \in Seq(Body)
  BY EmptySeq DEF RowsUnder, TypeOK
<1>3. CASE rows # <<>> /\ Last(rows).kind = "result"
  <2>1. Len(rows) \in Nat /\ Len(rows) \in 1..Len(rows)
    BY <1>2, <1>3, EmptySeq
  <2>2. Last(rows) \in Body
    BY <1>2, <2>1, ElementOfSeq DEF Last
  <2>3. Last(rows).verdict \in Reason
    BY <1>3, <2>2 DEF Body, Reason
  <2> HIDE DEF rows
  <2>4. [job |-> j, state |-> "Completed", reason |-> Last(rows).verdict,
         final |-> Len(rows) - 1] \in Report
    BY <2>1, <2>3 DEF Report
  <2> QED
    BY <1>3, <2>4 DEF ReportOf, rows
<1>4. CASE ~(rows # <<>> /\ Last(rows).kind = "result")
  <2>1. [job |-> j, state |-> ledger[j].state, reason |-> ledger[j].reason,
         final |-> ledger[j].final] \in Report
    BY <1>1 DEF Attempt, Report, Retained
  <2> QED
    BY <1>4, <2>1 DEF ReportOf
<1> QED
  BY <1>3, <1>4

LEMMA ConnectType == ASSUME TypeOK, Connect PROVE TypeOK'
<1>1. conn' \in 0..MaxConn /\ opened' \in 0..MaxConn
  BY DEF TypeOK, Connect
<1> DEFINE m == [kind |-> "hello",
                 attempts |-> {ReportOf(j) : j \in {k \in Job : Retained(k)}},
                 runtimes |-> {j \in Job : spool[j] # <<>>}]
<1>2. m \in UpMsg
  BY ReportType DEF UpMsg, HelloMsg
<1>3. toAxis' \in Seq(UpMsg)
  <2>1. toAxis' = <<m>>
    BY DEF Connect
  <2> HIDE DEF m
  <2> QED
    BY <1>2, <2>1
<1>4. sent' \in [Job -> Nat]
  BY DEF Connect
<1> QED
  BY <1>1, <1>3, <1>4 DEF Connect, TypeOK, axisVars, progVars

LEMMA OrbitStartType == ASSUME TypeOK, OrbitStart PROVE TypeOK'
<1> DEFINE l == [j \in Job |-> IF ledger[j].state = "Running"
                               THEN Entry("StepIndeterminate", "orbit_restarted", 0, -1)
                               ELSE ledger[j]]
<1>1. Entry("StepIndeterminate", "orbit_restarted", 0, -1) \in Attempt
  BY DEF Entry, Attempt, Reason
<1>2. l \in [Job -> Attempt]
  BY <1>1 DEF TypeOK
<1>3. Prune(l)
  BY DEF OrbitStart
<1>4. ledger' \in [Job -> Attempt]
  BY <1>2, <1>3, PruneType
<1>5. prog' \in [Job -> [Conn -> {"none", "gated", "running"} \cup Ended]]
  BY DEF OrbitStart, TypeOK, Ended
<1>6. up' \in BOOLEAN
  BY DEF OrbitStart
<1> QED
  BY <1>4, <1>5, <1>6 DEF OrbitStart, TypeOK, axisVars, connVars

LEMMA OrbitCrashType == ASSUME TypeOK, OrbitCrash PROVE TypeOK'
<1>1. conn' \in 0..MaxConn /\ opened' \in 0..MaxConn /\ toOrbit' \in Seq(DownMsg)
      /\ toAxis' \in Seq(UpMsg) /\ route' \in [Job -> Route]
  BY LostType, DroppedType DEF OrbitCrash
<1>2. /\ task' \in [Job -> [Conn -> TaskPc]] /\ spooler' \in [Job -> [Conn -> BOOLEAN]]
      /\ waiter' \in [Job -> [Conn -> WaiterPc]] /\ jobs' \in [Job -> 0..MaxConn]
      /\ up' \in BOOLEAN
  <2>1. /\ \A x \in TaskPc : PerExecution(x) \in [Job -> [Conn -> TaskPc]]
        /\ \A x \in WaiterPc : PerExecution(x) \in [Job -> [Conn -> WaiterPc]]
        /\ \A x \in BOOLEAN : PerExecution(x) \in [Job -> [Conn -> BOOLEAN]]
    BY DEF PerExecution
  <2>2. "none" \in TaskPc /\ "off" \in WaiterPc
    BY DEF TaskPc, WaiterPc
  <2>3. jobs' \in [Job -> 0..MaxConn]
    BY DEF OrbitCrash
  <2> QED
    BY <2>1, <2>2, <2>3 DEF OrbitCrash
<1>3. prog' \in [Job -> [Conn -> {"none", "gated", "running"} \cup Ended]]
  <2>1. prog' = [j \in Job |-> [c \in Conn |-> IF prog[j][c] = "gated" THEN "none" ELSE prog[j][c]]]
    BY DEF OrbitCrash
  <2>2. prog \in [Job -> [Conn -> {"none", "gated", "running"} \cup Ended]]
    BY DEF TypeOK
  <2>3. ASSUME NEW j \in Job, NEW c \in Conn
        PROVE  prog'[j][c] \in {"none", "gated", "running"} \cup Ended
    BY <2>1, <2>2
  <2> QED
    BY <2>1, <2>3
<1> QED
  BY <1>1, <1>2, <1>3 DEF OrbitCrash, TypeOK

LEMMA DisconnectType == ASSUME TypeOK, Disconnect PROVE TypeOK'
<1>1. conn' \in 0..MaxConn /\ opened' \in 0..MaxConn /\ toOrbit' \in Seq(DownMsg)
      /\ toAxis' \in Seq(UpMsg) /\ route' \in [Job -> Route]
  BY LostType, DroppedType DEF Disconnect
<1> QED
  BY <1>1 DEF Disconnect, TypeOK, orbitVars, progVars

LEMMA AxisRestartType == ASSUME TypeOK, AxisRestart PROVE TypeOK'
<1>1. conn' \in 0..MaxConn /\ opened' \in 0..MaxConn /\ toOrbit' \in Seq(DownMsg)
      /\ toAxis' \in Seq(UpMsg)
  BY LostType DEF AxisRestart
<1>2. record' \in [Job -> JobRecord]
  BY DEF AxisRestart, TypeOK, JobRecord, Status, Reason
<1>3. route' \in [Job -> Route]
  <2>1. \A j \in Job : Moved(route[j], "gone") \in Route
    BY MovedType DEF RoutePc
  <2> QED
    BY <2>1 DEF AxisRestart, TypeOK
<1>4. hello' \in HelloTask
  BY DEF AxisRestart, Idle, HelloTask
<1> QED
  BY <1>1, <1>2, <1>3, <1>4 DEF AxisRestart, TypeOK, orbitVars, progVars

(* The steps of Next, by who takes them. *)
LEMMA Steps ==
  ASSUME [Next]_vars
  PROVE  \/ \E j \in Job, c \in Conn : Orbit(j, c) \/ Write(j, c) \/ Exit(j, c)
         \/ \E j \in Job : Replay(j) \/ RouteSend(j) \/ RouteFinish(j) \/ Reconcile(j)
                           \/ RouteCreate(j) \/ CancelRequest(j)
         \/ HelloPublish \/ HelloPick \/ HelloSend \/ ReadResp \/ ReadJobFrame
         \/ OrbitRead \/ Connect \/ OrbitStart \/ Disconnect \/ OrbitCrash \/ AxisRestart
         \/ UNCHANGED vars
BY DEF Next, Axis, Handler

LEMMA OrbitType ==
  ASSUME TypeOK, Executions, NEW j \in Job, NEW c \in Conn, Orbit(j, c)
  PROVE  TypeOK'
BY CheckType, RecordType, SpawnType, PersistType, LaunchType, RespondType, HearType,
   ConcludeType, CloseType DEF Orbit

LEMMA StepType ==
  ASSUME TypeOK, Connections, Executions, [Next]_vars
  PROVE  TypeOK'
<1>1. CASE UNCHANGED vars
  BY <1>1 DEF TypeOK, vars, axisVars, connVars, orbitVars, progVars
<1> QED
  BY <1>1, Steps, OrbitType, ProgramType, ReplayType, RouteStepType, ReconcileType,
     HelloPublishType, HelloPickType, HelloSendType, ReadRespType, ReadJobFrameType,
     OrbitReadType, ConnectType, OrbitStartType, DisconnectType, OrbitCrashType,
     AxisRestartType

-----------------------------------------------------------------------------
(***************************************************************************)
(* A connection carries one dispatch of a job.                             *)
(***************************************************************************)
Link == Connections /\ Hellos /\ Dispatches

\* What the Orbit's tasks do to the link: they answer, and never say Hello.
Quiet ==
  /\ UNCHANGED <<record, route, hello, conn, opened, toOrbit, up>>
  /\ \A j \in Job, c \in Conn : task'[j][c] = "none" <=> task[j][c] = "none"
  /\ \A i \in DOMAIN toAxis' :
       toAxis'[i].kind = "hello" => i \in DOMAIN toAxis /\ toAxis[i].kind = "hello"
  /\ conn = 0 => toAxis' = toAxis

LEMMA QuietStep ==
  ASSUME TypeOK, Link, Quiet
  PROVE  Link'
<1>1. conn # 0 => conn \in Conn
  BY DEF TypeOK, Conn
<1>2. Connections'
  <2>1. \A j \in Job, c \in Conn : task'[j][c] # "none" => c <= opened' /\ up'
    BY DEF Quiet, Link, Connections
  <2> QED
    BY <2>1 DEF Quiet, Link, Connections
<1>3. Hellos'
  <2>1. \A i \in DOMAIN toAxis' : toAxis'[i].kind = "hello" => i = 1 /\ hello'.conn # conn'
    BY DEF Quiet, Link, Hellos
  <2> QED
    BY <2>1 DEF Quiet, Link, Hellos
<1>4. Dispatches'
  <2>1. \A j \in Job : OnItsWay(j)' <=> OnItsWay(j)
    BY DEF Quiet, OnItsWay
  <2>2. \A j \in Job : Dispatched(j)' <=> Dispatched(j)
    BY <1>1, <2>1 DEF Quiet, Dispatched
  <2>3. ASSUME NEW j \in Job, OnItsWay(j)
        PROVE  task'[j][conn'] = "none"
    <3>1. conn # 0
      BY <2>3 DEF Link, Connections, OnItsWay
    <3>2. task[j][conn] = "none"
      BY <2>3 DEF Link, Dispatches
    <3> QED
      BY <1>1, <3>1, <3>2 DEF Quiet
  <2> QED
    BY <2>1, <2>2, <2>3 DEF Quiet, Link, Dispatches
<1> QED
  BY <1>2, <1>3, <1>4 DEF Link

(* Frames that are no Hello, at the end of the wire. *)
LEMMA QuietAppend ==
  ASSUME TypeOK, NEW s \in Seq(UpMsg), \A i \in 1..Len(s) : s[i].kind # "hello",
         toAxis' = toAxis \o s
  PROVE  \A i \in DOMAIN toAxis' :
           toAxis'[i].kind = "hello" => i \in DOMAIN toAxis /\ toAxis[i].kind = "hello"
<1>1. toAxis \in Seq(UpMsg) /\ Len(toAxis) \in Nat /\ Len(s) \in Nat
      /\ DOMAIN toAxis = 1..Len(toAxis)
  BY LenProperties DEF TypeOK
<1>2. /\ toAxis' \in Seq(UpMsg) /\ Len(toAxis') = Len(toAxis) + Len(s)
      /\ \A i \in 1..(Len(toAxis) + Len(s)) :
           toAxis'[i] = IF i <= Len(toAxis) THEN toAxis[i] ELSE s[i - Len(toAxis)]
  BY <1>1, ConcatProperties
<1>3. DOMAIN toAxis' = 1..(Len(toAxis) + Len(s))
  BY <1>2, LenProperties
<1>4. ASSUME NEW i \in DOMAIN toAxis', toAxis'[i].kind = "hello"
      PROVE  i <= Len(toAxis)
  <2>1. SUFFICES ASSUME i > Len(toAxis) PROVE FALSE
    BY <1>1, <1>3
  <2>2. toAxis'[i] = s[i - Len(toAxis)] /\ i - Len(toAxis) \in 1..Len(s)
    BY <1>1, <1>2, <1>3, <2>1
  <2> QED
    BY <1>4, <2>2
<1> QED
  BY <1>1, <1>2, <1>3, <1>4

LEMMA QuietEmits ==
  ASSUME TypeOK, NEW c \in Conn, NEW f \in UpMsg, f.kind # "hello", Emits(c, <<f>>)
  PROVE  /\ \A i \in DOMAIN toAxis' :
              toAxis'[i].kind = "hello" => i \in DOMAIN toAxis /\ toAxis[i].kind = "hello"
         /\ conn = 0 => toAxis' = toAxis
<1>1. CASE toAxis' = toAxis \o <<f>> /\ c = conn
  <2>1. conn # 0
    BY <1>1 DEF Conn
  <2> DEFINE s == <<f>>
  <2>2. s \in Seq(UpMsg) /\ \A i \in 1..Len(s) : s[i].kind # "hello"
    OBVIOUS
  <2>3. toAxis' = toAxis \o s
    BY <1>1
  <2> HIDE DEF s
  <2> QED
    BY <2>1, <2>2, <2>3, QuietAppend
<1>2. CASE UNCHANGED toAxis
  BY <1>2
<1> QED
  BY <1>1, <1>2 DEF Emits

LEMMA QuietGoto ==
  ASSUME TypeOK, NEW j \in Job, NEW c \in Conn, NEW p, Goto(j, c, p),
         p # "none", task[j][c] # "none"
  PROVE  \A k \in Job, d \in Conn : task'[k][d] = "none" <=> task[k][d] = "none"
BY DEF TypeOK, Goto

LEMMA QuietSpoolRow ==
  ASSUME TypeOK, NEW j \in Job, NEW c \in Conn, NEW b \in Body, SpoolRow(j, c, b)
  PROVE  /\ \A i \in DOMAIN toAxis' :
              toAxis'[i].kind = "hello" => i \in DOMAIN toAxis /\ toAxis[i].kind = "hello"
         /\ conn = 0 => toAxis' = toAxis
<1> DEFINE f == [kind |-> "job", job |-> j, seq |-> Len(spool[j]), body |-> b]
<1>1. f \in UpMsg
  BY LenProperties DEF TypeOK, UpMsg, JobFrame
<1>2. f.kind # "hello" /\ Emits(c, <<f>>)
  BY DEF SpoolRow
<1> HIDE DEF f
<1> QED
  BY <1>1, <1>2, QuietEmits

LEMMA OrbitQuiet ==
  ASSUME TypeOK, Executions, NEW j \in Job, NEW c \in Conn, Orbit(j, c)
  PROVE  Quiet
<1>1. CASE Check(j, c)
  <2>1. task[j][c] # "none"
    BY <1>1 DEF Check, At
  <2> QED
    BY <1>1, <2>1, QuietGoto DEF Check, Quiet, axisVars, connVars
<1>2. CASE Record(j, c) \/ Persist(j, c)
  <2>1. task[j][c] # "none"
    BY <1>2 DEF Record, Persist, At
  <2> QED
    BY <1>2, <2>1, QuietGoto DEF Record, Persist, Quiet, axisVars, connVars
<1>3. CASE Spawn(j, c)
  <2>1. task[j][c] # "none"
    BY <1>3 DEF Spawn, At
  <2> QED
    BY <1>3, <2>1, QuietGoto DEF Spawn, Quiet, axisVars, connVars
<1>4. CASE Launch(j, c)
  <2>1. task[j][c] # "none"
    BY <1>4 DEF Launch, At
  <2> QED
    BY <1>4, <2>1, QuietGoto DEF Launch, Quiet, axisVars, connVars
<1>5. CASE Respond(j, c)
  <2> DEFINE f == [kind |-> "resp", job |-> j, ok |-> task[j][c] = "respond"]
  <2>1. task[j][c] # "none" /\ Goto(j, c, "done")
    BY <1>5 DEF Respond
  <2>2. f \in UpMsg /\ f.kind # "hello" /\ Emits(c, <<f>>)
    BY <1>5 DEF Respond, UpMsg, RespFrame
  <2> HIDE DEF f
  <2>3. \A k \in Job, d \in Conn : task'[k][d] = "none" <=> task[k][d] = "none"
    BY <2>1, QuietGoto
  <2>4. UNCHANGED <<record, route, hello, conn, opened, toOrbit, up>>
    BY <1>5 DEF Respond, axisVars
  <2> QED
    BY <2>2, <2>3, <2>4, QuietEmits DEF Quiet
<1>6. CASE Hear(j, c)
  <2>1. UNCHANGED <<record, route, hello, conn, opened, toOrbit, up, task>>
    BY <1>6 DEF Hear, axisVars
  <2>2. [kind |-> "output", of |-> c] \in Body
    BY DEF Body
  <2>3. SpoolRow(j, c, [kind |-> "output", of |-> c]) \/ UNCHANGED toAxis
    BY <1>6 DEF Hear, SpoolFails
  <2> QED
    BY <2>1, <2>2, <2>3, QuietSpoolRow DEF Quiet
<1>7. CASE Conclude(j, c)
  <2>1. UNCHANGED <<record, route, hello, conn, opened, toOrbit, up, task>>
    BY <1>7 DEF Conclude, HandResult, axisVars
  <2>2. prog[j][c] \in Verdict
    BY <1>7 DEF Conclude, Executions, Life, Ended, Verdict
  <2>3. [kind |-> "result", of |-> c, verdict |-> prog[j][c]] \in Body
    BY <2>2 DEF Body
  <2>4. \/ SpoolRow(j, c, [kind |-> "result", of |-> c, verdict |-> prog[j][c]])
        \/ UNCHANGED toAxis
    BY <1>7 DEF Conclude, HandResult, SpoolFails
  <2> QED
    BY <2>1, <2>3, <2>4, QuietSpoolRow DEF Quiet
<1>8. CASE CloseAttempt(j, c)
  BY <1>8 DEF CloseAttempt, Quiet, axisVars, connVars
<1> QED
  BY <1>1, <1>2, <1>3, <1>4, <1>5, <1>6, <1>7, <1>8 DEF Orbit

LEMMA OtherQuiet ==
  ASSUME TypeOK, NEW j \in Job,
         (\E c \in Conn : Write(j, c) \/ Exit(j, c)) \/ Replay(j) \/ UNCHANGED vars
  PROVE  Quiet
<1>1. CASE \E c \in Conn : Write(j, c) \/ Exit(j, c)
  BY <1>1 DEF Write, Exit, Quiet, axisVars, connVars, orbitVars
<1>2. CASE Replay(j)
  <2>1. Len(spool[j]) \in Nat /\ sent[j] \in Nat
    BY LenProperties DEF TypeOK
  <2>2. Len(spool[j]) - sent[j] \in Nat /\ sent[j] + (Len(spool[j]) - sent[j]) <= Len(spool[j])
    BY <1>2, <2>1 DEF Replay
  <2> DEFINE s == [i \in 1..(Len(spool[j]) - sent[j]) |-> FrameAt(j, sent[j] + i - 1)]
  <2>3. s \in Seq(UpMsg)
    BY <2>1, <2>2, RowsType
  <2>4. \A i \in 1..Len(s) : s[i].kind # "hello"
    BY <2>2 DEF FrameAt
  <2>5. toAxis' = toAxis \o s /\ conn # 0
    BY <1>2 DEF Replay
  <2> HIDE DEF s
  <2>6. \A i \in DOMAIN toAxis' :
          toAxis'[i].kind = "hello" => i \in DOMAIN toAxis /\ toAxis[i].kind = "hello"
    BY <2>3, <2>4, <2>5, QuietAppend
  <2> QED
    BY <1>2, <2>5, <2>6 DEF Replay, Quiet, axisVars
<1>3. CASE UNCHANGED vars
  BY <1>3 DEF Quiet, vars, axisVars, connVars, orbitVars
<1> QED
  BY <1>1, <1>2, <1>3

(* The connection is lost, with or without one of the processes. *)
LEMMA LossStep ==
  ASSUME TypeOK, Link, LoseConnection, hello' \in {hello, Idle},
         \A j \in Job : /\ route'[j].conn = route[j].conn
                        /\ route'[j].pc # "none" => route[j].pc # "none"
                        /\ record'[j].status = "none" => record[j].status = "none",
         \A j \in Job, c \in Conn : task'[j][c] # "none" => task[j][c] # "none" /\ up' = up
  PROVE  Link'
<1>1. conn' = 0 /\ toOrbit' = <<>> /\ toAxis' = <<>> /\ opened' = opened
  BY DEF LoseConnection
<1>2. DOMAIN toOrbit' = {} /\ DOMAIN toAxis' = {}
  BY <1>1
<1>3. hello'.conn <= opened' /\ (hello'.phase = "idle" <=> hello'.conn = 0)
  BY <1>1 DEF Link, Connections, Idle, TypeOK
<1>4. Connections'
  <2>1. \A j \in Job, c \in Conn : task'[j][c] # "none" => c <= opened' /\ up'
    BY <1>1 DEF Link, Connections
  <2>2. \A j \in Job : route'[j].conn <= opened'
    BY <1>1 DEF Link, Connections
  <2> QED
    BY <1>1, <1>3, <2>1, <2>2 DEF Connections
<1>5. Hellos'
  <2>1. \A j \in Job : route'[j].pc # "none" => route'[j].conn # 0 /\ record'[j].status # "none"
    BY DEF Link, Hellos
  <2> QED
    BY <1>1, <1>2, <1>3, <2>1 DEF Hellos
<1>6. Dispatches'
  BY <1>1, <1>2 DEF Dispatches, Dispatched, OnItsWay
<1> QED
  BY <1>4, <1>5, <1>6 DEF Link

LEMMA LosesStep ==
  ASSUME TypeOK, Link, Disconnect \/ OrbitCrash \/ AxisRestart
  PROVE  Link'
<1>1. LoseConnection /\ hello' \in {hello, Idle}
  BY DEF Disconnect, OrbitCrash, AxisRestart
<1>2. \A j \in Job : /\ route'[j].conn = route[j].conn
                     /\ route'[j].pc # "none" => route[j].pc # "none"
                     /\ record'[j].status = "none" => record[j].status = "none"
  <2>1. CASE DropRequests /\ UNCHANGED record
    BY <2>1 DEF DropRequests, Dropped, Moved
  <2>2. CASE AxisRestart
    BY <2>2 DEF AxisRestart, Moved
  <2> QED
    BY <2>1, <2>2 DEF Disconnect, OrbitCrash
<1>3. \A j \in Job, c \in Conn : task'[j][c] # "none" => task[j][c] # "none" /\ up' = up
  <2>1. CASE OrbitCrash
    BY <2>1 DEF OrbitCrash, PerExecution
  <2>2. CASE Disconnect \/ AxisRestart
    BY <2>2 DEF Disconnect, AxisRestart, orbitVars
  <2> QED
    BY <2>1, <2>2
<1> QED
  BY <1>1, <1>2, <1>3, LossStep

LEMMA ConnectLink == ASSUME TypeOK, Link, Connect PROVE Link'
<1>1. /\ conn = 0 /\ conn' = opened + 1 /\ opened' = opened + 1 /\ opened \in Nat
      /\ up /\ up' = up /\ toOrbit = <<>> /\ UNCHANGED <<record, route, hello, toOrbit, task>>
  BY DEF Connect, TypeOK, Link, Connections, axisVars
<1>2. \A j \in Job : route[j].conn \in Nat /\ route[j].conn <= opened
  BY DEF Link, Connections, TypeOK, Route
<1>3. hello.conn \in Nat /\ hello.conn <= opened
  BY DEF Link, Connections, TypeOK, HelloTask, Conn
<1>4. \A i \in DOMAIN toAxis' : i = 1
  BY DEF Connect
<1>5. conn' \in Conn
  BY <1>1 DEF Connect, TypeOK, Conn
<1>6. \A j \in Job : task[j][conn'] = "none"
  BY <1>1, <1>5 DEF Link, Connections
<1>7. Connections'
  <2>1. \A j \in Job, c \in Conn : task'[j][c] # "none" => c <= opened' /\ up'
    <3>1. \A c \in Conn : c <= opened => c <= opened + 1
      BY <1>1 DEF Conn
    <3> QED
      BY <1>1, <3>1 DEF Link, Connections
  <2> QED
    BY <1>1, <1>2, <1>3, <2>1 DEF Link, Connections
<1>8. Hellos'
  BY <1>1, <1>2, <1>3, <1>4 DEF Link, Hellos
<1>9. Dispatches'
  <2>1. \A j \in Job : ~OnItsWay(j)' /\ ~Dispatched(j)'
    BY <1>1, <1>6 DEF OnItsWay, Dispatched
  <2>2. DOMAIN toOrbit' = {}
    BY <1>1
  <2> QED
    BY <2>1, <2>2 DEF Dispatches
<1> QED
  BY <1>7, <1>8, <1>9 DEF Link

LEMMA OrbitStartLink == ASSUME TypeOK, Link, OrbitStart PROVE Link'
<1>1. UNCHANGED <<record, route, hello, conn, opened, toOrbit, toAxis, task>> /\ up' = TRUE
  BY DEF OrbitStart, axisVars, connVars
<1>2. Connections'
  BY <1>1 DEF Link, Connections
<1>3. Hellos'
  BY <1>1 DEF Link, Hellos
<1>4. Dispatches'
  BY <1>1 DEF Link, Dispatches, Dispatched, OnItsWay
<1> QED
  BY <1>2, <1>3, <1>4 DEF Link

LEMMA OrbitReadLink == ASSUME TypeOK, Link, OrbitRead PROVE Link'
<1>1. /\ 1 \in DOMAIN toOrbit
      /\ \A i \in DOMAIN toOrbit' : i + 1 \in DOMAIN toOrbit /\ toOrbit'[i] = toOrbit[i + 1]
  BY ReadDownFacts
<1>2. DOMAIN toOrbit' \subseteq Nat \ {0}
  <2>1. toOrbit' \in Seq(DownMsg)
    BY ReadDownFacts
  <2> QED
    BY <2>1, LenProperties
<1>3. PICK j \in Job :
           /\ conn \in Conn /\ up
           /\ \/ /\ IsDispatch(toOrbit[1], j) /\ Goto(j, conn, "check")
                 /\ spooler' = [spooler EXCEPT ![j][conn] = TRUE]
                 /\ UNCHANGED <<toAxis, prog>>
              \/ /\ ~\E k \in Job : IsDispatch(toOrbit[1], k)
                 /\ prog' = Killed(j, jobs[j], "cancelled") /\ UNCHANGED <<toAxis, task, spooler>>
              \/ /\ ~\E k \in Job : IsDispatch(toOrbit[1], k)
                 /\ toAxis' = toAxis \o [i \in DOMAIN spool[j] |-> FrameAt(j, i - 1)]
                 /\ UNCHANGED <<task, spooler, prog>>
  BY OrbitReadFacts DEF Link
<1>4. UNCHANGED <<record, route, hello, conn, opened, up>> /\ conn \in Conn /\ conn # 0 /\ up
  BY <1>3 DEF OrbitRead, axisVars, Conn
<1>5. /\ \A i \in DOMAIN toAxis' :
           toAxis'[i].kind = "hello" => i \in DOMAIN toAxis /\ toAxis[i].kind = "hello"
  <2>1. CASE UNCHANGED toAxis
    BY <2>1
  <2>2. CASE toAxis' = toAxis \o [i \in DOMAIN spool[j] |-> FrameAt(j, i - 1)]
    <3>1. spool[j] \in Seq(Body)
      BY DEF TypeOK
    <3>2. Len(spool[j]) \in Nat /\ DOMAIN spool[j] = 1..Len(spool[j])
      BY <3>1, LenProperties
    <3>3. 0 \in Nat /\ 0 + Len(spool[j]) <= Len(spool[j])
      BY <3>2
    <3> DEFINE s == [i \in 1..Len(spool[j]) |-> FrameAt(j, 0 + i - 1)]
    <3>4. s \in Seq(UpMsg)
      BY <3>2, <3>3, RowsType
    <3>5. \A i \in 1..Len(s) : s[i].kind # "hello"
      BY <3>2 DEF FrameAt
    <3>6. toAxis' = toAxis \o s
      BY <2>2, <3>2
    <3> HIDE DEF s
    <3> QED
      BY <3>4, <3>5, <3>6, QuietAppend
  <2> QED
    BY <1>3, <2>1, <2>2
<1>6. /\ \A k \in Job, d \in Conn :
           task'[k][d] # "none" => task[k][d] # "none" \/ (d = conn /\ IsDispatch(toOrbit[1], k))
      /\ \A k \in Job, d \in Conn :
           task'[k][d] = "none" <=> task[k][d] = "none" /\ ~(d = conn /\ IsDispatch(toOrbit[1], k))
  <2>1. CASE IsDispatch(toOrbit[1], j) /\ Goto(j, conn, "check")
    <3>1. \A k \in Job : IsDispatch(toOrbit[1], k) <=> k = j
      BY <2>1 DEF IsDispatch
    <3> QED
      BY <1>4, <2>1, <3>1 DEF Goto, TypeOK
  <2>2. CASE ~(\E k \in Job : IsDispatch(toOrbit[1], k)) /\ UNCHANGED task
    BY <2>2
  <2> QED
    BY <1>3, <2>1, <2>2
<1>7. \A k \in Job : OnItsWay(k)' => OnItsWay(k)
  BY <1>1 DEF OnItsWay
<1>8. \A k \in Job : Dispatched(k)' => Dispatched(k)
  BY <1>1, <1>4, <1>6, <1>7 DEF Dispatched, OnItsWay
<1>9. Connections'
  <2>1. \A k \in Job, d \in Conn : task'[k][d] # "none" => d <= opened' /\ up'
    BY <1>4, <1>6 DEF Link, Connections, Conn
  <2> QED
    BY <1>4, <2>1 DEF Link, Connections
<1>10. Hellos'
  BY <1>4, <1>5 DEF Link, Hellos
<1>11. Dispatches'
  <2>1. ASSUME NEW k \in Job, OnItsWay(k)'
        PROVE  task'[k][conn'] = "none"
    <3>1. PICK i \in DOMAIN toOrbit' : IsDispatch(toOrbit[i + 1], k) /\ i + 1 \in DOMAIN toOrbit
      BY <1>1, <2>1 DEF OnItsWay
    <3>2. i + 1 # 1
      BY <1>2
    <3>3. ~IsDispatch(toOrbit[1], k)
      BY <1>1, <3>1, <3>2 DEF Link, Dispatches
    <3>4. task[k][conn] = "none"
      BY <1>7, <2>1 DEF Link, Dispatches
    <3> QED
      BY <1>4, <1>6, <3>3, <3>4
  <2>2. ASSUME NEW k \in Job, NEW a \in DOMAIN toOrbit', NEW b \in DOMAIN toOrbit',
               IsDispatch(toOrbit'[a], k), IsDispatch(toOrbit'[b], k)
        PROVE  a = b
    <3>1. /\ a + 1 \in DOMAIN toOrbit /\ IsDispatch(toOrbit[a + 1], k)
          /\ b + 1 \in DOMAIN toOrbit /\ IsDispatch(toOrbit[b + 1], k)
      BY <1>1, <2>2
    <3>2. a + 1 = b + 1
      BY <3>1 DEF Link, Dispatches
    <3> QED
      BY <1>2, <3>2
  <2>3. \A k \in Job : Dispatched(k)' =>
         /\ hello'.conn = conn' /\ record'[k].status # "none"
         /\ ~(route'[k].pc = "created" /\ route'[k].conn = conn')
         /\ hello'.phase = "published" => route'[k].conn = conn'
         /\ hello'.phase = "reconcile" => k \notin hello'.pending
    BY <1>4, <1>8 DEF Link, Dispatches
  <2> QED
    BY <2>1, <2>2, <2>3 DEF Dispatches
<1> QED
  BY <1>9, <1>10, <1>11 DEF Link

(* One more message on the wire to the Orbit. *)
LEMMA SendFacts ==
  ASSUME TypeOK, NEW m \in DownMsg, toOrbit' = Append(toOrbit, m)
  PROVE  /\ \A i \in DOMAIN toOrbit' : \/ i \in DOMAIN toOrbit /\ toOrbit'[i] = toOrbit[i]
                                       \/ i = Len(toOrbit) + 1 /\ toOrbit'[i] = m
         /\ \A i \in DOMAIN toOrbit : i \in DOMAIN toOrbit' /\ toOrbit'[i] = toOrbit[i]
<1>1. toOrbit \in Seq(DownMsg)
  BY DEF TypeOK
<1>2. /\ Len(toOrbit) \in Nat /\ DOMAIN toOrbit = 1..Len(toOrbit)
      /\ DOMAIN toOrbit' = 1..(Len(toOrbit) + 1)
      /\ \A i \in 1..Len(toOrbit) : toOrbit'[i] = toOrbit[i]
      /\ toOrbit'[Len(toOrbit) + 1] = m
  BY <1>1, AppendProperties, LenProperties
<1> QED
  BY <1>2

LEMMA RouteSendLink == ASSUME TypeOK, Link, NEW j \in Job, RouteSend(j) PROVE Link'
<1>1. /\ UNCHANGED <<record, hello, conn, opened, toAxis, up, task>> /\ route[j].pc = "created"
      /\ route[j].conn \in Nat /\ route[j].conn # 0 /\ route[j].conn <= opened
      /\ record[j].status # "none"
  BY DEF RouteSend, orbitVars, Link, Hellos, Connections, TypeOK, Route
<1>2. CASE route[j].conn # conn /\ UNCHANGED toOrbit /\ route' = [route EXCEPT ![j] = Moved(@, "lost")]
  <2>1. \A k \in Job : /\ route'[k].conn = route[k].conn
                       /\ route'[k].pc # route[k].pc => k = j /\ route'[k].pc = "lost"
    BY <1>2, MovedType DEF TypeOK, RoutePc
  <2>2. Connections'
    BY <1>1, <1>2, <2>1 DEF Link, Connections
  <2>3. Hellos'
    BY <1>1, <1>2, <2>1 DEF Link, Hellos
  <2>4. Dispatches'
    BY <1>1, <1>2, <2>1 DEF Link, Dispatches, Dispatched, OnItsWay
  <2> QED
    BY <2>2, <2>3, <2>4 DEF Link
<1>3. CASE /\ route[j].conn = conn /\ route' = [route EXCEPT ![j] = Moved(@, "await")]
           /\ toOrbit' = Append(toOrbit, [kind |-> "dispatch", job |-> j])
  <2>1. /\ \A k \in Job : /\ route'[k].conn = route[k].conn
                          /\ k # j => route'[k] = route[k]
        /\ route'[j].pc = "await"
    BY <1>3, MovedType DEF TypeOK, RoutePc
  <2>2. conn # 0 /\ hello.conn = conn
    BY <1>1, <1>3 DEF Link, Hellos
  <2>3. ~Dispatched(j)
    BY <1>1, <1>3 DEF Link, Dispatches
  <2>4. [kind |-> "dispatch", job |-> j] \in DownMsg
    BY DEF DownMsg
  <2>5. /\ \A i \in DOMAIN toOrbit' :
             \/ i \in DOMAIN toOrbit /\ toOrbit'[i] = toOrbit[i]
             \/ i = Len(toOrbit) + 1 /\ toOrbit'[i] = [kind |-> "dispatch", job |-> j]
        /\ \A i \in DOMAIN toOrbit : i \in DOMAIN toOrbit' /\ toOrbit'[i] = toOrbit[i]
    BY <1>3, <2>4, SendFacts
  <2>6. \A k \in Job : k # j => (OnItsWay(k)' <=> OnItsWay(k)) /\ (Dispatched(k)' <=> Dispatched(k))
    BY <1>1, <2>5 DEF OnItsWay, Dispatched, IsDispatch
  <2>7. task[j][conn] = "none" /\ ~OnItsWay(j)
    BY <2>2, <2>3 DEF Dispatched
  <2>8. Connections'
    BY <1>1, <2>1, <2>2 DEF Link, Connections
  <2>9. Hellos'
    BY <1>1, <2>1, <2>2 DEF Link, Hellos
  <2>10. Dispatches'
    <3>1. ASSUME NEW k \in Job, Dispatched(k)'
          PROVE  /\ hello'.conn = conn' /\ record'[k].status # "none"
                 /\ ~(route'[k].pc = "created" /\ route'[k].conn = conn')
                 /\ hello'.phase = "published" => route'[k].conn = conn'
                 /\ hello'.phase = "reconcile" => k \notin hello'.pending
      <4>1. CASE k = j
        BY <1>1, <1>3, <2>1, <2>2, <4>1 DEF Link, Hellos
      <4>2. CASE k # j
        BY <1>1, <2>1, <2>6, <3>1, <4>2 DEF Link, Dispatches
      <4> QED
        BY <4>1, <4>2
    <3>2. ASSUME NEW k \in Job, OnItsWay(k)'
          PROVE  task'[k][conn'] = "none"
      BY <1>1, <2>6, <2>7, <3>2 DEF Link, Dispatches
    <3>3. ASSUME NEW k \in Job, NEW a \in DOMAIN toOrbit', NEW b \in DOMAIN toOrbit',
                 IsDispatch(toOrbit'[a], k), IsDispatch(toOrbit'[b], k)
          PROVE  a = b
      <4>1. CASE k = j
        BY <2>5, <2>7, <3>3, <4>1 DEF OnItsWay
      <4>2. CASE k # j
        BY <2>5, <3>3, <4>2 DEF Link, Dispatches, IsDispatch
      <4> QED
        BY <4>1, <4>2
    <3> QED
      BY <3>1, <3>2, <3>3 DEF Dispatches
  <2> QED
    BY <2>8, <2>9, <2>10 DEF Link
<1> QED
  BY <1>2, <1>3 DEF RouteSend

LEMMA RouteCreateLink == ASSUME TypeOK, Link, NEW j \in Job, RouteCreate(j) PROVE Link'
<1>1. /\ UNCHANGED <<hello, conn, opened, toAxis, toOrbit, up, task>> /\ record[j].status = "none"
      /\ hello.phase # "idle" /\ hello.conn # 0 /\ hello.conn <= opened
  BY DEF RouteCreate, connVars, orbitVars, Link, Connections, Published, NoRecord
<1>2. /\ record' = [record EXCEPT ![j] = [status |-> "running", reason |-> "none"]]
      /\ route' = [route EXCEPT ![j] = [pc |-> "created", conn |-> hello.conn]]
  BY DEF RouteCreate, Reconciled
<1>3. /\ \A k \in Job : k # j => record'[k] = record[k] /\ route'[k] = route[k]
      /\ record'[j].status = "running" /\ route'[j].pc = "created" /\ route'[j].conn = hello.conn
  BY <1>2 DEF TypeOK
<1>4. ~Dispatched(j)
  BY <1>1 DEF Link, Dispatches
<1>5. Connections'
  BY <1>1, <1>3 DEF Link, Connections
<1>6. Hellos'
  <2>1. (hello.phase = "reconcile" /\ hello.conn = conn) => j \notin hello.pending
    BY <1>1 DEF Link, Hellos
  <2>2. ASSUME NEW k \in Job
        PROVE  /\ route'[k].pc # "none" => route'[k].conn # 0 /\ record'[k].status # "none"
               /\ (route'[k].conn = conn' /\ conn' # 0) => hello'.conn = conn'
               /\ route'[k].pc = "lost" => route'[k].conn # conn'
               /\ (hello'.phase = "published" /\ route'[k].conn = conn' /\ conn' # 0) =>
                    record'[k].status = "running" /\ route'[k].pc \in {"created", "await"}
               /\ (hello'.phase = "reconcile" /\ hello'.conn = conn' /\ k \in hello'.pending) =>
                    route'[k].conn # conn' /\ record'[k].status # "none"
    <3>1. CASE k = j
      BY <1>1, <1>3, <2>1, <3>1
    <3>2. CASE k # j
      BY <1>1, <1>3, <3>2 DEF Link, Hellos
    <3> QED
      BY <3>1, <3>2
  <2> QED
    BY <1>1, <2>2 DEF Link, Hellos
<1>7. Dispatches'
  <2>1. \A k \in Job : (OnItsWay(k)' <=> OnItsWay(k)) /\ (Dispatched(k)' <=> Dispatched(k))
    BY <1>1 DEF OnItsWay, Dispatched
  <2> QED
    BY <1>1, <1>3, <1>4, <2>1 DEF Link, Dispatches
<1> QED
  BY <1>5, <1>6, <1>7 DEF Link

(* A record or a route changes, and the link does not. *)
LEMMA RecordsLink ==
  ASSUME TypeOK, Link, UNCHANGED <<hello, conn, opened, toOrbit, up, task>>,
         toAxis' = toAxis \/ (\E kind : ReadUp(kind)),
         \A j \in Job : /\ route'[j].conn = route[j].conn
                        /\ route'[j].pc = "none" <=> route[j].pc = "none"
                        /\ route'[j].pc = "created" => route[j].pc = "created"
                        /\ route'[j].pc = "lost" => route[j].pc = "lost"
                        /\ record'[j].status = "none" => record[j].status = "none"
                        /\ (hello.phase = "published" /\ route[j].conn = conn /\ conn # 0) =>
                             record'[j].status = record[j].status /\ route'[j].pc = route[j].pc
  PROVE  Link'
<1>1. Connections'
  <2>1. conn' = 0 => toAxis' = <<>>
    <3>1. ASSUME NEW kind, ReadUp(kind) PROVE conn # 0
      BY <3>1 DEF ReadUp, Link, Connections
    <3> QED
      BY <3>1 DEF Link, Connections
  <2> QED
    BY <2>1 DEF Link, Connections
<1>2. Hellos'
  <2>1. \A i \in DOMAIN toAxis' : toAxis'[i].kind = "hello" => i = 1 /\ hello'.conn # conn'
    <3>1. CASE toAxis' = toAxis
      BY <3>1 DEF Link, Hellos
    <3>2. ASSUME NEW kind, ReadUp(kind) PROVE \A i \in DOMAIN toAxis' : toAxis'[i].kind # "hello"
      <4>1. \A i \in DOMAIN toAxis' : i + 1 \in DOMAIN toAxis /\ toAxis'[i] = toAxis[i + 1]
        BY <3>2, ReadUpFacts
      <4>2. DOMAIN toAxis' \subseteq Nat \ {0}
        <5>1. toAxis' \in Seq(UpMsg)
          BY <3>2, ReadUpFacts
        <5> QED
          BY <5>1, LenProperties
      <4> QED
        BY <4>1, <4>2 DEF Link, Hellos
    <3> QED
      BY <3>1, <3>2
  <2> QED
    BY <2>1 DEF Link, Hellos
<1>3. Dispatches'
  <2>1. \A k \in Job : (OnItsWay(k)' <=> OnItsWay(k)) /\ (Dispatched(k)' <=> Dispatched(k))
    BY DEF OnItsWay, Dispatched
  <2> QED
    BY <2>1 DEF Link, Dispatches
<1> QED
  BY <1>1, <1>2, <1>3 DEF Link

LEMMA RouteFinishLink == ASSUME TypeOK, Link, NEW j \in Job, RouteFinish(j) PROVE Link'
<1>1. UNCHANGED <<hello, conn, opened, toOrbit, toAxis, up, task>>
  BY DEF RouteFinish, connVars, orbitVars
<1>2. route' = [route EXCEPT ![j] = Moved(@, "answered")] /\ route[j].pc \in {"lost", "refused"}
  BY DEF RouteFinish
<1>3. \E s \in {"StepIndeterminate", "completed"}, r \in Reason : Reconciled(j, s, r)
  BY DEF RouteFinish, Reason
<1>4. \A k \in Job : /\ route'[k].conn = route[k].conn
                     /\ k # j => route'[k] = route[k] /\ record'[k] = record[k]
                     /\ record'[k].status = "none" => record[k].status = "none"
  BY <1>2, <1>3, SMTT(30) DEF TypeOK, Moved, Reconciled
<1>5. route'[j].pc = "answered"
  BY <1>2 DEF TypeOK, Moved
<1>6. ~(hello.phase = "published" /\ route[j].conn = conn /\ conn # 0)
  BY <1>2 DEF Link, Hellos
<1>7. \A k \in Job :
        /\ route'[k].pc = "none" <=> route[k].pc = "none"
        /\ route'[k].pc = "created" => route[k].pc = "created"
        /\ route'[k].pc = "lost" => route[k].pc = "lost"
        /\ (hello.phase = "published" /\ route[k].conn = conn /\ conn # 0) =>
             record'[k].status = record[k].status /\ route'[k].pc = route[k].pc
  BY <1>2, <1>4, <1>5, <1>6
<1> QED
  BY <1>1, <1>4, <1>7, RecordsLink

LEMMA ReadRespLink == ASSUME TypeOK, Link, ReadResp PROVE Link'
<1> DEFINE m == Head(toAxis)
<1>1. UNCHANGED <<record, hello, conn, opened, toOrbit, up, task>> /\ hello.phase = "through"
  BY DEF ReadResp, Handles, orbitVars
<1>2. m.job \in Job
  BY ReadUpFacts DEF ReadResp, UpMsg, JobFrame, RespFrame, HelloMsg
<1>3. \/ route' = route
      \/ route[m.job].pc = "await"
         /\ route' = [route EXCEPT ![m.job] = Moved(@, IF m.ok THEN "accepted" ELSE "refused")]
  BY DEF ReadResp
<1> HIDE DEF m
<1>4. \A k \in Job : /\ route'[k].conn = route[k].conn
                     /\ \/ route'[k].pc = route[k].pc
                        \/ route[k].pc = "await" /\ route'[k].pc \in {"accepted", "refused"}
  <2>1. CASE route' = route
    BY <2>1
  <2>2. CASE /\ route[m.job].pc = "await"
             /\ route' = [route EXCEPT ![m.job] = Moved(@, IF m.ok THEN "accepted" ELSE "refused")]
    <3>1. /\ \A k \in Job : k # m.job => route'[k] = route[k]
          /\ route'[m.job] = Moved(route[m.job], IF m.ok THEN "accepted" ELSE "refused")
      BY <1>2, <2>2 DEF TypeOK
    <3>2. /\ route'[m.job].conn = route[m.job].conn
          /\ route'[m.job].pc \in {"accepted", "refused"}
      BY <3>1 DEF Moved
    <3> QED
      BY <2>2, <3>1, <3>2
  <2> QED
    BY <1>3, <2>1, <2>2
<1>5. ReadUp("resp")
  BY DEF ReadResp
<1>6. \A k \in Job :
        /\ route'[k].pc = "none" <=> route[k].pc = "none"
        /\ route'[k].pc = "created" => route[k].pc = "created"
        /\ route'[k].pc = "lost" => route[k].pc = "lost"
  BY <1>4
<1> QED
  BY <1>1, <1>4, <1>5, <1>6, RecordsLink

LEMMA ReadJobFrameLink == ASSUME TypeOK, Link, ReadJobFrame PROVE Link'
<1> DEFINE m == Head(toAxis)
<1>1. UNCHANGED <<route, hello, conn, opened, toOrbit, up, task>> /\ hello.phase = "through"
  BY DEF ReadJobFrame, Handles, orbitVars
<1>2. m.job \in Job
  BY ReadUpFacts DEF ReadJobFrame, UpMsg, JobFrame, RespFrame, HelloMsg
<1>3. record' = record \/ \E s \in {"StepIndeterminate", "completed"} : \E r : Reconciled(m.job, s, r)
  BY DEF ReadJobFrame, Store
<1> HIDE DEF m
<1>4. \A k \in Job : record'[k].status = "none" => record[k].status = "none"
  <2>1. CASE record' = record
    BY <2>1
  <2>2. ASSUME NEW s \in {"StepIndeterminate", "completed"}, NEW r, Reconciled(m.job, s, r)
        PROVE  \A k \in Job : record'[k].status = "none" => record[k].status = "none"
    <3>1. \A k \in Job : record'[k] = IF k = m.job THEN [status |-> s, reason |-> r]
                                                  ELSE record[k]
      BY <1>2, <2>2 DEF TypeOK, Reconciled
    <3> QED
      BY <3>1
  <2> QED
    BY <1>3, <2>1, <2>2
<1>5. ReadUp("job")
  BY DEF ReadJobFrame
<1> QED
  BY <1>1, <1>4, <1>5, RecordsLink

LEMMA CancelLink == ASSUME TypeOK, Link, NEW j \in Job, CancelRequest(j) PROVE Link'
<1>1. UNCHANGED <<record, route, hello, conn, opened, toAxis, up, task>>
  BY DEF CancelRequest, axisVars, orbitVars
<1>2. conn # 0
  BY DEF CancelRequest, Published, Link, Connections
<1>3. [kind |-> "cancel", job |-> j] \in DownMsg
  BY DEF DownMsg
<1>4. /\ \A i \in DOMAIN toOrbit' :
           \/ i \in DOMAIN toOrbit /\ toOrbit'[i] = toOrbit[i]
           \/ i = Len(toOrbit) + 1 /\ toOrbit'[i] = [kind |-> "cancel", job |-> j]
      /\ \A i \in DOMAIN toOrbit : i \in DOMAIN toOrbit' /\ toOrbit'[i] = toOrbit[i]
  BY <1>3, SendFacts DEF CancelRequest
<1>5. \A k \in Job, i \in DOMAIN toOrbit' :
        IsDispatch(toOrbit'[i], k) => i \in DOMAIN toOrbit /\ IsDispatch(toOrbit[i], k)
  BY <1>4 DEF IsDispatch
<1>6. \A k \in Job : (OnItsWay(k)' <=> OnItsWay(k)) /\ (Dispatched(k)' <=> Dispatched(k))
  BY <1>1, <1>4, <1>5 DEF OnItsWay, Dispatched
<1>7. Connections'
  BY <1>1, <1>2 DEF Link, Connections
<1>8. Hellos'
  BY <1>1 DEF Link, Hellos
<1>9. Dispatches'
  BY <1>1, <1>5, <1>6 DEF Link, Dispatches
<1> QED
  BY <1>7, <1>8, <1>9 DEF Link

LEMMA ReconcileLink == ASSUME TypeOK, Link, NEW j \in Job, Reconcile(j) PROVE Link'
<1>1. /\ UNCHANGED <<route, conn, opened, toOrbit, toAxis, up, task>>
      /\ hello.phase = "reconcile"
  BY DEF Reconcile, connVars, orbitVars
<1>2. hello'.phase = "reconcile" /\ hello'.conn = hello.conn /\ hello'.pending = hello.pending
  BY DEF Reconcile, Settles
<1>3. \E s \in {"StepIndeterminate", "running", "recovering"} : \E r : Reconciled(j, s, r)
  BY DEF Reconcile
<1>4. \A k \in Job : record'[k].status = "none" => record[k].status = "none"
  <2>1. PICK s \in {"StepIndeterminate", "running", "recovering"} : \E r : Reconciled(j, s, r)
    BY <1>3
  <2>2. PICK r : Reconciled(j, s, r)
    BY <2>1
  <2>3. \A k \in Job : record'[k] = IF k = j THEN [status |-> s, reason |-> r] ELSE record[k]
    BY <2>2 DEF TypeOK, Reconciled
  <2> QED
    BY <2>3
<1>5. \A k \in Job : (OnItsWay(k)' <=> OnItsWay(k)) /\ (Dispatched(k)' <=> Dispatched(k))
  BY <1>1 DEF OnItsWay, Dispatched
<1>6. Connections'
  BY <1>1, <1>2 DEF Link, Connections
<1>7. Hellos'
  BY <1>1, <1>2, <1>4 DEF Link, Hellos
<1>8. Dispatches'
  BY <1>1, <1>2, <1>4, <1>5 DEF Link, Dispatches
<1> QED
  BY <1>6, <1>7, <1>8 DEF Link

LEMMA HelloPublishLink == ASSUME TypeOK, Link, HelloPublish PROVE Link'
<1>1. /\ UNCHANGED <<record, route, conn, opened, toOrbit, up, task>> /\ ReadUp("hello")
      /\ hello'.phase = "published" /\ hello'.conn = conn
  BY DEF HelloPublish, orbitVars
<1>2. toAxis # <<>> /\ conn # 0 /\ conn = opened
  BY <1>1 DEF ReadUp, Link, Connections
<1>3. /\ 1 \in DOMAIN toAxis /\ toAxis[1].kind = "hello" /\ toAxis' \in Seq(UpMsg)
      /\ \A i \in DOMAIN toAxis' : i + 1 \in DOMAIN toAxis /\ toAxis'[i] = toAxis[i + 1]
  BY <1>1, ReadUpFacts
<1>4. hello.conn # conn
  BY <1>3 DEF Link, Hellos
<1>5. \A j \in Job : ~Dispatched(j)
  BY <1>4 DEF Link, Dispatches
<1>6. \A j \in Job : ~Dispatched(j)'
  BY <1>1, <1>5 DEF Dispatched, OnItsWay
<1>7. \A j \in Job : route[j].conn # conn
  BY <1>2, <1>4 DEF Link, Hellos
<1>8. Connections'
  BY <1>1, <1>2 DEF Link, Connections, TypeOK
<1>9. Hellos'
  <2>1. DOMAIN toAxis' \subseteq Nat \ {0}
    BY <1>3, LenProperties
  <2>2. \A i \in DOMAIN toAxis' : toAxis'[i].kind # "hello"
    BY <1>3, <2>1 DEF Link, Hellos
  <2> QED
    BY <1>1, <1>7, <2>2 DEF Link, Hellos
<1>10. Dispatches'
  <2>1. \A j \in Job : OnItsWay(j)' <=> OnItsWay(j)
    BY <1>1 DEF OnItsWay
  <2> QED
    BY <1>1, <1>6, <2>1 DEF Link, Dispatches
<1> QED
  BY <1>8, <1>9, <1>10 DEF Link

LEMMA HelloPickLink == ASSUME TypeOK, Link, HelloPick PROVE Link'
<1>1. /\ UNCHANGED <<record, route, conn, opened, toOrbit, toAxis, up, task>>
      /\ hello.phase = "published" /\ hello'.phase = "reconcile" /\ hello'.conn = hello.conn
      /\ \A j \in hello'.pending : record[j].status = "StepIndeterminate"
  BY DEF HelloPick, connVars, orbitVars
<1>2. conn # 0 /\ hello.conn = conn =>
        \A j \in Job : route[j].conn = conn => record[j].status = "running"
  BY <1>1 DEF Link, Hellos
<1>3. \A j \in Job : (OnItsWay(j)' <=> OnItsWay(j)) /\ (Dispatched(j)' <=> Dispatched(j))
  BY <1>1 DEF OnItsWay, Dispatched
<1>4. Connections'
  BY <1>1 DEF Link, Connections
<1>5. \A j \in Job : Dispatched(j) =>
        /\ hello.conn = conn /\ record[j].status = "running"
        /\ ~(route[j].pc = "created" /\ route[j].conn = conn)
  BY <1>1, <1>2 DEF Link, Dispatches, Dispatched
<1>6. Hellos'
  <2>1. hello.conn # 0
    BY <1>1 DEF Link, Connections
  <2>2. ASSUME NEW j \in Job, hello.conn = conn, j \in hello'.pending
        PROVE  route[j].conn # conn /\ record[j].status # "none"
    BY <1>1, <1>2, <2>1, <2>2
  <2> QED
    BY <1>1, <2>2 DEF Link, Hellos
<1>7. Dispatches'
  BY <1>1, <1>3, <1>5 DEF Link, Dispatches
<1> QED
  BY <1>4, <1>6, <1>7 DEF Link

LEMMA ThreeParts ==
  ASSUME NEW a \in Seq(DownMsg), NEW b \in Seq(DownMsg), NEW c \in Seq(DownMsg)
  PROVE  /\ Len(a) \in Nat /\ Len(b) \in Nat /\ Len(c) \in Nat
         /\ DOMAIN a = 1..Len(a) /\ DOMAIN b = 1..Len(b) /\ DOMAIN c = 1..Len(c)
         /\ DOMAIN ((a \o b) \o c) = 1..(Len(a) + Len(b) + Len(c))
         /\ \A i \in 1..(Len(a) + Len(b) + Len(c)) :
              ((a \o b) \o c)[i] = IF i <= Len(a) THEN a[i]
                                   ELSE IF i <= Len(a) + Len(b) THEN b[i - Len(a)]
                                   ELSE c[i - (Len(a) + Len(b))]
<1>1. /\ Len(a) \in Nat /\ Len(b) \in Nat /\ Len(c) \in Nat
      /\ DOMAIN a = 1..Len(a) /\ DOMAIN b = 1..Len(b) /\ DOMAIN c = 1..Len(c)
  BY LenProperties
<1>2. /\ a \o b \in Seq(DownMsg) /\ Len(a \o b) = Len(a) + Len(b)
      /\ \A i \in 1..(Len(a) + Len(b)) : (a \o b)[i] = IF i <= Len(a) THEN a[i] ELSE b[i - Len(a)]
  BY ConcatProperties
<1> DEFINE ab == a \o b
<1>3. ab \in Seq(DownMsg) /\ Len(ab) = Len(a) + Len(b)
  BY <1>2
<1> HIDE DEF ab
<1>4. /\ ab \o c \in Seq(DownMsg) /\ Len(ab \o c) = Len(ab) + Len(c)
      /\ \A i \in 1..(Len(ab) + Len(c)) : (ab \o c)[i] = IF i <= Len(ab) THEN ab[i] ELSE c[i - Len(ab)]
  <2>1. \A s \in Seq(DownMsg), t \in Seq(DownMsg) :
          /\ s \o t \in Seq(DownMsg) /\ Len(s \o t) = Len(s) + Len(t)
          /\ \A i \in 1..(Len(s) + Len(t)) : (s \o t)[i] = IF i <= Len(s) THEN s[i] ELSE t[i - Len(s)]
    BY ConcatProperties
  <2> QED
    BY <1>3, <2>1
<1>5. DOMAIN (ab \o c) = 1..(Len(a) + Len(b) + Len(c))
  BY <1>3, <1>4, LenProperties
<1>6. \A i \in 1..(Len(a) + Len(b) + Len(c)) :
        (ab \o c)[i] = IF i <= Len(a) THEN a[i]
                       ELSE IF i <= Len(a) + Len(b) THEN b[i - Len(a)]
                       ELSE c[i - (Len(a) + Len(b))]
  BY <1>1, <1>2, <1>3, <1>4 DEF ab
<1> QED
  BY <1>1, <1>5, <1>6 DEF ab

(* The dispatches that the handler repeats are of jobs the connection has not
   dispatched. *)
LEMMA HelloSendLink == ASSUME TypeOK, Link, HelloSend PROVE Link'
<1> DEFINE d == Messages("dispatch", hello.pending)
           r == Messages("resume", hello.runtimes)
           n == Len(toOrbit)
<1>1. /\ UNCHANGED <<record, route, conn, opened, toAxis, up, task>>
      /\ hello.phase = "reconcile" /\ hello'.phase = "through" /\ hello'.conn = hello.conn
      /\ hello.pending \subseteq Job /\ hello.runtimes \subseteq Job
  BY HelloSendFacts DEF HelloSend, orbitVars, Reconciling
<1>2. hello.conn # 0
  BY <1>1 DEF Link, Connections
<1>3. Hellos'
  BY <1>1 DEF Link, Hellos
<1>4. CASE hello.conn # conn
  <2>1. UNCHANGED toOrbit
    BY <1>4, HelloSendFacts
  <2>2. \A j \in Job : (OnItsWay(j)' <=> OnItsWay(j)) /\ (Dispatched(j)' <=> Dispatched(j))
    BY <1>1, <2>1 DEF OnItsWay, Dispatched
  <2>3. Connections'
    BY <1>1, <2>1 DEF Link, Connections
  <2>4. Dispatches'
    BY <1>1, <2>1, <2>2 DEF Link, Dispatches
  <2> QED
    BY <1>3, <2>3, <2>4 DEF Link
<1>5. CASE hello.conn = conn
  <2>1. toOrbit' = (toOrbit \o d) \o r
    BY <1>5, HelloSendFacts
  <2>2. toOrbit \in Seq(DownMsg) /\ d \in Seq(DownMsg) /\ r \in Seq(DownMsg)
    BY <1>1, MessagesFacts DEF TypeOK
  <2>3. /\ \A i \in DOMAIN d : d[i].kind = "dispatch" /\ d[i].job \in hello.pending
        /\ \A i, k \in DOMAIN d : d[i].job = d[k].job => i = k
        /\ \A i \in DOMAIN r : r[i].kind = "resume"
    BY <1>1, MessagesFacts
  <2> HIDE DEF d, r
  <2>4. /\ n \in Nat /\ Len(d) \in Nat /\ Len(r) \in Nat
        /\ DOMAIN toOrbit = 1..n /\ DOMAIN d = 1..Len(d) /\ DOMAIN r = 1..Len(r)
        /\ DOMAIN toOrbit' = 1..(n + Len(d) + Len(r))
        /\ \A i \in 1..(n + Len(d) + Len(r)) :
             toOrbit'[i] = IF i <= n THEN toOrbit[i]
                           ELSE IF i <= n + Len(d) THEN d[i - n] ELSE r[i - (n + Len(d))]
    BY <2>1, <2>2, ThreeParts
  <2> HIDE DEF n
  <2>5. ASSUME NEW j \in Job, NEW i \in DOMAIN toOrbit', IsDispatch(toOrbit'[i], j)
        PROVE  \/ i \in DOMAIN toOrbit /\ IsDispatch(toOrbit[i], j)
               \/ i - n \in DOMAIN d /\ d[i - n].job = j /\ j \in hello.pending
    <3>1. CASE i <= n
      BY <2>4, <2>5, <3>1
    <3>2. CASE i > n /\ i <= n + Len(d)
      BY <2>3, <2>4, <2>5, <3>2 DEF IsDispatch
    <3>3. CASE i > n + Len(d)
      <4>1. i - (n + Len(d)) \in DOMAIN r /\ toOrbit'[i] = r[i - (n + Len(d))]
        BY <2>4, <3>3
      <4> QED
        BY <2>3, <2>5, <4>1 DEF IsDispatch
    <3> QED
      BY <2>4, <3>1, <3>2, <3>3
  <2>6. \A j \in hello.pending : ~Dispatched(j) /\ record[j].status # "none" /\ route[j].conn # conn
    BY <1>1, <1>5 DEF Link, Dispatches, Hellos
  <2>7. \A j \in Job : OnItsWay(j)' => OnItsWay(j) \/ j \in hello.pending
    BY <2>5 DEF OnItsWay
  <2>8. Connections'
    BY <1>1, <1>2, <1>5 DEF Link, Connections
  <2>9. ASSUME NEW j \in Job, Dispatched(j)'
        PROVE  /\ hello'.conn = conn' /\ record'[j].status # "none"
               /\ ~(route'[j].pc = "created" /\ route'[j].conn = conn')
    <3>1. Dispatched(j) \/ j \in hello.pending
      BY <1>1, <2>7, <2>9 DEF Dispatched
    <3> QED
      BY <1>1, <1>5, <2>6, <3>1 DEF Link, Dispatches
  <2>10. ASSUME NEW j \in Job, OnItsWay(j)'
         PROVE  task'[j][conn'] = "none"
    <3>1. CASE OnItsWay(j)
      BY <1>1, <3>1 DEF Link, Dispatches
    <3>2. CASE j \in hello.pending
      BY <1>1, <1>2, <1>5, <2>6, <3>2 DEF Dispatched
    <3> QED
      BY <2>7, <2>10, <3>1, <3>2
  <2>11. ASSUME NEW j \in Job, NEW a \in DOMAIN toOrbit', NEW b \in DOMAIN toOrbit',
                IsDispatch(toOrbit'[a], j), IsDispatch(toOrbit'[b], j)
         PROVE  a = b
    <3>1. CASE j \in hello.pending
      <4>1. ~OnItsWay(j)
        BY <1>2, <1>5, <2>6, <3>1 DEF Dispatched
      <4>2. /\ a - n \in DOMAIN d /\ d[a - n].job = j
            /\ b - n \in DOMAIN d /\ d[b - n].job = j
        BY <2>5, <2>11, <4>1 DEF OnItsWay
      <4> QED
        BY <2>3, <2>4, <4>2
    <3>2. CASE j \notin hello.pending
      BY <2>5, <2>11, <3>2 DEF Link, Dispatches
    <3> QED
      BY <3>1, <3>2
  <2>12. Dispatches'
    BY <1>1, <2>9, <2>10, <2>11 DEF Dispatches
  <2> QED
    BY <1>3, <2>8, <2>12 DEF Link
<1> QED
  BY <1>4, <1>5

LEMMA LinkStep ==
  ASSUME TypeOK, Link, Executions, [Next]_vars
  PROVE  Link'
<1>1. ASSUME NEW j \in Job, NEW c \in Conn, Orbit(j, c) \/ Write(j, c) \/ Exit(j, c)
      PROVE  Link'
  BY <1>1, OrbitQuiet, OtherQuiet, QuietStep
<1>2. ASSUME UNCHANGED vars PROVE Link'
  <2>1. Quiet
    BY <1>2 DEF Quiet, vars, axisVars, connVars, orbitVars
  <2> QED
    BY <2>1, QuietStep
<1>3. ASSUME NEW j \in Job, \/ Replay(j) \/ RouteSend(j) \/ RouteFinish(j) \/ Reconcile(j)
                            \/ RouteCreate(j) \/ CancelRequest(j)
      PROVE  Link'
  BY <1>3, OtherQuiet, QuietStep, RouteSendLink, RouteFinishLink, ReconcileLink,
     RouteCreateLink, CancelLink
<1> QED
  BY <1>1, <1>2, <1>3, Steps, HelloPublishLink, HelloPickLink, HelloSendLink, ReadRespLink,
   ReadJobFrameLink, OrbitReadLink, ConnectLink, OrbitStartLink, LosesStep

-----------------------------------------------------------------------------
(***************************************************************************)
(* The life of an execution, and the result that ends it.                  *)
(***************************************************************************)
\* Nothing happens to the execution's program, unless it is killed.
Kept(j, c) ==
  \/ prog'[j][c] = prog[j][c]
  \/ prog[j][c] \in {"running"} \cup Verdict /\ prog'[j][c] \in Verdict

\* Another execution's step, or one that does not touch what Life is about.
Steady(j, c) ==
  /\ waiter'[j][c] = waiter[j][c] /\ said'[j][c] = said[j][c] /\ heard'[j][c] = heard[j][c]
  /\ (RowOf(j, c)' <=> RowOf(j, c)) /\ (ResultOf(j, c)' <=> ResultOf(j, c))
  /\ Unlaunched(j, c)' => Unlaunched(j, c)
  /\ task'[j][c] \in {"persist", "launch"} <=> task[j][c] \in {"persist", "launch"}
  /\ Kept(j, c) /\ up' = up

LEMMA SteadyLife ==
  ASSUME NEW j \in Job, NEW c \in Conn, Life(j, c), Steady(j, c)
  PROVE  Life(j, c)'
BY DEF Life, Steady, Kept, Ended, Verdict

LEMMA HeldKept ==
  ASSUME TypeOK, NEW j \in Job, Held(j), jobs'[j] \in {jobs[j], 0}, up' = up,
         \A c \in Conn : Kept(j, c)
  PROVE  Held(j)'
<1>1. jobs[j] # 0 => jobs[j] \in Conn
  BY DEF TypeOK, Conn
<1> QED
  BY <1>1 DEF Held, Kept, Verdict

\* A program that is killed is one that was let go.
LEMMA KilledKept ==
  ASSUME TypeOK, Executions, NEW j \in Job, NEW v \in Verdict, prog' = Killed(j, jobs[j], v)
  PROVE  \A k \in Job, d \in Conn : Kept(k, d)
<1>1. jobs[j] # 0 => jobs[j] \in Conn /\ prog[j][jobs[j]] \in {"running"} \cup Verdict
  BY DEF TypeOK, Conn, Executions, Held
<1>2. CASE prog' = prog
  BY <1>2 DEF Kept
<1>3. CASE jobs[j] # 0 /\ prog' = [prog EXCEPT ![j][jobs[j]] = v]
  <2> DEFINE e == jobs[j]
  <2>1. e \in Conn /\ prog[j][e] \in {"running"} \cup Verdict /\ prog' = [prog EXCEPT ![j][e] = v]
    BY <1>1, <1>3
  <2> HIDE DEF e
  <2> QED
    BY <2>1 DEF TypeOK, Kept
<1> QED
  BY <1>2, <1>3 DEF Killed

(* The spool grows by one row of one execution. *)
LEMMA RowsGrow ==
  ASSUME TypeOK, NEW j \in Job, NEW b \in Body, spool' = [spool EXCEPT ![j] = Append(@, b)]
  PROVE  /\ \A k \in Job, d \in Conn : (k # j \/ d # b.of) =>
              (RowOf(k, d)' <=> RowOf(k, d)) /\ (ResultOf(k, d)' <=> ResultOf(k, d))
         /\ ResultOf(j, b.of)' <=> ResultOf(j, b.of) \/ b.kind = "result"
         /\ (ResultIsLast /\ ~ResultOf(j, b.of)) => ResultIsLast'
<1> DEFINE n == Len(spool[j])
<1>1. n \in Nat /\ DOMAIN spool[j] = 1..n /\ spool[j] \in Seq(Body)
  BY LenProperties DEF TypeOK
<1>2. /\ \A k \in Job : k # j => spool'[k] = spool[k]
      /\ spool'[j] = Append(spool[j], b)
  BY DEF TypeOK
<1>3. /\ DOMAIN spool'[j] = 1..(n + 1) /\ spool'[j][n + 1] = b
      /\ \A i \in 1..n : spool'[j][i] = spool[j][i]
  BY <1>1, <1>2, AppendProperties, LenProperties
<1> HIDE DEF n
<1>4. \A k \in Job, d \in Conn : (k # j \/ d # b.of) =>
        (RowOf(k, d)' <=> RowOf(k, d)) /\ (ResultOf(k, d)' <=> ResultOf(k, d))
  <2>1. ASSUME NEW k \in Job, NEW d \in Conn, k # j
        PROVE  (RowOf(k, d)' <=> RowOf(k, d)) /\ (ResultOf(k, d)' <=> ResultOf(k, d))
    BY <1>2, <2>1 DEF RowOf, ResultOf
  <2>2. ASSUME NEW d \in Conn, d # b.of
        PROVE  (RowOf(j, d)' <=> RowOf(j, d)) /\ (ResultOf(j, d)' <=> ResultOf(j, d))
    <3>1. \A i \in 1..(n + 1) : spool'[j][i].of = d => i \in 1..n
      BY <1>1, <1>3, <2>2
    <3>2. 1..n \subseteq 1..(n + 1)
      BY <1>1
    <3> QED
      BY <1>1, <1>3, <3>1, <3>2 DEF RowOf, ResultOf
  <2> QED
    BY <2>1, <2>2
<1>5. ResultOf(j, b.of)' <=> ResultOf(j, b.of) \/ b.kind = "result"
  <2>1. 1..(n + 1) = (1..n) \cup {n + 1}
    BY <1>1
  <2> QED
    BY <1>1, <1>3, <2>1 DEF ResultOf
<1>6. ASSUME ResultIsLast, ~ResultOf(j, b.of),
             NEW k \in Job, NEW x \in DOMAIN spool'[k], NEW y \in DOMAIN spool'[k],
             x < y, spool'[k][x].kind = "result"
      PROVE  spool'[k][x].of # spool'[k][y].of
  <2>1. CASE k # j
    BY <1>2, <1>6, <2>1 DEF ResultIsLast
  <2>2. CASE k = j /\ y \in 1..n
    BY <1>1, <1>3, <1>6, <2>2 DEF ResultIsLast
  <2>3. CASE k = j /\ y = n + 1
    <3>1. x \in 1..n /\ spool'[j][x] = spool[j][x]
      BY <1>1, <1>3, <1>6, <2>3
    <3>2. spool[j][x].of # b.of
      BY <1>1, <1>6, <2>3, <3>1 DEF ResultOf
    <3> QED
      BY <1>3, <2>3, <3>1, <3>2
  <2> QED
    BY <1>1, <1>3, <2>1, <2>2, <2>3
<1>7. (ResultIsLast /\ ~ResultOf(j, b.of)) => ResultIsLast'
  BY <1>6 DEF ResultIsLast
<1> QED
  BY <1>4, <1>5, <1>7

LEMMA SteadyWhen ==
  ASSUME NEW j \in Job, NEW c \in Conn, UNCHANGED <<conn, opened, up>>,
         task'[j][c] = task[j][c], waiter'[j][c] = waiter[j][c], said'[j][c] = said[j][c],
         heard'[j][c] = heard[j][c], RowOf(j, c)' <=> RowOf(j, c),
         ResultOf(j, c)' <=> ResultOf(j, c), Kept(j, c)
  PROVE  Steady(j, c)
BY DEF Steady, Unlaunched

LEMMA SameRows ==
  ASSUME UNCHANGED spool
  PROVE  /\ \A j \in Job, c \in Conn :
              (RowOf(j, c)' <=> RowOf(j, c)) /\ (ResultOf(j, c)' <=> ResultOf(j, c))
         /\ ResultIsLast => ResultIsLast'
BY DEF RowOf, ResultOf, ResultIsLast

LEMMA AllSteady ==
  ASSUME TypeOK, Executions, \A j \in Job, c \in Conn : Steady(j, c),
         \A j \in Job : jobs'[j] \in {jobs[j], 0}, up' = up
  PROVE  Executions'
<1>1. \A j \in Job, c \in Conn : Life(j, c)'
  BY SteadyLife DEF Executions
<1>2. \A j \in Job : Held(j)'
  BY HeldKept DEF Executions, Steady
<1> QED
  BY <1>1, <1>2 DEF Executions

LEMMA OneMoves ==
  ASSUME TypeOK, Executions, NEW j \in Job, NEW c \in Conn, Life(j, c)', Held(j)', up' = up,
         \A k \in Job, d \in Conn : (k # j \/ d # c) => Steady(k, d),
         \A k \in Job : k # j => jobs'[k] = jobs[k]
  PROVE  Executions'
<1>1. \A k \in Job, d \in Conn : Life(k, d)'
  BY SteadyLife DEF Executions
<1>2. ASSUME NEW k \in Job, k # j PROVE Held(k)'
  <2>1. \A d \in Conn : Kept(k, d)
    BY <1>2 DEF Steady
  <2>2. Held(k) /\ jobs'[k] \in {jobs[k], 0}
    BY <1>2 DEF Executions
  <2> QED
    BY <2>1, <2>2, HeldKept
<1> QED
  BY <1>1, <1>2 DEF Executions

(* A dispatch task that goes on, and starts nothing. *)
GoesOn(p, q) ==
  \/ p = "none" /\ q = "check"
  \/ p = "check" /\ q \in {"respond", "record", "refuse"}
  \/ p = "record" /\ q = "spawn"
  \/ p = "spawn" /\ q = "refuse"
  \/ p = "persist" /\ q = "launch"
  \/ p \in {"respond", "refuse"} /\ q = "done"

LEMMA TaskSteady ==
  ASSUME TypeOK, Executions, NEW j \in Job, NEW c \in Conn, NEW p, Goto(j, c, p),
         GoesOn(task[j][c], p), task[j][c] # "none" \/ c = conn,
         UNCHANGED <<conn, opened, up, waiter, said, heard, spool, jobs>>,
         \A k \in Job, d \in Conn : Kept(k, d)
  PROVE  Executions'
<1>1. \A k \in Job, d \in Conn :
        (RowOf(k, d)' <=> RowOf(k, d)) /\ (ResultOf(k, d)' <=> ResultOf(k, d))
  BY SameRows
<1>2. \A k \in Job, d \in Conn : task'[k][d] = IF k = j /\ d = c THEN p ELSE task[k][d]
  BY DEF TypeOK, Goto
<1>3. \A k \in Job, d \in Conn : (k # j \/ d # c) => Steady(k, d)
  BY <1>1, <1>2, SteadyWhen
<1>4. Steady(j, c)
  BY <1>1, <1>2 DEF Steady, Unlaunched, GoesOn
<1>5. \A k \in Job, d \in Conn : Steady(k, d)
  BY <1>3, <1>4
<1> QED
  BY <1>5, AllSteady

LEMMA CheckLife ==
  ASSUME TypeOK, Executions, NEW j \in Job, NEW c \in Conn,
         Check(j, c) \/ Record(j, c) \/ Persist(j, c) \/ Respond(j, c)
  PROVE  Executions'
<1>1. /\ UNCHANGED <<conn, opened, up, waiter, said, heard, spool, jobs, prog>>
      /\ task[j][c] # "none" /\ \E p : GoesOn(task[j][c], p) /\ Goto(j, c, p)
  BY DEF Check, Record, Persist, Respond, At, GoesOn, connVars, progVars
<1>2. \A k \in Job, d \in Conn : Kept(k, d)
  BY <1>1 DEF Kept
<1> QED
  BY <1>1, <1>2, TaskSteady

LEMMA SpawnLife ==
  ASSUME TypeOK, Executions, NEW j \in Job, NEW c \in Conn, Spawn(j, c)
  PROVE  Executions'
<1>1. /\ UNCHANGED <<conn, opened, up, waiter, said, heard, spool, jobs>>
      /\ task[j][c] = "spawn"
  BY DEF Spawn, At, connVars
<1>2. CASE Goto(j, c, "persist") /\ prog' = [prog EXCEPT ![j][c] = "gated"]
  <2>1. \A k \in Job, d \in Conn :
          /\ prog'[k][d] = IF k = j /\ d = c THEN "gated" ELSE prog[k][d]
          /\ task'[k][d] = IF k = j /\ d = c THEN "persist" ELSE task[k][d]
    BY <1>2 DEF TypeOK, Goto
  <2>2. \A k \in Job, d \in Conn :
          (RowOf(k, d)' <=> RowOf(k, d)) /\ (ResultOf(k, d)' <=> ResultOf(k, d))
    BY <1>1, SameRows
  <2>3. \A k \in Job, d \in Conn : (k # j \/ d # c) => Steady(k, d)
    BY <1>1, <2>1, <2>2, SteadyWhen DEF Kept
  <2>4. Life(j, c) /\ Held(j)
    BY DEF Executions
  <2>5. Life(j, c)'
    <3>1. waiter[j][c] = "off" /\ said[j][c] = 0 /\ heard[j][c] = 0 /\ ~RowOf(j, c)
          /\ ~ResultOf(j, c)
      BY <1>1, <2>4 DEF Life, Unlaunched, RowOf, ResultOf
    <3> QED
      BY <1>1, <2>1, <2>2, <3>1 DEF Life
  <2>6. Held(j)'
    <3>1. jobs[j] # 0 => jobs[j] \in Conn /\ jobs[j] # c
      BY <1>1, <2>4 DEF TypeOK, Conn, Held, Life, Unlaunched, Verdict
    <3> QED
      BY <1>1, <2>1, <2>4, <3>1 DEF Held
  <2> QED
    BY <1>1, <2>3, <2>5, <2>6, OneMoves
<1>3. CASE Goto(j, c, "refuse") /\ MarkIndeterminate(j, "spawn_failed")
  <2>1. \A k \in Job, d \in Conn : Kept(k, d)
    BY <1>3, KilledKept DEF MarkIndeterminate, Verdict
  <2>2. GoesOn(task[j][c], "refuse")
    BY <1>1 DEF GoesOn
  <2> QED
    BY <1>1, <1>3, <2>1, <2>2, TaskSteady
<1> QED
  BY <1>2, <1>3 DEF Spawn

LEMMA LaunchLife ==
  ASSUME TypeOK, Executions, NEW j \in Job, NEW c \in Conn, Launch(j, c)
  PROVE  Executions'
<1>1. UNCHANGED <<conn, opened, up, said, heard, spool>> /\ task[j][c] = "launch" /\ up
  BY DEF Launch, At, connVars
<1>2. \A k \in Job, d \in Conn :
        (RowOf(k, d)' <=> RowOf(k, d)) /\ (ResultOf(k, d)' <=> ResultOf(k, d))
  BY <1>1, SameRows
<1>3. Life(j, c) /\ Held(j)
  BY DEF Executions
<1>4. /\ waiter[j][c] = "off" /\ said[j][c] = 0 /\ heard[j][c] = 0 /\ ~RowOf(j, c)
      /\ ~ResultOf(j, c) /\ prog[j][c] \in {"none", "gated"}
  BY <1>1, <1>3 DEF Life, Unlaunched, RowOf, ResultOf
<1>5. CASE /\ prog' = [prog EXCEPT ![j][c] = "running"]
           /\ jobs' = [jobs EXCEPT ![j] = c]
           /\ waiter' = [waiter EXCEPT ![j][c] = "watching"]
           /\ Goto(j, c, "respond")
  <2>1. /\ \A k \in Job, d \in Conn :
             /\ prog'[k][d] = IF k = j /\ d = c THEN "running" ELSE prog[k][d]
             /\ task'[k][d] = IF k = j /\ d = c THEN "respond" ELSE task[k][d]
             /\ waiter'[k][d] = IF k = j /\ d = c THEN "watching" ELSE waiter[k][d]
        /\ \A k \in Job : jobs'[k] = IF k = j THEN c ELSE jobs[k]
    BY <1>5 DEF TypeOK, Goto
  <2>2. \A k \in Job, d \in Conn : (k # j \/ d # c) => Steady(k, d)
    BY <1>1, <1>2, <2>1, SteadyWhen DEF Kept
  <2>3. Life(j, c)'
    BY <1>1, <1>2, <1>4, <2>1 DEF Life, Unlaunched
  <2>4. Held(j)'
    BY <1>1, <2>1 DEF Held
  <2> QED
    BY <1>1, <2>1, <2>2, <2>3, <2>4, OneMoves
<1>6. CASE prog' = [prog EXCEPT ![j][c] = "none"] /\ Goto(j, c, "refuse") /\ UNCHANGED <<jobs, waiter>>
  <2>1. \A k \in Job, d \in Conn :
          /\ prog'[k][d] = IF k = j /\ d = c THEN "none" ELSE prog[k][d]
          /\ task'[k][d] = IF k = j /\ d = c THEN "refuse" ELSE task[k][d]
    BY <1>6 DEF TypeOK, Goto
  <2>2. \A k \in Job, d \in Conn : (k # j \/ d # c) => Steady(k, d)
    BY <1>1, <1>2, <1>6, <2>1, SteadyWhen DEF Kept
  <2>3. Life(j, c)'
    BY <1>1, <1>2, <1>4, <1>6, <2>1 DEF Life, Unlaunched
  <2>4. Held(j)'
    <3>1. jobs[j] # 0 => jobs[j] \in Conn /\ jobs[j] # c
      BY <1>3, <1>4 DEF TypeOK, Conn, Held, Verdict
    <3> QED
      BY <1>1, <1>3, <1>6, <2>1, <3>1 DEF Held
  <2> QED
    BY <1>1, <1>6, <2>2, <2>3, <2>4, OneMoves
<1> QED
  BY <1>5, <1>6 DEF Launch

LEMMA ProgramLife ==
  ASSUME TypeOK, Executions, NEW j \in Job, NEW c \in Conn, Write(j, c) \/ Exit(j, c)
  PROVE  Executions'
<1>1. UNCHANGED <<conn, opened, up, heard, spool, jobs, task, waiter>> /\ prog[j][c] = "running"
  BY DEF Write, Exit, connVars, orbitVars
<1>2. \A k \in Job, d \in Conn :
        (RowOf(k, d)' <=> RowOf(k, d)) /\ (ResultOf(k, d)' <=> ResultOf(k, d))
  BY <1>1, SameRows
<1>3. CASE said' = [said EXCEPT ![j][c] = @ + 1] /\ UNCHANGED prog
  <2>1. \A k \in Job, d \in Conn :
          said'[k][d] = IF k = j /\ d = c THEN said[j][c] + 1 ELSE said[k][d]
    BY <1>3 DEF TypeOK
  <2>2. \A k \in Job, d \in Conn : (k # j \/ d # c) => Steady(k, d)
    BY <1>1, <1>2, <1>3, <2>1, SteadyWhen DEF Kept
  <2>3. Life(j, c) /\ Held(j) /\ said[j][c] \in Nat /\ heard[j][c] \in Nat
    BY DEF Executions, TypeOK
  <2>4. Life(j, c)'
    BY <1>1, <1>2, <1>3, <2>1, <2>3 DEF Life, Unlaunched, Ended, Verdict
  <2>5. Held(j)'
    BY <1>1, <1>3, <2>3 DEF Held
  <2> QED
    BY <1>1, <2>2, <2>4, <2>5, OneMoves
<1>4. CASE UNCHANGED said /\ \E v \in {"succeeded", "failed"} : prog' = [prog EXCEPT ![j][c] = v]
  <2>1. \A k \in Job, d \in Conn : Kept(k, d)
    BY <1>1, <1>4 DEF TypeOK, Kept, Verdict
  <2>2. \A k \in Job, d \in Conn : Steady(k, d)
    BY <1>1, <1>2, <1>4, <2>1, SteadyWhen
  <2> QED
    BY <1>1, <2>2, AllSteady
<1> QED
  BY <1>3, <1>4 DEF Write, Exit

LEMMA HearLife ==
  ASSUME TypeOK, Executions, ResultIsLast, NEW j \in Job, NEW c \in Conn, Hear(j, c)
  PROVE  Executions' /\ ResultIsLast'
<1>1. /\ UNCHANGED <<conn, opened, up, said, jobs, task, waiter>>
      /\ up /\ waiter[j][c] # "off" /\ heard[j][c] < said[j][c]
      /\ said[j][c] \in Nat /\ heard[j][c] \in Nat
  BY DEF Hear, TypeOK
<1>2. Life(j, c) /\ Held(j)
  BY DEF Executions
<1>3. ~ResultOf(j, c) /\ ~Unlaunched(j, c) /\ waiter[j][c] = "watching"
  BY <1>1, <1>2 DEF Life, TypeOK, WaiterPc
<1>4. \E n \in Nat : n <= said[j][c] /\ heard' = [heard EXCEPT ![j][c] = n]
  BY <1>1 DEF Hear
<1>5. /\ \A k \in Job, d \in Conn : (k # j \/ d # c) => heard'[k][d] = heard[k][d]
      /\ heard'[j][c] <= said[j][c]
  BY <1>4 DEF TypeOK
<1>6. \A k \in Job, d \in Conn : Kept(k, d)
  <2>1. CASE UNCHANGED prog
    BY <2>1 DEF Kept
  <2>2. CASE SpoolFails(j, c)
    BY <2>2, KilledKept DEF SpoolFails, MarkIndeterminate, Verdict
  <2> QED
    BY <2>1, <2>2 DEF Hear
<1>7. /\ \A k \in Job, d \in Conn : (k # j \/ d # c) =>
           (RowOf(k, d)' <=> RowOf(k, d)) /\ (ResultOf(k, d)' <=> ResultOf(k, d))
      /\ ~ResultOf(j, c)' /\ ResultIsLast'
  <2>1. CASE UNCHANGED spool
    BY <1>3, <2>1, SameRows
  <2>2. CASE SpoolRow(j, c, [kind |-> "output", of |-> c])
    <3> DEFINE b == [kind |-> "output", of |-> c]
    <3>1. b \in Body /\ b.of = c /\ b.kind # "result"
      BY DEF Body
    <3>2. spool' = [spool EXCEPT ![j] = Append(@, b)]
      BY <2>2 DEF SpoolRow
    <3> HIDE DEF b
    <3> QED
      BY <1>3, <3>1, <3>2, RowsGrow
  <2> QED
    BY <2>1, <2>2 DEF Hear, SpoolFails
<1>8. \A k \in Job, d \in Conn : (k # j \/ d # c) => Steady(k, d)
  BY <1>1, <1>5, <1>6, <1>7, SteadyWhen
<1>9. Life(j, c)'
  BY <1>1, <1>2, <1>3, <1>5, <1>6, <1>7 DEF Life, Kept, Unlaunched, Verdict
<1>10. Held(j)'
  BY <1>1, <1>2, <1>6, HeldKept
<1> QED
  BY <1>1, <1>7, <1>8, <1>9, <1>10, OneMoves

LEMMA ConcludeLife ==
  ASSUME TypeOK, Executions, ResultIsLast, NEW j \in Job, NEW c \in Conn, Conclude(j, c)
  PROVE  Executions' /\ ResultIsLast'
<1>1. /\ UNCHANGED <<conn, opened, up, said, heard, task>>
      /\ up /\ waiter[j][c] = "watching" /\ prog[j][c] \in Ended /\ heard[j][c] = said[j][c]
      /\ jobs' = [jobs EXCEPT ![j] = 0]
  BY DEF Conclude, HandResult
<1>2. Life(j, c) /\ Held(j)
  BY DEF Executions
<1>3. ~ResultOf(j, c) /\ ~Unlaunched(j, c) /\ prog[j][c] \in Verdict
  BY <1>1, <1>2 DEF Life, Ended, Verdict
<1>4. \A k \in Job, d \in Conn : Kept(k, d)
  <2>1. CASE UNCHANGED prog
    BY <2>1 DEF Kept
  <2>2. CASE SpoolFails(j, c)
    BY <2>2, KilledKept DEF SpoolFails, MarkIndeterminate, Verdict
  <2> QED
    BY <2>1, <2>2 DEF Conclude, HandResult
<1>5. prog'[j][c] \in Verdict
  BY <1>3, <1>4 DEF Kept
<1>6. \E w \in {"spooled", "unspooled"} :
        /\ waiter' = [waiter EXCEPT ![j][c] = w]
        /\ \/ w = "spooled"
              /\ SpoolRow(j, c, [kind |-> "result", of |-> c, verdict |-> prog[j][c]])
           \/ w = "unspooled" /\ UNCHANGED spool
  BY DEF Conclude, HandResult, SpoolFails
<1>7. PICK w \in {"spooled", "unspooled"} :
        /\ waiter' = [waiter EXCEPT ![j][c] = w]
        /\ \/ w = "spooled"
              /\ SpoolRow(j, c, [kind |-> "result", of |-> c, verdict |-> prog[j][c]])
           \/ w = "unspooled" /\ UNCHANGED spool
  BY <1>6
<1>8. /\ \A k \in Job, d \in Conn : (k # j \/ d # c) =>
           (RowOf(k, d)' <=> RowOf(k, d)) /\ (ResultOf(k, d)' <=> ResultOf(k, d))
      /\ w = "spooled" => ResultOf(j, c)'
      /\ ResultIsLast'
  <2>1. CASE w = "unspooled" /\ UNCHANGED spool
    BY <2>1, SameRows
  <2>2. CASE w = "spooled" /\ SpoolRow(j, c, [kind |-> "result", of |-> c, verdict |-> prog[j][c]])
    <3> DEFINE b == [kind |-> "result", of |-> c, verdict |-> prog[j][c]]
    <3>1. b \in Body /\ b.of = c /\ b.kind = "result"
      BY <1>3 DEF Body
    <3>2. spool' = [spool EXCEPT ![j] = Append(@, b)]
      BY <2>2 DEF SpoolRow
    <3> HIDE DEF b
    <3> QED
      BY <1>3, <3>1, <3>2, RowsGrow
  <2> QED
    BY <1>7, <2>1, <2>2
<1>9. /\ \A k \in Job, d \in Conn :
           waiter'[k][d] = IF k = j /\ d = c THEN w ELSE waiter[k][d]
      /\ \A k \in Job : jobs'[k] = IF k = j THEN 0 ELSE jobs[k]
  BY <1>1, <1>7 DEF TypeOK
<1>10. \A k \in Job, d \in Conn : (k # j \/ d # c) => Steady(k, d)
  BY <1>1, <1>4, <1>8, <1>9, SteadyWhen
<1>11. Life(j, c)'
  BY <1>1, <1>2, <1>3, <1>4, <1>5, <1>8, <1>9 DEF Life, Unlaunched, Ended, Kept, Verdict
<1>12. Held(j)'
  BY <1>9 DEF Held
<1> QED
  BY <1>1, <1>8, <1>9, <1>10, <1>11, <1>12, OneMoves

LEMMA CloseLife ==
  ASSUME TypeOK, Executions, NEW j \in Job, NEW c \in Conn, CloseAttempt(j, c)
  PROVE  Executions'
<1>1. /\ UNCHANGED <<conn, opened, up, said, heard, spool, jobs, task>>
      /\ waiter[j][c] \in {"spooled", "unspooled"} /\ up
      /\ waiter' = [waiter EXCEPT ![j][c] = "done"]
  BY DEF CloseAttempt, connVars
<1>2. \A k \in Job, d \in Conn : Kept(k, d)
  <2>1. CASE UNCHANGED prog
    BY <2>1 DEF Kept
  <2>2. CASE MarkIndeterminate(j, "spool_loss")
    BY <2>2, KilledKept DEF MarkIndeterminate, Verdict
  <2> QED
    BY <2>1, <2>2 DEF CloseAttempt
<1>3. \A k \in Job, d \in Conn :
        (RowOf(k, d)' <=> RowOf(k, d)) /\ (ResultOf(k, d)' <=> ResultOf(k, d))
  BY <1>1, SameRows
<1>4. \A k \in Job, d \in Conn :
        waiter'[k][d] = IF k = j /\ d = c THEN "done" ELSE waiter[k][d]
  BY <1>1 DEF TypeOK
<1>5. \A k \in Job, d \in Conn : (k # j \/ d # c) => Steady(k, d)
  BY <1>1, <1>2, <1>3, <1>4, SteadyWhen
<1>6. Life(j, c) /\ Held(j)
  BY DEF Executions
<1>7. Life(j, c)'
  BY <1>1, <1>2, <1>3, <1>4, <1>6 DEF Life, Unlaunched, Ended, Kept, Verdict
<1>8. Held(j)'
  BY <1>1, <1>2, <1>6, HeldKept
<1> QED
  BY <1>1, <1>5, <1>7, <1>8, OneMoves

(* A dispatch starts a task where there was none. *)
LEMMA OrbitReadLife == ASSUME TypeOK, Link, Executions, OrbitRead PROVE Executions'
<1> DEFINE m == Head(toOrbit)
<1>1. /\ UNCHANGED <<conn, opened, up, said, heard, spool, jobs, waiter>>
      /\ m.job \in Job /\ conn \in Conn /\ m = toOrbit[1] /\ 1 \in DOMAIN toOrbit
  <2>1. m \in DownMsg /\ m = toOrbit[1] /\ 1 \in DOMAIN toOrbit
    BY ReadDownFacts
  <2>2. conn \in Conn
    BY OrbitReadFacts DEF Link
  <2>3. m.job \in Job
    BY <2>1 DEF DownMsg
  <2> HIDE DEF m
  <2> QED
    BY <2>1, <2>2, <2>3 DEF OrbitRead
<1>2. \A k \in Job, d \in Conn :
        (RowOf(k, d)' <=> RowOf(k, d)) /\ (ResultOf(k, d)' <=> ResultOf(k, d))
  BY <1>1, SameRows
<1>3. CASE m.kind = "dispatch" /\ Goto(m.job, conn, "check") /\ UNCHANGED prog
  <2>1. task[m.job][conn] = "none"
    BY <1>1, <1>3 DEF Link, Dispatches, OnItsWay, IsDispatch
  <2>2. \A k \in Job, d \in Conn : Kept(k, d)
    BY <1>3 DEF Kept
  <2>3. GoesOn(task[m.job][conn], "check")
    BY <2>1 DEF GoesOn
  <2> HIDE DEF m
  <2> QED
    BY <1>1, <1>3, <2>1, <2>2, <2>3, TaskSteady
<1>4. CASE UNCHANGED task /\ (UNCHANGED prog \/ prog' = Killed(m.job, jobs[m.job], "cancelled"))
  <2>1. \A k \in Job, d \in Conn : Kept(k, d)
    BY <1>1, <1>4, KilledKept DEF Kept, Verdict
  <2>2. \A k \in Job, d \in Conn : Steady(k, d)
    BY <1>1, <1>2, <1>4, <2>1, SteadyWhen
  <2> QED
    BY <1>1, <2>2, AllSteady
<1> QED
  BY <1>3, <1>4 DEF OrbitRead

(* Steps that touch neither an execution nor the spool, and lose or open a
   connection at most. *)
LEMMA LinkLife ==
  ASSUME TypeOK, Link, Executions, ResultIsLast,
         UNCHANGED <<up, task, waiter, said, heard, spool, jobs, prog>>,
         \/ UNCHANGED <<conn, opened>>
         \/ conn' = 0 /\ opened' = opened
         \/ conn' = opened + 1 /\ opened' = opened + 1
  PROVE  Executions' /\ ResultIsLast'
<1>1. ResultIsLast' /\ \A k \in Job, d \in Conn :
        (RowOf(k, d)' <=> RowOf(k, d)) /\ (ResultOf(k, d)' <=> ResultOf(k, d))
  BY SameRows
<1>2. ASSUME NEW k \in Job, NEW d \in Conn, Unlaunched(k, d)'
      PROVE  Unlaunched(k, d)
  <2>1. d \in Nat \ {0} /\ opened \in Nat
    BY DEF Conn, TypeOK
  <2> QED
    BY <1>2, <2>1 DEF Unlaunched
<1>3. \A k \in Job, d \in Conn : Steady(k, d)
  BY <1>1, <1>2 DEF Steady, Kept
<1> QED
  BY <1>1, <1>3, AllSteady

LEMMA OrbitCrashLife ==
  ASSUME TypeOK, Link, Executions, ResultIsLast, OrbitCrash
  PROVE  Executions' /\ ResultIsLast'
<1>1. /\ UNCHANGED <<opened, said, heard, spool>> /\ conn' = 0 /\ ~up'
      /\ \A k \in Job : jobs'[k] = 0
      /\ \A k \in Job, d \in Conn :
           /\ task'[k][d] = "none" /\ waiter'[k][d] = "off"
           /\ prog'[k][d] = IF prog[k][d] = "gated" THEN "none" ELSE prog[k][d]
  BY DEF OrbitCrash, LoseConnection, PerExecution
<1>2. ResultIsLast' /\ \A k \in Job, d \in Conn :
        (RowOf(k, d)' <=> RowOf(k, d)) /\ (ResultOf(k, d)' <=> ResultOf(k, d))
  BY <1>1, SameRows
<1>3. ASSUME NEW k \in Job, NEW d \in Conn PROVE Life(k, d)'
  <2>1. Life(k, d)
    BY DEF Executions
  <2>2. Unlaunched(k, d)' => Unlaunched(k, d)
    <3>1. d \in Nat \ {0} /\ opened \in Nat
      BY DEF Conn, TypeOK
    <3>2. task[k][d] # "none" => d <= opened
      BY DEF Link, Connections
    <3> QED
      BY <1>1, <3>1, <3>2 DEF Unlaunched
  <2> QED
    BY <1>1, <1>2, <2>1, <2>2 DEF Life, Ended, Verdict
<1>4. \A k \in Job : Held(k)'
  BY <1>1 DEF Held
<1> QED
  BY <1>2, <1>3, <1>4 DEF Executions

LEMMA OrbitStartLife ==
  ASSUME TypeOK, Executions, ResultIsLast, OrbitStart
  PROVE  Executions' /\ ResultIsLast'
<1>1. /\ UNCHANGED <<conn, opened, said, heard, spool, task, waiter, jobs>> /\ ~up /\ up'
      /\ \A k \in Job, d \in Conn :
           \/ prog'[k][d] = prog[k][d]
           \/ prog[k][d] = "running" /\ prog'[k][d] = "killed"
  BY DEF OrbitStart, connVars
<1>2. ResultIsLast' /\ \A k \in Job, d \in Conn :
        (RowOf(k, d)' <=> RowOf(k, d)) /\ (ResultOf(k, d)' <=> ResultOf(k, d))
  BY <1>1, SameRows
<1>3. ASSUME NEW k \in Job, NEW d \in Conn PROVE Life(k, d)'
  <2>1. Life(k, d) /\ waiter[k][d] = "off"
    BY <1>1 DEF Executions, Life
  <2>2. Unlaunched(k, d)' => Unlaunched(k, d)
    BY <1>1 DEF Unlaunched
  <2> QED
    BY <1>1, <1>2, <2>1, <2>2 DEF Life, Ended, Verdict
<1>4. \A k \in Job : Held(k)'
  BY <1>1 DEF Executions, Held
<1> QED
  BY <1>2, <1>3, <1>4 DEF Executions

LEMMA LifeStep ==
  ASSUME TypeOK, Link, Executions, ResultIsLast, [Next]_vars
  PROVE  Executions' /\ ResultIsLast'
<1>1. ASSUME NEW j \in Job, NEW c \in Conn, Orbit(j, c) \/ Write(j, c) \/ Exit(j, c)
      PROVE  Executions' /\ ResultIsLast'
  <2>1. CASE Check(j, c) \/ Record(j, c) \/ Persist(j, c) \/ Respond(j, c)
    <3>1. UNCHANGED spool
      BY <2>1 DEF Check, Record, Persist, Respond
    <3> QED
      BY <2>1, <3>1, CheckLife, SameRows
  <2>2. CASE Spawn(j, c)
    <3>1. UNCHANGED spool
      BY <2>2 DEF Spawn
    <3> QED
      BY <2>2, <3>1, SpawnLife, SameRows
  <2>3. CASE Launch(j, c)
    <3>1. UNCHANGED spool
      BY <2>3 DEF Launch
    <3> QED
      BY <2>3, <3>1, LaunchLife, SameRows
  <2>4. CASE CloseAttempt(j, c)
    <3>1. UNCHANGED spool
      BY <2>4 DEF CloseAttempt
    <3> QED
      BY <2>4, <3>1, CloseLife, SameRows
  <2>5. CASE Write(j, c) \/ Exit(j, c)
    <3>1. UNCHANGED spool
      BY <2>5 DEF Write, Exit, orbitVars
    <3> QED
      BY <2>5, <3>1, ProgramLife, SameRows
  <2> QED
    BY <1>1, <2>1, <2>2, <2>3, <2>4, <2>5, HearLife, ConcludeLife DEF Orbit
<1>2. CASE OrbitRead
  <2>1. UNCHANGED spool
    BY <1>2 DEF OrbitRead
  <2> QED
    BY <1>2, <2>1, OrbitReadLife, SameRows
<1>3. ASSUME NEW j \in Job, \/ Replay(j) \/ RouteSend(j) \/ RouteFinish(j) \/ Reconcile(j)
                            \/ RouteCreate(j) \/ CancelRequest(j)
      PROVE  Executions' /\ ResultIsLast'
  <2>1. UNCHANGED <<up, task, waiter, said, heard, spool, jobs, prog, conn, opened>>
    BY <1>3 DEF Replay, RouteSend, RouteFinish, Reconcile, RouteCreate, CancelRequest,
                orbitVars, progVars, connVars
  <2> QED
    BY <2>1, LinkLife
<1>4. CASE HelloPublish \/ HelloPick \/ HelloSend \/ ReadResp \/ ReadJobFrame \/ UNCHANGED vars
  <2>1. UNCHANGED <<up, task, waiter, said, heard, spool, jobs, prog, conn, opened>>
    BY <1>4 DEF HelloPublish, HelloPick, HelloSend, ReadResp, ReadJobFrame, orbitVars,
                progVars, connVars, vars
  <2> QED
    BY <2>1, LinkLife
<1>5. CASE Connect \/ Disconnect \/ AxisRestart
  <2>1. /\ UNCHANGED <<up, task, waiter, said, heard, spool, jobs, prog>>
        /\ \/ conn' = 0 /\ opened' = opened
           \/ conn' = opened + 1 /\ opened' = opened + 1
    BY <1>5 DEF Connect, Disconnect, AxisRestart, LoseConnection, orbitVars, progVars
  <2> QED
    BY <2>1, LinkLife
<1> QED
  BY <1>1, <1>2, <1>3, <1>4, <1>5, Steps, OrbitCrashLife, OrbitStartLife

-----------------------------------------------------------------------------
(***************************************************************************)
(* The frames are rows, and a recorded verdict is the one of a stored row. *)
(***************************************************************************)
Grown ==
  \A j \in Job : /\ Len(spool[j]) <= Len(spool'[j]) /\ DOMAIN spool[j] \subseteq DOMAIN spool'[j]
                 /\ \A i \in DOMAIN spool[j] : spool'[j][i] = spool[j][i]

LEMMA StoredStep ==
  ASSUME TypeOK, TypeOK', Frames, VerdictStored, Grown,
         \A i \in DOMAIN toAxis' : \/ \E k \in DOMAIN toAxis : toAxis'[i] = toAxis[k]
                                   \/ IsRow(toAxis'[i], spool'),
         \A j \in Job :
           /\ watermark'[j] \in Int /\ watermark[j] <= watermark'[j]
           /\ watermark'[j] + 1 <= Len(spool[j])
           /\ sent'[j] \in {sent[j], 0} \/ sent'[j] = Len(spool'[j])
           /\ record'[j].status = "completed" =>
                \/ record'[j].reason = "refused" \/ record'[j] = record[j]
                \/ \E i \in 1..(watermark'[j] + 1) :
                     spool[j][i].kind = "result" /\ spool[j][i].verdict = record'[j].reason
  PROVE  Frames' /\ VerdictStored'
<1>1. \A j \in Job : /\ Len(spool[j]) \in Nat /\ DOMAIN spool[j] = 1..Len(spool[j])
                     /\ watermark[j] \in Int /\ sent[j] \in Nat
  BY LenProperties DEF TypeOK
<1>2. ASSUME NEW k \in DOMAIN toAxis PROVE IsRow(toAxis[k], spool')
  <2>1. toAxis[k] \in UpMsg
    <3>1. toAxis \in Seq(UpMsg)
      BY DEF TypeOK
    <3> QED
      BY <3>1, ElementOfSeq, LenProperties
  <2>2. toAxis[k].kind = "job" => toAxis[k].job \in Job
    BY <2>1 DEF UpMsg, JobFrame, RespFrame, HelloMsg
  <2>3. IsRow(toAxis[k], spool)
    BY DEF Frames
  <2> QED
    BY <2>2, <2>3 DEF IsRow, Grown
<1>3. \A i \in DOMAIN toAxis' : IsRow(toAxis'[i], spool')
  BY <1>2
<1>4. ASSUME NEW j \in Job
      PROVE  watermark'[j] >= -1 /\ watermark'[j] + 1 <= Len(spool'[j]) /\ sent'[j] <= Len(spool'[j])
  <2>1. Len(spool'[j]) \in Nat
    BY LenProperties DEF TypeOK
  <2> QED
    BY <1>1, <2>1 DEF Frames, Grown
<1>5. ASSUME NEW j \in Job, record'[j].status = "completed"
      PROVE  \/ record'[j].reason = "refused"
             \/ \E i \in 1..(watermark'[j] + 1) :
                  spool'[j][i].kind = "result" /\ spool'[j][i].verdict = record'[j].reason
  <2>1. \A i \in 1..(watermark'[j] + 1) : i \in DOMAIN spool[j] /\ spool'[j][i] = spool[j][i]
    BY <1>1 DEF Grown
  <2>2. 1..(watermark[j] + 1) \subseteq 1..(watermark'[j] + 1)
    BY <1>1
  <2> QED
    BY <1>5, <2>1, <2>2, SMTT(30) DEF VerdictStored
<1> QED
  BY <1>3, <1>4, <1>5 DEF Frames, VerdictStored

LEMMA SameGrown ==
  ASSUME UNCHANGED spool, TypeOK
  PROVE  Grown
<1>1. \A j \in Job : Len(spool[j]) \in Nat
  BY LenProperties DEF TypeOK
<1> QED
  BY <1>1 DEF Grown

(* Frames at the end of the wire. *)
LEMMA AppendedFrames ==
  ASSUME TypeOK, NEW s \in Seq(UpMsg), toAxis' = toAxis \o s, NEW rows,
         \A i \in 1..Len(s) : IsRow(s[i], rows)
  PROVE  \A i \in DOMAIN toAxis' : \/ \E k \in DOMAIN toAxis : toAxis'[i] = toAxis[k]
                                   \/ IsRow(toAxis'[i], rows)
<1>1. toAxis \in Seq(UpMsg) /\ Len(toAxis) \in Nat /\ Len(s) \in Nat
      /\ DOMAIN toAxis = 1..Len(toAxis)
  BY LenProperties DEF TypeOK
<1>2. /\ toAxis' \in Seq(UpMsg) /\ Len(toAxis') = Len(toAxis) + Len(s)
      /\ \A i \in 1..(Len(toAxis) + Len(s)) :
           toAxis'[i] = IF i <= Len(toAxis) THEN toAxis[i] ELSE s[i - Len(toAxis)]
  BY <1>1, ConcatProperties
<1>3. DOMAIN toAxis' = 1..(Len(toAxis) + Len(s))
  BY <1>2, LenProperties
<1>4. ASSUME NEW i \in DOMAIN toAxis', i > Len(toAxis)
      PROVE  IsRow(toAxis'[i], rows)
  <2>1. toAxis'[i] = s[i - Len(toAxis)] /\ i - Len(toAxis) \in 1..Len(s)
    BY <1>1, <1>2, <1>3, <1>4
  <2> QED
    BY <2>1
<1> QED
  BY <1>1, <1>2, <1>3, <1>4

LEMMA EmittedFrame ==
  ASSUME TypeOK, NEW c \in Conn, NEW f \in UpMsg, Emits(c, <<f>>), NEW rows, IsRow(f, rows)
  PROVE  \A i \in DOMAIN toAxis' : \/ \E k \in DOMAIN toAxis : toAxis'[i] = toAxis[k]
                                   \/ IsRow(toAxis'[i], rows)
<1>1. CASE toAxis' = toAxis \o <<f>>
  <2> DEFINE s == <<f>>
  <2>1. s \in Seq(UpMsg) /\ \A i \in 1..Len(s) : IsRow(s[i], rows)
    OBVIOUS
  <2>2. toAxis' = toAxis \o s
    BY <1>1
  <2> HIDE DEF s
  <2> QED
    BY <2>1, <2>2, AppendedFrames
<1>2. CASE UNCHANGED toAxis
  BY <1>2
<1> QED
  BY <1>1, <1>2 DEF Emits

(* A new row, and its frame. *)
LEMMA SpooledFrame ==
  ASSUME TypeOK, NEW j \in Job, NEW c \in Conn, NEW b \in Body, SpoolRow(j, c, b)
  PROVE  /\ Grown
         /\ \A i \in DOMAIN toAxis' : \/ \E k \in DOMAIN toAxis : toAxis'[i] = toAxis[k]
                                      \/ IsRow(toAxis'[i], spool')
<1> DEFINE n == Len(spool[j])
           f == [kind |-> "job", job |-> j, seq |-> Len(spool[j]), body |-> b]
<1>1. n \in Nat /\ DOMAIN spool[j] = 1..n /\ spool[j] \in Seq(Body)
  BY LenProperties DEF TypeOK
<1>2. /\ \A k \in Job : k # j => spool'[k] = spool[k]
      /\ spool'[j] = Append(spool[j], b) /\ Emits(c, <<f>>)
  BY DEF TypeOK, SpoolRow
<1>3. f \in UpMsg /\ f.kind = "job" /\ f.job = j /\ f.seq = n /\ f.body = b
  BY <1>1 DEF UpMsg, JobFrame
<1> HIDE DEF f, n
<1>4. /\ Len(spool'[j]) = n + 1 /\ DOMAIN spool'[j] = 1..(n + 1) /\ spool'[j][n + 1] = b
      /\ \A i \in 1..n : spool'[j][i] = spool[j][i]
  BY <1>1, <1>2, AppendProperties, LenProperties DEF n
<1>5. Grown
  <2>1. \A k \in Job : Len(spool[k]) \in Nat
    BY LenProperties DEF TypeOK
  <2>2. ASSUME NEW k \in Job, k # j
        PROVE  /\ Len(spool[k]) <= Len(spool'[k]) /\ DOMAIN spool[k] \subseteq DOMAIN spool'[k]
               /\ \A i \in DOMAIN spool[k] : spool'[k][i] = spool[k][i]
    BY <1>2, <2>1, <2>2
  <2>3. /\ Len(spool[j]) <= Len(spool'[j]) /\ DOMAIN spool[j] \subseteq DOMAIN spool'[j]
        /\ \A i \in DOMAIN spool[j] : spool'[j][i] = spool[j][i]
    BY <1>1, <1>4 DEF n
  <2> QED
    BY <2>2, <2>3 DEF Grown
<1>6. IsRow(f, spool')
  BY <1>1, <1>3, <1>4 DEF IsRow
<1> QED
  BY <1>2, <1>3, <1>5, <1>6, EmittedFrame

LEMMA FrameIsRow ==
  ASSUME TypeOK, NEW j \in Job, NEW q \in Nat, q + 1 <= Len(spool[j])
  PROVE  IsRow(FrameAt(j, q), spool)
<1>1. q + 1 \in DOMAIN spool[j]
  <2>1. DOMAIN spool[j] = 1..Len(spool[j]) /\ Len(spool[j]) \in Nat
    BY LenProperties DEF TypeOK
  <2> QED
    BY <2>1
<1> QED
  BY <1>1 DEF IsRow, FrameAt

LEMMA NothingStored ==
  ASSUME TypeOK, TypeOK', Frames, VerdictStored, UNCHANGED <<watermark, spool>>,
         \A j \in Job : sent'[j] \in {sent[j], 0} \/ sent'[j] = Len(spool[j]),
         \A i \in DOMAIN toAxis' : \/ \E k \in DOMAIN toAxis : toAxis'[i] = toAxis[k]
                                   \/ IsRow(toAxis'[i], spool),
         \A j \in Job : record'[j].status = "completed" =>
                          record'[j].reason = "refused" \/ record'[j] = record[j]
  PROVE  Frames' /\ VerdictStored'
<1>1. Grown
  BY SameGrown
<1>2. \A j \in Job : /\ watermark'[j] \in Int /\ watermark[j] <= watermark'[j]
                     /\ watermark'[j] + 1 <= Len(spool[j])
  BY DEF Frames, TypeOK
<1> QED
  BY <1>1, <1>2, StoredStep

LEMMA WireShrinks ==
  ASSUME TypeOK, UNCHANGED toAxis \/ toAxis' = <<>> \/ \E kind : ReadUp(kind)
  PROVE  \A i \in DOMAIN toAxis' : \E k \in DOMAIN toAxis : toAxis'[i] = toAxis[k]
<1>1. CASE UNCHANGED toAxis \/ toAxis' = <<>>
  BY <1>1
<1>2. ASSUME NEW kind, ReadUp(kind)
      PROVE  \A i \in DOMAIN toAxis' : \E k \in DOMAIN toAxis : toAxis'[i] = toAxis[k]
  BY <1>2, ReadUpFacts
<1> QED
  BY <1>1, <1>2

(* Records that no frame changed. *)
LEMMA RecordsStored ==
  ASSUME TypeOK, NEW j \in Job,
         \/ RouteCreate(j) \/ RouteFinish(j) \/ Reconcile(j) \/ AxisRestart \/ UNCHANGED record
  PROVE  \A k \in Job : record'[k].status = "completed" =>
                          record'[k].reason = "refused" \/ record'[k] = record[k]
<1>1. CASE UNCHANGED record
  BY <1>1
<1>2. CASE AxisRestart
  BY <1>2 DEF AxisRestart
<1>3. CASE RouteCreate(j) \/ RouteFinish(j) \/ Reconcile(j)
  <2>1. \E s, r : Reconciled(j, s, r) /\ (s = "completed" => r = "refused")
    BY <1>3 DEF RouteCreate, RouteFinish, Reconcile
  <2>2. PICK s, r : Reconciled(j, s, r) /\ (s = "completed" => r = "refused")
    BY <2>1
  <2>3. \A k \in Job : record'[k] = IF k = j THEN [status |-> s, reason |-> r] ELSE record[k]
    BY <2>2 DEF TypeOK, Reconciled
  <2> QED
    BY <2>2, <2>3
<1> QED
  BY <1>1, <1>2, <1>3

LEMMA AxisStored ==
  ASSUME TypeOK, TypeOK', Frames, VerdictStored, NEW j \in Job,
         \/ RouteCreate(j) \/ RouteSend(j) \/ RouteFinish(j) \/ CancelRequest(j) \/ Reconcile(j)
         \/ AxisRestart \/ HelloPublish \/ HelloPick \/ HelloSend \/ ReadResp
         \/ Disconnect \/ OrbitCrash \/ OrbitStart \/ UNCHANGED vars
  PROVE  Frames' /\ VerdictStored'
<1>1. UNCHANGED <<watermark, spool, sent>>
  BY DEF RouteCreate, RouteSend, RouteFinish, CancelRequest, Reconcile, AxisRestart,
         HelloPublish, HelloPick, HelloSend, ReadResp, Disconnect, OrbitCrash, OrbitStart,
         vars, axisVars, orbitVars
<1>2. UNCHANGED toAxis \/ toAxis' = <<>> \/ \E kind : ReadUp(kind)
  BY DEF RouteCreate, RouteSend, RouteFinish, CancelRequest, Reconcile, AxisRestart,
         HelloPublish, HelloPick, HelloSend, ReadResp, Disconnect, OrbitCrash, OrbitStart,
         LoseConnection, vars, connVars
<1>3. RouteCreate(j) \/ RouteFinish(j) \/ Reconcile(j) \/ AxisRestart \/ UNCHANGED record
  BY DEF RouteSend, CancelRequest, HelloPublish, HelloPick, HelloSend, ReadResp, Disconnect,
         OrbitCrash, OrbitStart, vars, axisVars
<1> QED
  BY <1>1, <1>2, <1>3, WireShrinks, RecordsStored, NothingStored

LEMMA OrbitStored ==
  ASSUME TypeOK, TypeOK', Executions, Frames, VerdictStored, NEW j \in Job, NEW c \in Conn,
         Orbit(j, c) \/ Write(j, c) \/ Exit(j, c)
  PROVE  Frames' /\ VerdictStored'
<1>1. UNCHANGED <<record, watermark, sent>>
  BY DEF Orbit, Check, Record, Spawn, Persist, Launch, Respond, Hear, Conclude, HandResult,
         CloseAttempt, Write, Exit, axisVars, orbitVars
<1>2. CASE UNCHANGED <<spool, toAxis>>
  BY <1>1, <1>2, NothingStored
<1>3. CASE Respond(j, c)
  <2> DEFINE f == [kind |-> "resp", job |-> j, ok |-> task[j][c] = "respond"]
  <2>1. f \in UpMsg /\ f.kind # "job" /\ Emits(c, <<f>>) /\ UNCHANGED spool
    BY <1>3 DEF Respond, UpMsg, RespFrame
  <2>2. IsRow(f, spool)
    BY <2>1 DEF IsRow
  <2> HIDE DEF f
  <2>3. \A i \in DOMAIN toAxis' : \/ \E k \in DOMAIN toAxis : toAxis'[i] = toAxis[k]
                                  \/ IsRow(toAxis'[i], spool)
    BY <2>1, <2>2, EmittedFrame
  <2> QED
    BY <1>1, <2>1, <2>3, NothingStored
<1>4. ASSUME NEW b \in Body, SpoolRow(j, c, b)
      PROVE  Frames' /\ VerdictStored'
  <2>1. \A k \in Job : /\ watermark'[k] \in Int /\ watermark[k] <= watermark'[k]
                       /\ watermark'[k] + 1 <= Len(spool[k])
    BY <1>1 DEF Frames, TypeOK
  <2> QED
    BY <1>1, <1>4, <2>1, SpooledFrame, StoredStep
<1>5. CASE Hear(j, c)
  <2>1. [kind |-> "output", of |-> c] \in Body
    BY DEF Body
  <2> QED
    BY <1>2, <1>4, <1>5, <2>1 DEF Hear, SpoolFails
<1>6. CASE Conclude(j, c)
  <2>1. prog[j][c] \in Verdict
    BY <1>6 DEF Conclude, Executions, Life, Ended, Verdict
  <2>2. [kind |-> "result", of |-> c, verdict |-> prog[j][c]] \in Body
    BY <2>1 DEF Body
  <2> QED
    BY <1>2, <1>4, <1>6, <2>2 DEF Conclude, HandResult, SpoolFails
<1>7. CASE Check(j, c) \/ Record(j, c) \/ Spawn(j, c) \/ Persist(j, c) \/ Launch(j, c)
           \/ CloseAttempt(j, c) \/ Write(j, c) \/ Exit(j, c)
  <2>1. UNCHANGED <<spool, toAxis>>
    BY <1>7 DEF Check, Record, Spawn, Persist, Launch, CloseAttempt, Write, Exit, connVars,
                orbitVars
  <2> QED
    BY <1>2, <2>1
<1> QED
  BY <1>3, <1>5, <1>6, <1>7 DEF Orbit

(* What the Orbit sends again are rows. *)
LEMMA ReplayStored ==
  ASSUME TypeOK, TypeOK', Frames, VerdictStored, NEW j \in Job, Replay(j)
  PROVE  Frames' /\ VerdictStored'
<1> DEFINE n == Len(spool[j])
           s == [i \in 1..(n - sent[j]) |-> FrameAt(j, sent[j] + i - 1)]
<1>1. n \in Nat /\ sent[j] \in Nat /\ sent[j] < n /\ sent' = [sent EXCEPT ![j] = n]
      /\ toAxis' = toAxis \o s /\ UNCHANGED <<record, watermark, spool>>
  <2>1. n \in Nat /\ sent[j] \in Nat
    BY LenProperties DEF TypeOK
  <2> QED
    BY <2>1 DEF Replay, axisVars
<1>2. n - sent[j] \in Nat /\ sent[j] + (n - sent[j]) <= n
  BY <1>1
<1>3. s \in Seq(UpMsg) /\ Len(s) = n - sent[j]
  <2>1. s \in Seq(UpMsg)
    BY <1>1, <1>2, RowsType
  <2>2. DOMAIN s = 1..(n - sent[j])
    OBVIOUS
  <2> HIDE DEF s
  <2> QED
    BY <1>2, <2>1, <2>2, LenProperties
<1>4. ASSUME NEW i \in 1..Len(s) PROVE IsRow(s[i], spool)
  <2>1. sent[j] + i - 1 \in Nat /\ (sent[j] + i - 1) + 1 <= n
    BY <1>1, <1>3, SMTT(30)
  <2>2. s[i] = FrameAt(j, sent[j] + i - 1)
    BY <1>3
  <2> QED
    BY <2>1, <2>2, FrameIsRow
<1> HIDE DEF s
<1>5. \A i \in DOMAIN toAxis' : \/ \E k \in DOMAIN toAxis : toAxis'[i] = toAxis[k]
                                \/ IsRow(toAxis'[i], spool)
  BY <1>1, <1>3, <1>4, AppendedFrames
<1>6. \A k \in Job : sent'[k] \in {sent[k], 0} \/ sent'[k] = Len(spool[k])
  BY <1>1 DEF TypeOK
<1> QED
  BY <1>1, <1>5, <1>6, NothingStored

LEMMA OrbitReadStored ==
  ASSUME TypeOK, TypeOK', Connections, Frames, VerdictStored, OrbitRead
  PROVE  Frames' /\ VerdictStored'
<1>1. UNCHANGED <<record, watermark, spool, sent>>
  BY DEF OrbitRead, axisVars
<1>2. PICK j \in Job : \/ UNCHANGED toAxis
                       \/ toAxis' = toAxis \o [i \in DOMAIN spool[j] |-> FrameAt(j, i - 1)]
  BY OrbitReadFacts
<1>3. CASE UNCHANGED toAxis
  BY <1>1, <1>3, NothingStored
<1>4. CASE toAxis' = toAxis \o [i \in DOMAIN spool[j] |-> FrameAt(j, i - 1)]
  <2> DEFINE n == Len(spool[j])
             s == [i \in 1..n |-> FrameAt(j, 0 + i - 1)]
  <2>1. n \in Nat /\ DOMAIN spool[j] = 1..n
    BY LenProperties DEF TypeOK
  <2>2. 0 \in Nat /\ 0 + n <= Len(spool[j])
    BY <2>1
  <2>3. s \in Seq(UpMsg) /\ Len(s) = n
    <3>1. s \in Seq(UpMsg)
      BY <2>1, <2>2, RowsType
    <3>2. DOMAIN s = 1..n
      OBVIOUS
    <3> HIDE DEF s
    <3> QED
      BY <2>1, <3>1, <3>2, LenProperties
  <2>4. ASSUME NEW i \in 1..Len(s) PROVE IsRow(s[i], spool)
    <3>1. 0 + i - 1 \in Nat /\ (0 + i - 1) + 1 <= n
      BY <2>1, <2>3
    <3>2. s[i] = FrameAt(j, 0 + i - 1)
      BY <2>3
    <3> QED
      BY <3>1, <3>2, FrameIsRow
  <2>5. toAxis' = toAxis \o s
    <3>1. \A i \in 1..n : FrameAt(j, i - 1) = FrameAt(j, 0 + i - 1)
      BY <2>1
    <3>2. [i \in 1..n |-> FrameAt(j, i - 1)] = s
      BY <3>1
    <3>3. [i \in DOMAIN spool[j] |-> FrameAt(j, i - 1)] = [i \in 1..n |-> FrameAt(j, i - 1)]
      BY <2>1
    <3> HIDE DEF s, n
    <3> QED
      BY <1>4, <3>2, <3>3
  <2> HIDE DEF s
  <2>6. \A i \in DOMAIN toAxis' : \/ \E k \in DOMAIN toAxis : toAxis'[i] = toAxis[k]
                                  \/ IsRow(toAxis'[i], spool)
    BY <2>3, <2>4, <2>5, AppendedFrames
  <2> QED
    BY <1>1, <2>6, NothingStored
<1> QED
  BY <1>2, <1>3, <1>4

LEMMA ConnectStored ==
  ASSUME TypeOK, TypeOK', Frames, VerdictStored, Connect
  PROVE  Frames' /\ VerdictStored'
<1>1. UNCHANGED <<record, watermark, spool>> /\ \A j \in Job : sent'[j] = 0
  BY DEF Connect, axisVars
<1>2. /\ DOMAIN toAxis' = {1} /\ toAxis'[1].kind = "hello"
  BY DEF Connect
<1>3. \A i \in DOMAIN toAxis' : IsRow(toAxis'[i], spool)
  BY <1>2 DEF IsRow
<1> QED
  BY <1>1, <1>3, NothingStored

(* Axis takes the frame that follows the last it has stored. *)
LEMMA ReadJobFrameStored ==
  ASSUME TypeOK, TypeOK', Frames, VerdictStored, ReadJobFrame
  PROVE  Frames' /\ VerdictStored'
<1> DEFINE m == Head(toAxis)
<1>1. /\ m \in UpMsg /\ m.kind = "job" /\ m = toAxis[1] /\ 1 \in DOMAIN toAxis /\ ReadUp("job")
      /\ UNCHANGED <<spool, sent>>
  BY ReadUpFacts DEF ReadJobFrame, orbitVars
<1>2. m.job \in Job /\ m.seq \in Nat /\ m.body \in Body
  BY <1>1 DEF UpMsg, JobFrame, RespFrame, HelloMsg
<1>3. m.seq + 1 \in DOMAIN spool[m.job] /\ m.body = spool[m.job][m.seq + 1]
  BY <1>1 DEF Frames, IsRow
<1>4. \A i \in DOMAIN toAxis' : \E k \in DOMAIN toAxis : toAxis'[i] = toAxis[k]
  BY <1>1, WireShrinks
<1>5. \/ UNCHANGED <<record, watermark>>
      \/ Takes(m) /\ Store(m)
      \/ Reconciled(m.job, "StepIndeterminate", "gap_or_persistence_failure") /\ UNCHANGED watermark
  BY DEF ReadJobFrame
<1> HIDE DEF m
<1>6. CASE UNCHANGED <<record, watermark>>
  BY <1>1, <1>4, <1>6, NothingStored
<1>7. CASE /\ Reconciled(m.job, "StepIndeterminate", "gap_or_persistence_failure")
           /\ UNCHANGED watermark
  <2>1. \A k \in Job : record'[k].status = "completed" => record'[k] = record[k]
    BY <1>2, <1>7 DEF TypeOK, Reconciled
  <2> QED
    BY <1>1, <1>4, <1>7, <2>1, NothingStored
<1>8. CASE Takes(m) /\ Store(m)
  <2>1. /\ watermark' = [watermark EXCEPT ![m.job] = m.seq] /\ m.seq = watermark[m.job] + 1
        /\ IF m.body.kind = "result" THEN Reconciled(m.job, "completed", m.body.verdict)
                                     ELSE UNCHANGED record
    BY <1>8 DEF Takes, Store
  <2>2. /\ watermark'[m.job] = m.seq
        /\ \A k \in Job : k # m.job => watermark'[k] = watermark[k]
    BY <1>2, <2>1 DEF TypeOK
  <2>3. m.seq + 1 <= Len(spool[m.job])
    BY <1>2, <1>3, LenProperties, SMTT(30) DEF TypeOK
  <2>4. ASSUME NEW k \in Job
        PROVE  /\ watermark'[k] \in Int /\ watermark[k] <= watermark'[k]
               /\ watermark'[k] + 1 <= Len(spool[k])
    <3>1. watermark[k] \in Int /\ watermark[k] + 1 <= Len(spool[k])
      BY DEF TypeOK, Frames
    <3> QED
      BY <1>2, <2>1, <2>2, <2>3, <3>1
  <2>5. ASSUME NEW k \in Job, record'[k].status = "completed"
        PROVE  \/ record'[k] = record[k]
               \/ \E i \in 1..(watermark'[k] + 1) :
                    spool[k][i].kind = "result" /\ spool[k][i].verdict = record'[k].reason
    <3>1. CASE UNCHANGED record
      BY <3>1
    <3>2. CASE m.body.kind = "result" /\ Reconciled(m.job, "completed", m.body.verdict) /\ k # m.job
      BY <1>2, <3>2 DEF TypeOK, Reconciled
    <3>3. CASE m.body.kind = "result" /\ Reconciled(m.job, "completed", m.body.verdict) /\ k = m.job
      <4>1. record'[k] = [status |-> "completed", reason |-> m.body.verdict]
        BY <1>2, <3>3 DEF TypeOK, Reconciled
      <4>2. m.seq + 1 \in 1..(watermark'[k] + 1)
        BY <1>2, <2>2, <3>3
      <4> QED
        BY <1>3, <3>3, <4>1, <4>2
    <3> QED
      BY <2>1, <3>1, <3>2, <3>3
  <2>6. Grown
    BY <1>1, SameGrown
  <2> QED
    BY <1>1, <1>4, <2>4, <2>5, <2>6, StoredStep
<1> QED
  BY <1>5, <1>6, <1>7, <1>8

LEMMA StoredNext ==
  ASSUME TypeOK, TypeOK', Connections, Executions, Frames, VerdictStored, [Next]_vars
  PROVE  Frames' /\ VerdictStored'
<1>1. CASE Job = {}
  <2>1. toAxis' \in Seq(UpMsg)
    BY DEF TypeOK
  <2>2. \A i \in DOMAIN toAxis' : IsRow(toAxis'[i], spool')
    <3>1. \A i \in DOMAIN toAxis' : toAxis'[i] \in UpMsg
      BY <2>1, ElementOfSeq, LenProperties
    <3> QED
      BY <1>1, <3>1 DEF IsRow, UpMsg, HelloMsg, JobFrame, RespFrame
  <2> QED
    BY <1>1, <2>2 DEF Frames, VerdictStored
<1>2. CASE Job # {}
  BY <1>2, Steps, AxisStored, OrbitStored, ReplayStored, OrbitReadStored, ConnectStored,
     ReadJobFrameStored
<1> QED
  BY <1>1, <1>2

-----------------------------------------------------------------------------
(***************************************************************************)
(* The invariant, and what follows.                                        *)
(***************************************************************************)
LEMMA JobsInit == Init => JobsInv
<1> SUFFICES ASSUME Init PROVE JobsInv
  OBVIOUS
<1>1. TypeOK
  BY InitType
<1>2. Connections
  BY DEF Init, Connections, Idle, PerExecution
<1>3. Hellos /\ Frames
  BY DEF Init, Hellos, Frames, Idle
<1>4. Dispatches
  BY DEF Init, Dispatches, Dispatched, OnItsWay
<1>5. Executions
  BY DEF Init, Executions, Held, Life, Unlaunched, RowOf, ResultOf, PerExecution, Verdict
<1>6. ResultIsLast /\ VerdictStored
  BY DEF Init, ResultIsLast, VerdictStored, NoRecord
<1> QED
  BY <1>1, <1>2, <1>3, <1>4, <1>5, <1>6 DEF JobsInv

LEMMA JobsStep == JobsInv /\ [Next]_vars => JobsInv'
<1> SUFFICES ASSUME JobsInv, [Next]_vars PROVE JobsInv'
  OBVIOUS
<1>1. TypeOK /\ Link /\ Executions /\ ResultIsLast /\ Frames /\ VerdictStored
  BY DEF JobsInv, Link
<1>2. TypeOK'
  BY <1>1, StepType DEF Link
<1>3. Link'
  BY <1>1, LinkStep
<1>4. Executions' /\ ResultIsLast'
  BY <1>1, LifeStep
<1>5. Frames' /\ VerdictStored'
  BY <1>1, <1>2, StoredNext DEF Link
<1> QED
  BY <1>2, <1>3, <1>4, <1>5 DEF JobsInv, Link

(* Whatever fails and restarts, a connection carries one dispatch of a job,
   and an execution has one task, one waiter and one result. *)
THEOREM JobsCorrect == Spec => []JobsInv
<1>1. UNCHANGED vars => [Next]_vars
  OBVIOUS
<1> QED
  BY JobsInit, JobsStep, PTL DEF Spec

(* The result is the last frame that an execution puts into the spool. *)
THEOREM ResultComesLast == Spec => []ResultIsLast
<1>1. JobsInv => ResultIsLast
  BY DEF JobsInv
<1> QED
  BY <1>1, JobsCorrect, PTL

(* Axis records the verdict of an execution whose frames, to the last, it has
   stored. *)
THEOREM VerdictsAreReal == Spec => []VerdictIsReal
<1>1. JobsInv => VerdictIsReal
  <2> SUFFICES ASSUME JobsInv, NEW j \in Job, record[j].status = "completed",
                      record[j].reason # "refused"
               PROVE  \E i \in 1..(watermark[j] + 1) :
                        /\ spool[j][i].kind = "result" /\ spool[j][i].verdict = record[j].reason
                        /\ \A k \in DOMAIN spool[j] : spool[j][k].of = spool[j][i].of => k <= i
    BY DEF VerdictIsReal
  <2>1. PICK i \in 1..(watermark[j] + 1) :
          spool[j][i].kind = "result" /\ spool[j][i].verdict = record[j].reason
    BY DEF JobsInv, VerdictStored
  <2>2. /\ DOMAIN spool[j] = 1..Len(spool[j]) /\ Len(spool[j]) \in Nat
        /\ watermark[j] \in Int /\ watermark[j] + 1 <= Len(spool[j])
    BY LenProperties DEF JobsInv, TypeOK, Frames
  <2>3. i \in DOMAIN spool[j]
    BY <2>2
  <2>4. ASSUME NEW k \in DOMAIN spool[j], spool[j][k].of = spool[j][i].of
        PROVE  k <= i
    <3>1. ~(i < k)
      BY <2>1, <2>3, <2>4 DEF JobsInv, ResultIsLast
    <3> QED
      BY <2>2, <2>3, <3>1
  <2> QED
    BY <2>1, <2>4
<1> QED
  BY <1>1, JobsCorrect, PTL

-----------------------------------------------------------------------------
(***************************************************************************)
(* What the ledger answers for, when nothing is pruned.                    *)
(***************************************************************************)
NothingPruned == Cardinality(Job) <= Retain

LEMMA PrunesNothing ==
  ASSUME NothingPruned, NEW l \in [Job -> Attempt], Prune(l)
  PROVE  ledger' = l
<1>1. IsFiniteSet(Terminal(l)) /\ Cardinality(Terminal(l)) <= Cardinality(Job)
  BY FS_Subset DEF Terminal
<1>2. Cardinality(Terminal(l)) \in Nat /\ Cardinality(Job) \in Nat
  BY <1>1, FS_CardinalityType
<1>3. PICK gone \in SUBSET Terminal(l) :
        /\ Cardinality(gone) = 0
        /\ ledger' = [j \in Job |-> IF j \in gone THEN NoAttempt ELSE l[j]]
  BY <1>1, <1>2 DEF Prune, NothingPruned
<1>4. gone = {}
  <2>1. IsFiniteSet(gone)
    BY <1>1, FS_Subset
  <2> QED
    BY <1>3, <2>1, FS_EmptySet
<1> QED
  BY <1>3, <1>4

LEMMA UpdateKeeps ==
  ASSUME TypeOK, NothingPruned, NEW j \in Job, NEW a \in Attempt, a.state # "none", Update(j, a)
  PROVE  Retained(j)' /\ \A k \in Job : k # j => ledger'[k] = ledger[k]
<1>1. [ledger EXCEPT ![j] = a] \in [Job -> Attempt]
  BY DEF TypeOK
<1>2. ledger' = [ledger EXCEPT ![j] = a]
  BY <1>1, PrunesNothing DEF Update
<1> QED
  BY <1>2 DEF TypeOK, Retained

LEMMA MarkKeeps ==
  ASSUME TypeOK, NothingPruned, NEW j \in Job, NEW reason \in Reason, MarkIndeterminate(j, reason)
  PROVE  Retained(j)' /\ \A k \in Job : k # j => ledger'[k] = ledger[k]
<1>1. /\ Entry("StepIndeterminate", reason, jobs[j], -1) \in Attempt
      /\ Entry("StepIndeterminate", reason, jobs[j], -1).state # "none"
  BY DEF Entry, Attempt, TypeOK
<1> QED
  BY <1>1, UpdateKeeps DEF MarkIndeterminate

\* A step of an execution updates the entry of its job at most.
LEMMA OrbitKeeps ==
  ASSUME TypeOK, NothingPruned, Executions, NEW j \in Job, NEW c \in Conn, Orbit(j, c)
  PROVE  /\ \A k \in Job : k # j => ledger'[k] = ledger[k]
         /\ UNCHANGED ledger \/ Retained(j)'
<1>1. CASE UNCHANGED ledger
  BY <1>1
<1>2. CASE Record(j, c) \/ Persist(j, c)
  <2>1. \E n \in {0, c} : Update(j, Entry("Running", "none", n, -1))
    BY <1>2 DEF Record, Persist
  <2>2. \A n \in {0, c} : /\ Entry("Running", "none", n, -1) \in Attempt
                          /\ Entry("Running", "none", n, -1).state # "none"
    BY DEF Entry, Attempt, Reason, Conn
  <2> QED
    BY <2>1, <2>2, UpdateKeeps
<1>3. CASE MarkIndeterminate(j, "spawn_failed") \/ MarkIndeterminate(j, "spool_loss")
  BY <1>3, MarkKeeps DEF Reason
<1>4. CASE /\ waiter[j][c] = "spooled"
           /\ CompleteAttempt(j, spool[j][ResultSeq(j, c) + 1].verdict, ResultSeq(j, c))
  <2> DEFINE v == spool[j][ResultSeq(j, c) + 1].verdict
             f == ResultSeq(j, c)
  <2>1. CASE Update(j, Entry("Completed", v, 0, f))
    <3>1. v \in Reason /\ f \in Int
      <4>1. \E i \in DOMAIN spool[j] : spool[j][i].kind = "result" /\ spool[j][i].of = c
        BY <1>4 DEF Executions, Life, ResultOf
      <4>2. PICK i \in DOMAIN spool[j] : f = i - 1 /\ spool[j][i].kind = "result"
        BY <4>1 DEF ResultSeq
      <4>3. i \in Nat /\ spool[j][i] \in Body
        <5>1. spool[j] \in Seq(Body)
          BY DEF TypeOK
        <5> QED
          BY <5>1, ElementOfSeq, LenProperties
      <4>4. f + 1 = i
        BY <4>2, <4>3
      <4> QED
        BY <4>2, <4>3, <4>4 DEF Body, Reason
    <3> HIDE DEF v, f
    <3>2. Entry("Completed", v, 0, f) \in Attempt /\ Entry("Completed", v, 0, f).state # "none"
      BY <3>1 DEF Entry, Attempt
    <3> QED
      BY <2>1, <3>2, UpdateKeeps
  <2> QED
    BY <1>1, <1>4, <2>1 DEF CompleteAttempt
<1> QED
  BY <1>1, <1>2, <1>3, <1>4
  DEF Orbit, Check, Spawn, Launch, Respond, Hear, SpoolFails, Conclude, HandResult, CloseAttempt

LEMMA OrbitStartKeeps ==
  ASSUME TypeOK, NothingPruned, OrbitStart
  PROVE  \A k \in Job : Retained(k)' <=> Retained(k)
<1> DEFINE l == [j \in Job |-> IF ledger[j].state = "Running"
                               THEN Entry("StepIndeterminate", "orbit_restarted", 0, -1)
                               ELSE ledger[j]]
<1>1. Entry("StepIndeterminate", "orbit_restarted", 0, -1) \in Attempt
  BY DEF Entry, Attempt, Reason
<1>2. l \in [Job -> Attempt]
  BY <1>1 DEF TypeOK
<1>3. Prune(l)
  BY DEF OrbitStart
<1>4. ledger' = l
  BY <1>2, <1>3, PrunesNothing
<1> QED
  BY <1>4 DEF Retained, Entry

\* Everybody else leaves the ledger alone.
LEMMA LedgerSame ==
  ASSUME [Next]_vars
  PROVE  \/ \E j \in Job, c \in Conn : Orbit(j, c)
         \/ OrbitStart
         \/ UNCHANGED ledger
BY Steps DEF Write, Exit, Replay, RouteSend, RouteFinish, Reconcile, RouteCreate, CancelRequest,
   HelloPublish, HelloPick, HelloSend, ReadResp, ReadJobFrame, OrbitRead, Connect, Disconnect,
   OrbitCrash, AxisRestart, orbitVars, vars

LEMMA RetainedStays ==
  ASSUME TypeOK, NothingPruned, Executions, [Next]_vars
  PROVE  \A k \in Job : Retained(k) => Retained(k)'
<1>1. ASSUME NEW j \in Job, NEW c \in Conn, Orbit(j, c)
      PROVE  \A k \in Job : Retained(k) => Retained(k)'
  BY <1>1, OrbitKeeps DEF Retained
<1>2. CASE UNCHANGED ledger
  BY <1>2 DEF Retained
<1> QED
  BY <1>1, <1>2, LedgerSame, OrbitStartKeeps

\* A task answers "accepted" only for a job that is retained.
LEMMA TaskAnswers ==
  ASSUME TypeOK, NothingPruned, Link, Executions, Answers, [Next]_vars
  PROVE  \A j \in Job, c \in Conn :
           task'[j][c] \in {"spawn", "persist", "launch", "respond"} => Retained(j)'
<1> DEFINE On == {"spawn", "persist", "launch", "respond"}
<1>1. \A k \in Job : Retained(k) => Retained(k)'
  BY RetainedStays
<1>2. SUFFICES \A k \in Job, d \in Conn : task'[k][d] \in On => task[k][d] \in On \/ Retained(k)'
  BY <1>1 DEF Answers
<1>3. CASE UNCHANGED task
  BY <1>3
<1>4. ASSUME NEW j \in Job, NEW c \in Conn, NEW p, Goto(j, c, p),
             p \in On => task[j][c] \in On \/ Retained(j)'
      PROVE  \A k \in Job, d \in Conn : task'[k][d] \in On => task[k][d] \in On \/ Retained(k)'
  BY <1>4 DEF TypeOK, Goto
<1>5. ASSUME NEW j \in Job, NEW c \in Conn, Orbit(j, c)
      PROVE  UNCHANGED task \/ \E p : Goto(j, c, p) /\ (p \in On => task[j][c] \in On \/ Retained(j)')
  <2>1. CASE Check(j, c)
    BY <2>1 DEF Check, Retained
  <2>2. CASE Record(j, c)
    <3>1. Entry("Running", "none", 0, -1) \in Attempt /\ Entry("Running", "none", 0, -1).state # "none"
      BY DEF Entry, Attempt, Reason
    <3> QED
      BY <2>2, <3>1, UpdateKeeps DEF Record
  <2>3. CASE Spawn(j, c)
    BY <2>3 DEF Spawn, At
  <2>4. CASE Persist(j, c) \/ Launch(j, c)
    BY <2>4 DEF Persist, Launch, At
  <2>5. CASE Respond(j, c)
    BY <2>5 DEF Respond
  <2> QED
    BY <1>5, <2>1, <2>2, <2>3, <2>4, <2>5 DEF Orbit, Hear, Conclude, HandResult, CloseAttempt
<1>6. CASE OrbitRead
  <2>1. UNCHANGED task \/ \E j \in Job : conn \in Conn /\ Goto(j, conn, "check")
    BY <1>6, OrbitReadFacts DEF Link
  <2> QED
    BY <1>3, <1>4, <2>1
<1>7. CASE OrbitCrash
  BY <1>7 DEF OrbitCrash, PerExecution
<1> HIDE DEF On
<1>8. \/ \E j \in Job, c \in Conn : Orbit(j, c)
      \/ OrbitRead \/ OrbitCrash \/ UNCHANGED task
  BY Steps DEF Write, Exit, Replay, RouteSend, RouteFinish, Reconcile, RouteCreate, CancelRequest,
     HelloPublish, HelloPick, HelloSend, ReadResp, ReadJobFrame, Connect, OrbitStart,
     Disconnect, AxisRestart, orbitVars, vars
<1> QED
  BY <1>3, <1>4, <1>5, <1>6, <1>7, <1>8

LEMMA WireAdds ==
  ASSUME TypeOK, NEW s \in Seq(UpMsg), toAxis' = toAxis \o s
  PROVE  \A i \in DOMAIN toAxis' : \/ \E k \in DOMAIN toAxis : toAxis'[i] = toAxis[k]
                                   \/ \E k \in 1..Len(s) : toAxis'[i] = s[k]
<1>1. toAxis \in Seq(UpMsg) /\ Len(toAxis) \in Nat /\ Len(s) \in Nat
      /\ DOMAIN toAxis = 1..Len(toAxis)
  BY LenProperties DEF TypeOK
<1>2. /\ toAxis' \in Seq(UpMsg) /\ Len(toAxis') = Len(toAxis) + Len(s)
      /\ \A i \in 1..(Len(toAxis) + Len(s)) :
           toAxis'[i] = IF i <= Len(toAxis) THEN toAxis[i] ELSE s[i - Len(toAxis)]
  BY <1>1, ConcatProperties
<1>3. DOMAIN toAxis' = 1..(Len(toAxis) + Len(s))
  BY <1>2, LenProperties
<1>4. ASSUME NEW i \in DOMAIN toAxis', i > Len(toAxis)
      PROVE  \E k \in 1..Len(s) : toAxis'[i] = s[k]
  <2>1. toAxis'[i] = s[i - Len(toAxis)] /\ i - Len(toAxis) \in 1..Len(s)
    BY <1>1, <1>2, <1>3, <1>4
  <2> QED
    BY <2>1
<1> QED
  BY <1>1, <1>2, <1>3, <1>4

\* An answer comes from a dispatch task, and every other frame is none.
LEMMA AnswersOnWire ==
  ASSUME TypeOK, Connections, Executions, [Next]_vars
  PROVE  \A i \in DOMAIN toAxis' :
           \/ \E k \in DOMAIN toAxis : toAxis'[i] = toAxis[k]
           \/ toAxis'[i].kind # "resp"
           \/ \E j \in Job, c \in Conn :
                Respond(j, c) /\ toAxis'[i].job = j /\ (toAxis'[i].ok <=> task[j][c] = "respond")
<1> DEFINE Fresh(f) == \/ f.kind # "resp"
                       \/ \E j \in Job, c \in Conn :
                            Respond(j, c) /\ f.job = j /\ (f.ok <=> task[j][c] = "respond")
<1>1. CASE UNCHANGED toAxis \/ toAxis' = <<>> \/ \E kind : ReadUp(kind)
  BY <1>1, WireShrinks
<1>2. ASSUME NEW s \in Seq(UpMsg), toAxis' = toAxis \o s, \A i \in 1..Len(s) : s[i].kind # "resp"
      PROVE  \A i \in DOMAIN toAxis' : (\E k \in DOMAIN toAxis : toAxis'[i] = toAxis[k])
                                       \/ toAxis'[i].kind # "resp"
  BY <1>2, WireAdds
<1>3. ASSUME NEW j \in Job, NEW c \in Conn, Respond(j, c), UNCHANGED toAxis => FALSE
      PROVE  \A i \in DOMAIN toAxis' : (\E k \in DOMAIN toAxis : toAxis'[i] = toAxis[k])
                                       \/ Fresh(toAxis'[i])
  <2> DEFINE f == [kind |-> "resp", job |-> j, ok |-> task[j][c] = "respond"]
             s == <<f>>
  <2>1. f \in UpMsg /\ s \in Seq(UpMsg) /\ \A i \in 1..Len(s) : s[i] = f
    BY DEF UpMsg, RespFrame
  <2>2. toAxis' = toAxis \o s
    BY <1>3 DEF Respond, Emits
  <2>3. Respond(j, c) /\ f.job = j /\ (f.ok <=> task[j][c] = "respond")
    BY <1>3
  <2> HIDE DEF f, s
  <2>4. \A i \in DOMAIN toAxis' : (\E k \in DOMAIN toAxis : toAxis'[i] = toAxis[k]) \/ toAxis'[i] = f
    BY <2>1, <2>2, WireAdds
  <2> QED
    BY <2>3, <2>4
<1>4. ASSUME NEW j \in Job, NEW c \in Conn, NEW b \in Body, SpoolRow(j, c, b)
      PROVE  \A i \in DOMAIN toAxis' : (\E k \in DOMAIN toAxis : toAxis'[i] = toAxis[k])
                                       \/ toAxis'[i].kind # "resp"
  <2> DEFINE f == [kind |-> "job", job |-> j, seq |-> Len(spool[j]), body |-> b]
             s == <<f>>
  <2>1. Len(spool[j]) \in Nat
    BY LenProperties DEF TypeOK
  <2>2. s \in Seq(UpMsg) /\ \A i \in 1..Len(s) : s[i].kind # "resp"
    BY <2>1 DEF UpMsg, JobFrame
  <2>3. UNCHANGED toAxis \/ toAxis' = toAxis \o s
    BY <1>4 DEF SpoolRow, Emits
  <2> HIDE DEF s
  <2> QED
    BY <1>1, <1>2, <2>2, <2>3
<1>5. ASSUME NEW j \in Job, NEW c \in Conn, Hear(j, c) \/ Conclude(j, c)
      PROVE  \A i \in DOMAIN toAxis' : (\E k \in DOMAIN toAxis : toAxis'[i] = toAxis[k])
                                       \/ toAxis'[i].kind # "resp"
  <2>1. [kind |-> "output", of |-> c] \in Body
    BY DEF Body
  <2>2. Conclude(j, c) => [kind |-> "result", of |-> c, verdict |-> prog[j][c]] \in Body
    BY DEF Body, Conclude, Executions, Life, Ended, Verdict
  <2>3. \/ UNCHANGED toAxis
        \/ SpoolRow(j, c, [kind |-> "output", of |-> c])
        \/ Conclude(j, c) /\ SpoolRow(j, c, [kind |-> "result", of |-> c, verdict |-> prog[j][c]])
    BY <1>5 DEF Hear, Conclude, HandResult, SpoolFails
  <2> QED
    BY <1>1, <1>4, <2>1, <2>2, <2>3
<1>6. ASSUME NEW j \in Job, NEW n \in Nat, NEW from \in Nat, from + n <= Len(spool[j]),
             toAxis' = toAxis \o [i \in 1..n |-> FrameAt(j, from + i - 1)]
      PROVE  \A i \in DOMAIN toAxis' : (\E k \in DOMAIN toAxis : toAxis'[i] = toAxis[k])
                                       \/ toAxis'[i].kind # "resp"
  <2> DEFINE s == [i \in 1..n |-> FrameAt(j, from + i - 1)]
  <2>1. s \in Seq(UpMsg)
    BY <1>6, RowsType
  <2>2. \A i \in 1..Len(s) : s[i].kind # "resp"
    <3>1. \A i \in DOMAIN s : s[i].kind # "resp"
      BY DEF FrameAt
    <3> HIDE DEF s
    <3> QED
      BY <2>1, <3>1, LenProperties
  <2> HIDE DEF s
  <2> QED
    BY <1>2, <1>6, <2>1, <2>2 DEF s
<1>7. ASSUME NEW j \in Job, Replay(j)
      PROVE  \A i \in DOMAIN toAxis' : (\E k \in DOMAIN toAxis : toAxis'[i] = toAxis[k])
                                       \/ toAxis'[i].kind # "resp"
  <2>1. Len(spool[j]) \in Nat /\ sent[j] \in Nat
    BY LenProperties DEF TypeOK
  <2>2. Len(spool[j]) - sent[j] \in Nat /\ sent[j] + (Len(spool[j]) - sent[j]) <= Len(spool[j])
    BY <1>7, <2>1 DEF Replay
  <2> QED
    BY <1>6, <1>7, <2>1, <2>2 DEF Replay
<1>8. CASE OrbitRead
  <2>1. PICK j \in Job : \/ UNCHANGED toAxis
                         \/ toAxis' = toAxis \o [i \in DOMAIN spool[j] |-> FrameAt(j, i - 1)]
    BY <1>8, OrbitReadFacts
  <2>2. Len(spool[j]) \in Nat /\ DOMAIN spool[j] = 1..Len(spool[j])
    BY LenProperties DEF TypeOK
  <2>3. 0 \in Nat /\ 0 + Len(spool[j]) <= Len(spool[j])
    BY <2>2
  <2>4. [i \in DOMAIN spool[j] |-> FrameAt(j, i - 1)] = [i \in 1..Len(spool[j]) |-> FrameAt(j, 0 + i - 1)]
    <3>1. \A i \in 1..Len(spool[j]) : FrameAt(j, i - 1) = FrameAt(j, 0 + i - 1)
      BY <2>2
    <3> QED
      BY <2>2, <3>1
  <2>5. UNCHANGED toAxis \/ toAxis' = toAxis \o [i \in 1..Len(spool[j]) |-> FrameAt(j, 0 + i - 1)]
    BY <2>1, <2>4
  <2>6. CASE toAxis' = toAxis \o [i \in 1..Len(spool[j]) |-> FrameAt(j, 0 + i - 1)]
    BY <1>6, <2>2, <2>3, <2>6
  <2> QED
    BY <1>1, <2>5, <2>6
<1>9. CASE Connect
  <2>1. DOMAIN toAxis' = {1} /\ toAxis'[1].kind = "hello"
    BY <1>9 DEF Connect
  <2> QED
    BY <2>1
<1>10. \/ \E j \in Job, c \in Conn : Respond(j, c) \/ Hear(j, c) \/ Conclude(j, c)
       \/ \E j \in Job : Replay(j)
       \/ OrbitRead \/ Connect
       \/ UNCHANGED toAxis \/ toAxis' = <<>> \/ \E kind : ReadUp(kind)
  <2>1. ASSUME NEW j \in Job, NEW c \in Conn, Orbit(j, c) \/ Write(j, c) \/ Exit(j, c)
        PROVE  Respond(j, c) \/ Hear(j, c) \/ Conclude(j, c) \/ UNCHANGED toAxis
    BY <2>1 DEF Orbit, Check, Record, Spawn, Persist, Launch, CloseAttempt, Write, Exit, connVars
  <2>2. ASSUME NEW j \in Job, \/ RouteSend(j) \/ RouteFinish(j) \/ Reconcile(j)
                              \/ RouteCreate(j) \/ CancelRequest(j)
        PROVE  UNCHANGED toAxis
    BY <2>2 DEF RouteSend, RouteFinish, Reconcile, RouteCreate, CancelRequest, connVars
  <2>3. HelloPublish \/ ReadResp \/ ReadJobFrame => \E kind : ReadUp(kind)
    BY DEF HelloPublish, ReadResp, ReadJobFrame
  <2>4. HelloPick \/ HelloSend \/ OrbitStart \/ UNCHANGED vars => UNCHANGED toAxis
    BY DEF HelloPick, HelloSend, OrbitStart, connVars, vars
  <2>5. Disconnect \/ OrbitCrash \/ AxisRestart => toAxis' = <<>>
    BY DEF Disconnect, OrbitCrash, AxisRestart, LoseConnection
  <2> QED
    BY <2>1, <2>2, <2>3, <2>4, <2>5, Steps
<1> QED
  BY <1>1, <1>3, <1>5, <1>7, <1>8, <1>9, <1>10

\* An accepted route had an answer, or was accepted before.
LEMMA AcceptedSteps ==
  ASSUME TypeOK, Answers, [Next]_vars
  PROVE  \A j \in Job : route'[j].pc = "accepted" => route[j].pc = "accepted" \/ Retained(j)
<1>1. CASE UNCHANGED route
  BY <1>1
<1>2. CASE ReadResp
  <2> DEFINE m == Head(toAxis)
  <2>1. m \in UpMsg /\ m.kind = "resp" /\ m = toAxis[1] /\ 1 \in DOMAIN toAxis
    BY <1>2, ReadUpFacts DEF ReadResp
  <2>2. m.job \in Job /\ m.ok \in BOOLEAN
    BY <2>1 DEF UpMsg, JobFrame, RespFrame, HelloMsg
  <2>3. m.ok => Retained(m.job)
    BY <2>1 DEF Answers
  <2>4. route' = route \/ route' = [route EXCEPT ![m.job] = Moved(@, IF m.ok THEN "accepted" ELSE "refused")]
    BY <1>2 DEF ReadResp
  <2> HIDE DEF m
  <2>5. CASE route' = route
    BY <2>5
  <2>6. CASE route' = [route EXCEPT ![m.job] = Moved(@, IF m.ok THEN "accepted" ELSE "refused")]
    <3>1. /\ \A k \in Job : k # m.job => route'[k] = route[k]
          /\ route'[m.job] = Moved(route[m.job], IF m.ok THEN "accepted" ELSE "refused")
      BY <2>2, <2>6 DEF TypeOK
    <3>2. route'[m.job].pc = IF m.ok THEN "accepted" ELSE "refused"
      BY <3>1 DEF Moved
    <3> QED
      BY <2>2, <2>3, <3>1, <3>2
  <2> QED
    BY <2>4, <2>5, <2>6
<1>3. ASSUME NEW j \in Job, RouteCreate(j) \/ RouteSend(j) \/ RouteFinish(j)
      PROVE  \A k \in Job : route'[k].pc = "accepted" => route[k].pc = "accepted"
  <2>1. \E r : route' = [route EXCEPT ![j] = r] /\ r.pc # "accepted"
    <3>1. CASE RouteCreate(j)
      <4> DEFINE r == [pc |-> "created", conn |-> hello.conn]
      <4>1. route' = [route EXCEPT ![j] = r] /\ r.pc # "accepted"
        BY <3>1 DEF RouteCreate
      <4> HIDE DEF r
      <4> QED
        BY <4>1
    <3>2. \A pc : Moved(route[j], pc).pc = pc
      BY DEF Moved
    <3>3. CASE RouteSend(j)
      BY <3>2, <3>3 DEF RouteSend
    <3>4. CASE RouteFinish(j)
      BY <3>2, <3>4 DEF RouteFinish
    <3> QED
      BY <1>3, <3>1, <3>3, <3>4
  <2>2. PICK r : route' = [route EXCEPT ![j] = r] /\ r.pc # "accepted"
    BY <2>1
  <2>3. \A k \in Job : route'[k] = IF k = j THEN r ELSE route[k]
    BY <2>2 DEF TypeOK
  <2> QED
    BY <2>2, <2>3
<1>4. CASE DropRequests \/ AxisRestart
  BY <1>4 DEF DropRequests, Dropped, AxisRestart, Moved
<1>5. \/ \E j \in Job : RouteCreate(j) \/ RouteSend(j) \/ RouteFinish(j)
      \/ ReadResp \/ DropRequests \/ AxisRestart \/ UNCHANGED route
  <2>1. ASSUME NEW j \in Job, NEW c \in Conn, Orbit(j, c) \/ Write(j, c) \/ Exit(j, c)
        PROVE  UNCHANGED route
    BY <2>1 DEF Orbit, Check, Record, Spawn, Persist, Launch, Respond, Hear, Conclude, HandResult,
                CloseAttempt, Write, Exit, axisVars
  <2>2. ASSUME NEW j \in Job, Replay(j) \/ Reconcile(j) \/ CancelRequest(j)
        PROVE  UNCHANGED route
    BY <2>2 DEF Replay, Reconcile, CancelRequest, axisVars
  <2>3. HelloPublish \/ HelloPick \/ HelloSend \/ ReadJobFrame \/ OrbitRead \/ Connect \/ OrbitStart
        \/ UNCHANGED vars => UNCHANGED route
    BY DEF HelloPublish, HelloPick, HelloSend, ReadJobFrame, OrbitRead, Connect, OrbitStart,
           axisVars, vars
  <2>4. Disconnect \/ OrbitCrash => DropRequests
    BY DEF Disconnect, OrbitCrash
  <2> QED
    BY <2>1, <2>2, <2>3, <2>4, Steps
<1> QED
  BY <1>1, <1>2, <1>3, <1>4, <1>5

LEMMA AnswersStep ==
  ASSUME JobsInv, NothingPruned, Answers, [Next]_vars
  PROVE  Answers'
<1>1. TypeOK /\ Link /\ Connections /\ Executions
  BY DEF JobsInv, Link
<1>2. \A k \in Job : Retained(k) => Retained(k)'
  BY <1>1, RetainedStays
<1>3. ASSUME NEW i \in DOMAIN toAxis', toAxis'[i].kind = "resp", toAxis'[i].ok
      PROVE  ledger'[toAxis'[i].job].state # "none"
  <2>1. CASE \E k \in DOMAIN toAxis : toAxis'[i] = toAxis[k]
    <3>1. PICK k \in DOMAIN toAxis : toAxis'[i] = toAxis[k]
      BY <2>1
    <3>2. toAxis[k].job \in Job
      <4>1. toAxis[k] \in UpMsg
        <5>1. toAxis \in Seq(UpMsg)
          BY <1>1 DEF TypeOK
        <5> QED
          BY <5>1, ElementOfSeq, LenProperties
      <4> QED
        BY <1>3, <3>1, <4>1 DEF UpMsg, JobFrame, RespFrame, HelloMsg
    <3>3. Retained(toAxis[k].job)
      BY <1>3, <3>1 DEF Answers
    <3>4. ledger'[toAxis[k].job].state # "none"
      BY <1>2, <3>2, <3>3 DEF Retained
    <3> QED
      BY <3>1, <3>4
  <2>2. CASE \E j \in Job, c \in Conn :
               Respond(j, c) /\ toAxis'[i].job = j /\ (toAxis'[i].ok <=> task[j][c] = "respond")
    <3>1. PICK j \in Job, c \in Conn :
            Respond(j, c) /\ toAxis'[i].job = j /\ (toAxis'[i].ok <=> task[j][c] = "respond")
      BY <2>2
    <3>2. Retained(j)
      BY <1>3, <3>1 DEF Answers
    <3>3. ledger'[j].state # "none"
      BY <1>2, <3>2 DEF Retained
    <3> QED
      BY <3>1, <3>3
  <2> QED
    BY <1>1, <1>3, <2>1, <2>2, AnswersOnWire
<1>4. AcceptedIsRetained'
  <2>1. \A j \in Job : route'[j].pc = "accepted" => Retained(j)
    BY <1>1, AcceptedSteps DEF Answers, AcceptedIsRetained
  <2> QED
    BY <1>2, <2>1 DEF AcceptedIsRetained
<1>5. \A i \in DOMAIN toAxis' :
        toAxis'[i].kind = "resp" /\ toAxis'[i].ok => ledger'[toAxis'[i].job].state # "none"
  BY <1>3
<1>6. \A j \in Job, c \in Conn :
        task'[j][c] \in {"spawn", "persist", "launch", "respond"} => Retained(j)'
  BY <1>1, TaskAnswers
<1> QED
  BY <1>4, <1>5, <1>6 DEF Answers, Retained

LEMMA AnswersInit == Init => Answers
BY DEF Init, Answers, AcceptedIsRetained, PerExecution

(* A dispatch reported as accepted is one that the ledger answers for, as long
   as there are not more jobs than it retains. *)
THEOREM AcceptedStays == ASSUME Cardinality(Job) <= Retain PROVE Spec => []AcceptedIsRetained
<1>1. NothingPruned
  BY DEF NothingPruned
<1>2. Init => JobsInv /\ Answers
  BY JobsInit, AnswersInit
<1>3. (JobsInv /\ Answers) /\ [Next]_vars => (JobsInv /\ Answers)'
  BY <1>1, JobsStep, AnswersStep
<1>4. JobsInv /\ Answers => AcceptedIsRetained
  BY DEF Answers
<1> QED
  BY <1>2, <1>3, <1>4, PTL DEF Spec

-----------------------------------------------------------------------------
(***************************************************************************)
(* No program is left alone, when a connection is lost only with the Orbit.*)
(***************************************************************************)
Together == "disconnect" \notin Faults /\ "axis_restart" \notin Faults

LEMMA RunningUnpruned ==
  ASSUME TypeOK, NEW j \in Job, NEW a \in Attempt, Update(j, a)
  PROVE  /\ \A k \in Job : k # j /\ ledger[k].state = "Running" => ledger'[k] = ledger[k]
         /\ a.state = "Running" => ledger'[j] = a
<1> DEFINE l == [ledger EXCEPT ![j] = a]
<1>1. l \in [Job -> Attempt] /\ l[j] = a /\ \A k \in Job : k # j => l[k] = ledger[k]
  BY DEF TypeOK
<1>2. Prune(l)
  BY DEF Update
<1> HIDE DEF l
<1>3. \A k \in Job : l[k].state = "Running" => ledger'[k] = l[k]
  BY <1>2 DEF Prune, Terminal
<1> QED
  BY <1>1, <1>3

LEMMA ProgSet ==
  ASSUME TypeOK, NEW j \in Job, NEW e \in Conn, NEW v, prog' = [prog EXCEPT ![j][e] = v]
  PROVE  \A k \in Job, d \in Conn : prog'[k][d] = IF k = j /\ d = e THEN v ELSE prog[k][d]
<1>1. DOMAIN prog = Job /\ \A k \in Job : DOMAIN prog[k] = Conn
  BY DEF TypeOK
<1>2. prog'[j] = [prog[j] EXCEPT ![e] = v] /\ \A k \in Job : k # j => prog'[k] = prog[k]
  BY <1>1
<1> QED
  BY <1>1, <1>2

LEMMA KilledRuns ==
  ASSUME TypeOK, NEW j \in Job, NEW v \in Verdict, prog' = Killed(j, jobs[j], v)
  PROVE  \A k \in Job, d \in Conn : prog'[k][d] = "running" =>
           prog[k][d] = "running" /\ ~(k = j /\ d = jobs[j])
<1>1. jobs[j] # 0 => jobs[j] \in Conn
  BY DEF TypeOK, Conn
<1>2. CASE /\ jobs[j] # 0 /\ (prog[j][jobs[j]] = "running" \/ v = "cancelled")
           /\ prog' = [prog EXCEPT ![j][jobs[j]] = v]
  <2>1. PICK e \in Conn : e = jobs[j] /\ prog' = [prog EXCEPT ![j][e] = v]
    BY <1>1, <1>2
  <2>2. \A k \in Job, d \in Conn : prog'[k][d] = IF k = j /\ d = e THEN v ELSE prog[k][d]
    <3>1. DOMAIN prog = Job /\ \A k \in Job : DOMAIN prog[k] = Conn
      BY DEF TypeOK
    <3>2. prog'[j] = [prog[j] EXCEPT ![e] = v] /\ \A k \in Job : k # j => prog'[k] = prog[k]
      BY <2>1, <3>1
    <3>3. \A d \in Conn : prog'[j][d] = IF d = e THEN v ELSE prog[j][d]
      BY <3>1, <3>2
    <3> QED
      BY <3>2, <3>3
  <2>3. v # "running"
    BY DEF Verdict
  <2>4. \A k \in Job, d \in Conn : prog'[k][d] = "running" =>
          prog[k][d] = "running" /\ ~(k = j /\ d = e)
    BY <2>2, <2>3
  <2> QED
    BY <2>1, <2>4
<1>3. CASE prog' = prog /\ ~(jobs[j] # 0 /\ (prog[j][jobs[j]] = "running" \/ v = "cancelled"))
  BY <1>3 DEF Conn
<1> QED
  BY <1>2, <1>3 DEF Killed

LEMMA MarkRuns ==
  ASSUME TypeOK, NEW j \in Job, NEW reason \in Reason, MarkIndeterminate(j, reason)
  PROVE  /\ \A k \in Job : k # j /\ ledger[k].state = "Running" => ledger'[k] = ledger[k]
         /\ \A k \in Job, d \in Conn : prog'[k][d] = "running" =>
              prog[k][d] = "running" /\ ~(k = j /\ d = jobs[j])
<1>1. Entry("StepIndeterminate", reason, jobs[j], -1) \in Attempt
  BY DEF Entry, Attempt, TypeOK
<1> QED
  BY <1>1, RunningUnpruned, KilledRuns DEF MarkIndeterminate, Verdict

LEMMA StaysAlone ==
  ASSUME NEW k \in Job, NEW d \in Conn, Alone(k, d), UNCHANGED <<conn, up>>,
         task'[k][d] = task[k][d], waiter'[k][d] = waiter[k][d],
         ledger[k].state = "Running" => ledger'[k] = ledger[k],
         prog'[k][d] = "running" => prog[k][d] = "running" /\ jobs'[k] = jobs[k]
  PROVE  Alone(k, d)'
BY DEF Alone

LEMMA Idle_ ==
  ASSUME Sole, up, NEW j \in Job, NEW d \in Conn, d # conn
  PROVE  task[j][d] = "none" /\ waiter[j][d] = "off" /\ prog[j][d] # "running"
BY DEF Sole, Alone

(* A step of the execution of the current connection. *)
LEMMA OneAlone ==
  ASSUME Sole, up, NEW j \in Job, NEW c \in Conn, c = conn, UNCHANGED <<conn, up>>,
         \A k \in Job, d \in Conn : (k # j \/ d # c) =>
           /\ task'[k][d] = task[k][d] /\ waiter'[k][d] = waiter[k][d]
           /\ prog'[k][d] = "running" => prog[k][d] = "running",
         \A k \in Job : k # j =>
           jobs'[k] = jobs[k] /\ (ledger[k].state = "Running" => ledger'[k] = ledger[k]),
         Alone(j, c)'
  PROVE  Sole'
<1>1. ASSUME NEW k \in Job, NEW d \in Conn, k # j PROVE Alone(k, d)'
  BY <1>1, StaysAlone DEF Sole
<1>2. ASSUME NEW d \in Conn, d # c PROVE Alone(j, d)'
  BY <1>2, Idle_ DEF Alone
<1> QED
  BY <1>1, <1>2 DEF Sole

LEMMA OrbitSole ==
  ASSUME TypeOK, Executions, Sole, NEW j \in Job, NEW c \in Conn, Orbit(j, c)
  PROVE  Sole'
<1>1. up /\ UNCHANGED <<conn, up>> /\ (task[j][c] # "none" \/ waiter[j][c] # "off")
  BY DEF Orbit, Check, Record, Spawn, Persist, Launch, Respond, Hear, Conclude, HandResult,
         CloseAttempt, At, connVars
<1>2. c = conn /\ Alone(j, c)
  BY <1>1 DEF Sole, Alone
<1>3. CASE Check(j, c) \/ Respond(j, c)
  <2>1. /\ UNCHANGED <<waiter, prog, jobs, ledger>>
        /\ \E p : Goto(j, c, p) /\ (task[j][c] \in {"respond", "done"} => p = "done")
                  /\ p # "launch"
        /\ task[j][c] \notin {"none", "launch"}
    BY <1>3 DEF Check, Respond, At, progVars
  <2>2. PICK p : Goto(j, c, p) /\ (task[j][c] \in {"respond", "done"} => p = "done")
                 /\ p # "launch"
    BY <2>1
  <2>3. \A k \in Job, d \in Conn : task'[k][d] = IF k = j /\ d = c THEN p ELSE task[k][d]
    BY <2>2 DEF TypeOK, Goto
  <2>4. Alone(j, c)'
    BY <1>1, <1>2, <2>1, <2>2, <2>3 DEF Alone
  <2> QED
    BY <1>1, <1>2, <2>1, <2>3, <2>4, OneAlone
<1>4. CASE Record(j, c)
  <2>1. /\ UNCHANGED <<waiter, prog, jobs>> /\ Goto(j, c, "spawn") /\ task[j][c] = "record"
        /\ Update(j, Entry("Running", "none", 0, -1))
    BY <1>4 DEF Record, At, progVars
  <2>2. Entry("Running", "none", 0, -1) \in Attempt
    BY DEF Entry, Attempt, Reason
  <2>3. \A k \in Job : k # j /\ ledger[k].state = "Running" => ledger'[k] = ledger[k]
    BY <2>1, <2>2, RunningUnpruned
  <2>4. \A k \in Job, d \in Conn : task'[k][d] = IF k = j /\ d = c THEN "spawn" ELSE task[k][d]
    BY <2>1 DEF TypeOK, Goto
  <2>5. Alone(j, c)'
    BY <1>1, <1>2, <2>1, <2>4 DEF Alone
  <2> QED
    BY <1>1, <1>2, <2>1, <2>3, <2>4, <2>5, OneAlone
<1>5. CASE Spawn(j, c)
  <2>1. UNCHANGED <<waiter, jobs>> /\ task[j][c] = "spawn"
    BY <1>5 DEF Spawn, At
  <2>2. CASE Goto(j, c, "persist") /\ prog' = [prog EXCEPT ![j][c] = "gated"] /\ UNCHANGED ledger
    <3>1. \A k \in Job, d \in Conn :
            /\ task'[k][d] = IF k = j /\ d = c THEN "persist" ELSE task[k][d]
            /\ prog'[k][d] = IF k = j /\ d = c THEN "gated" ELSE prog[k][d]
      BY <2>2 DEF TypeOK, Goto
    <3>2. Alone(j, c)'
      BY <1>1, <1>2, <2>1, <3>1 DEF Alone
    <3> QED
      BY <1>1, <1>2, <2>1, <2>2, <3>1, <3>2, OneAlone
  <2>3. CASE Goto(j, c, "refuse") /\ MarkIndeterminate(j, "spawn_failed")
    <3>1. \A k \in Job, d \in Conn :
            task'[k][d] = IF k = j /\ d = c THEN "refuse" ELSE task[k][d]
      BY <2>3 DEF TypeOK, Goto
    <3>2. /\ \A k \in Job : k # j /\ ledger[k].state = "Running" => ledger'[k] = ledger[k]
          /\ \A k \in Job, d \in Conn : prog'[k][d] = "running" => prog[k][d] = "running"
      BY <2>3, MarkRuns DEF Reason
    <3>3. Alone(j, c)'
      BY <1>1, <1>2, <2>1, <3>1, <3>2 DEF Alone
    <3> QED
      BY <1>1, <1>2, <2>1, <3>1, <3>2, <3>3, OneAlone
  <2> QED
    BY <1>5, <2>2, <2>3 DEF Spawn
<1>6. CASE Persist(j, c)
  <2>1. /\ UNCHANGED <<waiter, prog, jobs>> /\ Goto(j, c, "launch") /\ task[j][c] = "persist"
        /\ Update(j, Entry("Running", "none", c, -1))
    BY <1>6 DEF Persist, At, progVars
  <2>2. /\ Entry("Running", "none", c, -1) \in Attempt
        /\ Entry("Running", "none", c, -1).state = "Running"
        /\ Entry("Running", "none", c, -1).pgid = c
    BY DEF Entry, Attempt, Reason, Conn
  <2>3. /\ \A k \in Job : k # j /\ ledger[k].state = "Running" => ledger'[k] = ledger[k]
        /\ ledger'[j] = Entry("Running", "none", c, -1)
    BY <2>1, <2>2, RunningUnpruned
  <2>4. \A k \in Job, d \in Conn : task'[k][d] = IF k = j /\ d = c THEN "launch" ELSE task[k][d]
    BY <2>1 DEF TypeOK, Goto
  <2>5. Alone(j, c)'
    BY <1>1, <1>2, <2>1, <2>2, <2>3, <2>4 DEF Alone
  <2> QED
    BY <1>1, <1>2, <2>1, <2>3, <2>4, <2>5, OneAlone
<1>7. CASE Launch(j, c)
  <2>1. UNCHANGED ledger /\ task[j][c] = "launch"
    BY <1>7 DEF Launch, At
  <2>2. CASE /\ prog' = [prog EXCEPT ![j][c] = "running"]
             /\ jobs' = [jobs EXCEPT ![j] = c]
             /\ waiter' = [waiter EXCEPT ![j][c] = "watching"]
             /\ Goto(j, c, "respond")
    <3>1. /\ \A k \in Job, d \in Conn :
               /\ task'[k][d] = IF k = j /\ d = c THEN "respond" ELSE task[k][d]
               /\ prog'[k][d] = IF k = j /\ d = c THEN "running" ELSE prog[k][d]
               /\ waiter'[k][d] = IF k = j /\ d = c THEN "watching" ELSE waiter[k][d]
          /\ \A k \in Job : jobs'[k] = IF k = j THEN c ELSE jobs[k]
      BY <2>2 DEF TypeOK, Goto
    <3>2. Alone(j, c)'
      BY <1>1, <1>2, <2>1, <3>1 DEF Alone
    <3> QED
      BY <1>1, <1>2, <2>1, <3>1, <3>2, OneAlone
  <2>3. CASE /\ prog' = [prog EXCEPT ![j][c] = "none"] /\ Goto(j, c, "refuse")
             /\ UNCHANGED <<jobs, waiter>>
    <3>1. \A k \in Job, d \in Conn :
            /\ task'[k][d] = IF k = j /\ d = c THEN "refuse" ELSE task[k][d]
            /\ prog'[k][d] = IF k = j /\ d = c THEN "none" ELSE prog[k][d]
      BY <2>3 DEF TypeOK, Goto
    <3>2. Alone(j, c)'
      BY <1>1, <1>2, <2>1, <2>3, <3>1 DEF Alone
    <3> QED
      BY <1>1, <1>2, <2>1, <2>3, <3>1, <3>2, OneAlone
  <2> QED
    BY <1>7, <2>2, <2>3 DEF Launch
<1>8. CASE Hear(j, c)
  <2>1. UNCHANGED <<task, waiter, jobs>>
    BY <1>8 DEF Hear
  <2>2. CASE UNCHANGED <<ledger, prog>>
    <3>1. Alone(j, c)'
      BY <1>1, <1>2, <2>1, <2>2, StaysAlone
    <3> QED
      BY <1>1, <1>2, <2>1, <2>2, <3>1, OneAlone
  <2>3. CASE MarkIndeterminate(j, "spool_loss")
    <3>1. /\ \A k \in Job : k # j /\ ledger[k].state = "Running" => ledger'[k] = ledger[k]
          /\ \A k \in Job, d \in Conn : prog'[k][d] = "running" =>
               prog[k][d] = "running" /\ ~(k = j /\ d = jobs[j])
      BY <2>3, MarkRuns DEF Reason
    <3>2. task[j][c] # "launch"
      BY <1>2, <1>8 DEF Alone, Hear
    <3>3. Alone(j, c)'
      BY <1>1, <1>2, <2>1, <3>1, <3>2 DEF Alone
    <3> QED
      BY <1>1, <1>2, <2>1, <3>1, <3>3, OneAlone
  <2> QED
    BY <1>8, <2>2, <2>3 DEF Hear, SpoolFails
<1>9. CASE Conclude(j, c) \/ CloseAttempt(j, c)
  <2>1. /\ UNCHANGED task /\ waiter[j][c] # "off" /\ prog[j][c] # "running"
        /\ \E w : waiter' = [waiter EXCEPT ![j][c] = w]
        /\ jobs' = jobs \/ jobs' = [jobs EXCEPT ![j] = 0]
    <3>1. CASE Conclude(j, c)
      <4>1. prog[j][c] # "running"
        BY <3>1 DEF Conclude, Ended, Verdict
      <4> QED
        BY <3>1, <4>1 DEF Conclude, HandResult
    <3>2. CASE CloseAttempt(j, c)
      <4>1. prog[j][c] # "running"
        BY <3>2 DEF CloseAttempt, Executions, Life, Verdict
      <4> QED
        BY <3>2, <4>1 DEF CloseAttempt
    <3> QED
      BY <1>9, <3>1, <3>2
  <2>2. \A k \in Job, d \in Conn : (k # j \/ d # c) => waiter'[k][d] = waiter[k][d]
    BY <2>1 DEF TypeOK
  <2>3. \A k \in Job : k # j => jobs'[k] = jobs[k]
    BY <2>1 DEF TypeOK
  <2>4. /\ \A k \in Job : k # j /\ ledger[k].state = "Running" => ledger'[k] = ledger[k]
        /\ \A k \in Job, d \in Conn : prog'[k][d] = "running" => prog[k][d] = "running"
    <3>1. CASE UNCHANGED <<ledger, prog>>
      BY <3>1
    <3>2. CASE MarkIndeterminate(j, "spool_loss")
      BY <3>2, MarkRuns DEF Reason
    <3>3. CASE /\ waiter[j][c] = "spooled" /\ UNCHANGED prog
               /\ CompleteAttempt(j, spool[j][ResultSeq(j, c) + 1].verdict, ResultSeq(j, c))
      <4>1. \A k \in Job : k # j /\ ledger[k].state = "Running" => ledger'[k] = ledger[k]
        <5> DEFINE a == Entry("Completed", spool[j][ResultSeq(j, c) + 1].verdict, 0, ResultSeq(j, c))
                   l == [ledger EXCEPT ![j] = a]
        <5>1. UNCHANGED ledger \/ Prune(l)
          BY <3>3 DEF CompleteAttempt, Update
        <5>2. \A k \in Job : k # j => l[k] = ledger[k]
          BY DEF TypeOK
        <5> HIDE DEF l
        <5>3. Prune(l) => \A k \in Job : l[k].state = "Running" => ledger'[k] = l[k]
          BY DEF Prune, Terminal
        <5> QED
          BY <5>1, <5>2, <5>3
      <4> QED
        BY <3>3, <4>1
    <3> QED
      BY <1>9, <3>1, <3>2, <3>3 DEF Conclude, HandResult, SpoolFails, CloseAttempt
  <2>5. Alone(j, c)'
    BY <1>1, <1>2, <2>1, <2>4 DEF Alone
  <2> QED
    BY <1>1, <1>2, <2>1, <2>2, <2>3, <2>4, <2>5, OneAlone
<1> QED
  BY <1>3, <1>4, <1>5, <1>6, <1>7, <1>8, <1>9 DEF Orbit

LEMMA SoleStep ==
  ASSUME JobsInv, Together, Sole, [Next]_vars
  PROVE  Sole'
<1>1. TypeOK /\ Link /\ Connections /\ Executions
  BY DEF JobsInv, Link
<1>2. ~Disconnect /\ ~AxisRestart
  BY DEF Together, Disconnect, AxisRestart
<1>3. ASSUME NEW j \in Job, NEW c \in Conn, Orbit(j, c)
      PROVE  Sole'
  BY <1>1, <1>3, OrbitSole
<1>4. CASE /\ UNCHANGED <<conn, up, task, waiter, ledger, jobs>>
           /\ \A k \in Job, d \in Conn : prog'[k][d] = "running" => prog[k][d] = "running"
  BY <1>4, StaysAlone DEF Sole
<1>5. ASSUME NEW j \in Job, NEW c \in Conn, Write(j, c) \/ Exit(j, c)
      PROVE  Sole'
  <2>1. UNCHANGED <<conn, up, task, waiter, ledger, jobs>>
    BY <1>5 DEF Write, Exit, connVars, orbitVars
  <2>2. UNCHANGED prog \/ \E v \in {"succeeded", "failed"} : prog' = [prog EXCEPT ![j][c] = v]
    BY <1>5 DEF Write, Exit
  <2>3. \A k \in Job, d \in Conn : prog'[k][d] = "running" => prog[k][d] = "running"
    BY <1>1, <2>2, ProgSet
  <2> QED
    BY <1>4, <2>1, <2>3
<1>6. ASSUME NEW j \in Job, \/ Replay(j) \/ RouteSend(j) \/ RouteFinish(j) \/ Reconcile(j)
                            \/ RouteCreate(j) \/ CancelRequest(j)
      PROVE  Sole'
  <2>1. UNCHANGED <<conn, up, task, waiter, ledger, jobs, prog>>
    BY <1>6 DEF Replay, RouteSend, RouteFinish, Reconcile, RouteCreate, CancelRequest,
                connVars, orbitVars, progVars
  <2> QED
    BY <1>4, <2>1
<1>7. CASE HelloPublish \/ HelloPick \/ HelloSend \/ ReadResp \/ ReadJobFrame \/ UNCHANGED vars
  <2>1. UNCHANGED <<conn, up, task, waiter, ledger, jobs, prog>>
    BY <1>7 DEF HelloPublish, HelloPick, HelloSend, ReadResp, ReadJobFrame, connVars, orbitVars,
                progVars, vars
  <2> QED
    BY <1>4, <2>1
<1>8. CASE OrbitRead
  <2>1. UNCHANGED <<conn, up, waiter, ledger, jobs>>
    BY <1>8 DEF OrbitRead
  <2>2. PICK j \in Job :
          /\ conn \in Conn /\ up
          /\ \/ IsDispatch(toOrbit[1], j) /\ Goto(j, conn, "check") /\ UNCHANGED prog
             \/ UNCHANGED task /\ (UNCHANGED prog \/ prog' = Killed(j, jobs[j], "cancelled"))
    BY <1>1, <1>8, OrbitReadFacts
  <2>3. CASE IsDispatch(toOrbit[1], j) /\ Goto(j, conn, "check") /\ UNCHANGED prog
    <3>1. task[j][conn] = "none"
      <4>1. 1 \in DOMAIN toOrbit
        BY <1>1, <1>8, ReadDownFacts
      <4> QED
        BY <1>1, <2>3, <4>1 DEF Link, Dispatches, OnItsWay
    <3>2. \A k \in Job, d \in Conn :
            task'[k][d] = IF k = j /\ d = conn THEN "check" ELSE task[k][d]
      BY <1>1, <2>2, <2>3 DEF TypeOK, Goto
    <3>3. Alone(j, conn)
      BY <2>2 DEF Sole
    <3>4. Alone(j, conn)'
      BY <2>1, <2>2, <2>3, <3>1, <3>2, <3>3 DEF Alone
    <3>5. \A k \in Job, d \in Conn : (k # j \/ d # conn) => Alone(k, d)'
      BY <2>1, <2>3, <3>2, StaysAlone DEF Sole
    <3> QED
      BY <2>1, <3>4, <3>5 DEF Sole
  <2>4. CASE UNCHANGED task /\ (UNCHANGED prog \/ prog' = Killed(j, jobs[j], "cancelled"))
    <3>1. \A k \in Job, d \in Conn : prog'[k][d] = "running" => prog[k][d] = "running"
      BY <1>1, <2>4, KilledRuns DEF Verdict
    <3> QED
      BY <1>4, <2>1, <2>4, <3>1
  <2> QED
    BY <2>2, <2>3, <2>4
<1>9. CASE Connect
  <2>1. /\ UNCHANGED <<up, task, waiter, ledger, jobs, prog>> /\ conn = 0
    BY <1>9 DEF Connect, progVars
  <2>2. \A j \in Job, c \in Conn : task[j][c] = "none" /\ waiter[j][c] = "off"
    BY <2>1 DEF Sole, Alone, Conn
  <2> QED
    BY <2>1, <2>2 DEF Sole, Alone
<1>10. CASE OrbitCrash
  BY <1>10 DEF OrbitCrash, PerExecution, Sole, Alone
<1>11. CASE OrbitStart
  <2>1. /\ UNCHANGED <<conn, task, waiter, jobs>> /\ ~up
        /\ prog' = [j \in Job |-> [c \in Conn |->
             IF prog[j][c] = "running" /\ ledger[j].state = "Running" /\ ledger[j].pgid = c
             THEN "killed" ELSE prog[j][c]]]
    BY <1>11 DEF OrbitStart, connVars
  <2>2. \A j \in Job, c \in Conn : task[j][c] = "none" /\ waiter[j][c] = "off"
    BY <1>1, <2>1 DEF Connections, Sole, Alone
  <2>3. \A j \in Job, c \in Conn : prog'[j][c] # "running"
    BY <2>1 DEF Sole, Alone
  <2> QED
    BY <2>1, <2>2, <2>3 DEF Sole, Alone
<1> QED
  BY <1>2, <1>3, <1>5, <1>6, <1>7, <1>8, <1>9, <1>10, <1>11, Steps

(* A program that runs while the Orbit is up is watched, and a cancel reaches
   it, where a connection is lost only with the Orbit. *)
THEOREM NothingOrphaned ==
  ASSUME Faults \cap {"disconnect", "axis_restart"} = {}
  PROVE  Spec => []NoOrphan
<1>1. Together
  BY DEF Together
<1>2. Init => JobsInv /\ Sole
  BY JobsInit DEF Init, Sole, Alone, PerExecution
<1>3. (JobsInv /\ Sole) /\ [Next]_vars => (JobsInv /\ Sole)'
  BY <1>1, JobsStep, SoleStep
<1>4. JobsInv /\ Sole => NoOrphan
  BY DEF Sole, Alone, NoOrphan
<1> QED
  BY <1>2, <1>3, <1>4, PTL DEF Spec

-----------------------------------------------------------------------------
(***************************************************************************)
(* A program is started once, when moreover nothing is pruned.             *)
(***************************************************************************)
StaysStarted(j, c) ==
  prog'[j][c] \in {"running"} \cup Ended <=> prog[j][c] \in {"running"} \cup Ended

LEMMA StartedSame ==
  ASSUME \A j \in Job, c \in Conn : StaysStarted(j, c)
  PROVE  \A j \in Job : Started(j)' = Started(j)
BY DEF Started, StaysStarted

LEMMA KeptStarted ==
  ASSUME \A j \in Job, c \in Conn : Kept(j, c)
  PROVE  \A j \in Job : Started(j)' = Started(j)
<1>1. \A j \in Job, c \in Conn : StaysStarted(j, c)
  BY DEF Kept, StaysStarted, Ended, Verdict
<1> QED
  BY <1>1, StartedSame

\* A step of an execution starts nothing, but for the launch.
LEMMA OrbitStarted ==
  ASSUME TypeOK, Executions, NEW j \in Job, NEW c \in Conn, Orbit(j, c), ~Launch(j, c)
  PROVE  \A k \in Job : Started(k)' = Started(k)
<1>1. CASE UNCHANGED prog
  BY <1>1 DEF Started
<1>2. CASE MarkIndeterminate(j, "spawn_failed") \/ MarkIndeterminate(j, "spool_loss")
  <2>1. \A k \in Job, d \in Conn : Kept(k, d)
    BY <1>2, KilledKept DEF MarkIndeterminate, Verdict
  <2> QED
    BY <2>1, KeptStarted
<1>3. CASE task[j][c] = "spawn" /\ prog' = [prog EXCEPT ![j][c] = "gated"]
  <2>1. prog[j][c] \in {"none", "gated"}
    BY <1>3 DEF Executions, Life, Unlaunched
  <2>2. prog' = [prog EXCEPT ![j][c] = "gated"]
    BY <1>3
  <2>3. prog'[j][c] = "gated"
    BY <2>2 DEF TypeOK
  <2>4. \A k \in Job, d \in Conn : (k # j \/ d # c) => prog'[k][d] = prog[k][d]
    BY <2>2, ProgSet
  <2>5. \A k \in Job, d \in Conn : StaysStarted(k, d)
    BY <2>1, <2>3, <2>4 DEF StaysStarted, Ended, Verdict
  <2> QED
    BY <2>5, StartedSame
<1> QED
  BY <1>1, <1>2, <1>3 DEF Orbit, Check, Record, Spawn, Persist, Respond, Hear, SpoolFails,
     Conclude, HandResult, CloseAttempt, At, progVars

LEMMA LaunchStarted ==
  ASSUME TypeOK, Executions, NEW j \in Job, NEW c \in Conn, Launch(j, c)
  PROVE  /\ \A k \in Job : k # j => Started(k)' = Started(k)
         /\ Started(j)' \subseteq Started(j) \cup {c}
<1>1. prog' = [prog EXCEPT ![j][c] = "running"] \/ prog' = [prog EXCEPT ![j][c] = "none"]
  BY DEF Launch
<1>2. \A k \in Job, d \in Conn : (k # j \/ d # c) => prog'[k][d] = prog[k][d]
  BY <1>1, ProgSet
<1> QED
  BY <1>2 DEF Started

LEMMA OrbitOnce ==
  ASSUME TypeOK, Executions, NothingPruned, Sole, Once, NEW j \in Job, NEW c \in Conn, Orbit(j, c),
         [Next]_vars
  PROVE  Once'
<1>1. up /\ UNCHANGED <<conn, up>> /\ (task[j][c] # "none" \/ waiter[j][c] # "off")
  BY DEF Orbit, Check, Record, Spawn, Persist, Launch, Respond, Hear, Conclude, HandResult,
         CloseAttempt, At, connVars
<1>2. c = conn /\ Alone(j, c) /\ OnceOf(j)
  BY <1>1 DEF Sole, Alone, Once
<1>3. UNCHANGED task \/ \E p : Goto(j, c, p)
  BY DEF Orbit, Check, Record, Spawn, Persist, Launch, Respond, Hear, Conclude, HandResult,
         CloseAttempt
<1>4. \A k \in Job, d \in Conn : (k # j \/ d # c) => task'[k][d] = task[k][d]
  BY <1>3, SMTT(30) DEF TypeOK, Goto
<1>5. /\ \A k \in Job : Retained(k) => Retained(k)'
      /\ \A k \in Job : k # j => ledger'[k] = ledger[k]
  BY OrbitKeeps, RetainedStays
<1>6. \A k \in Job : k # j => Started(k)' = Started(k)
  BY OrbitStarted, LaunchStarted
<1>7. ASSUME NEW k \in Job, k # j PROVE OnceOf(k)'
  BY <1>4, <1>5, <1>6, <1>7 DEF Once, OnceOf, Retained
<1>8. \A d \in Conn : d # c => task'[j][d] = "none"
  BY <1>1, <1>2, <1>4, Idle_
<1>9. CASE Launch(j, c)
  <2>1. task[j][c] = "launch" /\ task'[j][c] \in {"respond", "refuse"}
    BY <1>9 DEF Launch, At, Goto, TypeOK
  <2>2. Started(j) = {} /\ Retained(j)
    BY <1>2, <2>1 DEF OnceOf, Starting, Alone, Retained
  <2>3. Started(j)' \subseteq {c} /\ Retained(j)'
    BY <1>5, <1>9, <2>2, LaunchStarted
  <2>4. OnceOf(j)'
    BY <1>8, <2>1, <2>3 DEF OnceOf, Starting
  <2> QED
    BY <1>7, <2>4 DEF Once
<1>10. CASE ~Launch(j, c)
  <2>1. Started(j)' = Started(j)
    BY <1>10, OrbitStarted
  <2>2. \A d \in Started(j)' : Retained(j)' /\ \A e \in Started(j)' : d = e
    BY <1>2, <1>5, <2>1 DEF OnceOf
  <2>3. task'[j][c] \in Starting => Started(j)' = {}
    <3>1. task'[j][c] \in Starting => task[j][c] \in Starting \/ ~Retained(j)
      <4>1. CASE Check(j, c)
        BY <4>1 DEF Check, At, Goto, TypeOK, Starting
      <4>2. CASE Record(j, c) \/ Spawn(j, c) \/ Persist(j, c)
        BY <4>2 DEF Record, Spawn, Persist, At, Starting
      <4>3. CASE Respond(j, c)
        BY <4>3 DEF Respond, Goto, TypeOK, Starting
      <4>4. CASE UNCHANGED task
        BY <4>4
      <4> QED
        BY <1>10, <4>1, <4>2, <4>3, <4>4 DEF Orbit, Hear, Conclude, HandResult, CloseAttempt
    <3> QED
      BY <1>2, <2>1, <3>1 DEF OnceOf
  <2>4. task'[j][c] = "record" => ~Retained(j)'
    <3>1. CASE Check(j, c)
      <4>1. task'[j][c] = "record" => ~Retained(j)
        BY <3>1 DEF Check, At, Goto, TypeOK
      <4> QED
        BY <3>1, <4>1 DEF Check, Retained
    <3>2. CASE Record(j, c) \/ Spawn(j, c) \/ Persist(j, c) \/ Respond(j, c)
      BY <3>2 DEF Record, Spawn, Persist, Respond, Goto, TypeOK
    <3>3. CASE UNCHANGED task /\ waiter[j][c] # "off"
      BY <1>2, <3>3 DEF Alone
    <3> QED
      BY <1>10, <3>1, <3>2, <3>3 DEF Orbit, Hear, Conclude, HandResult, CloseAttempt
  <2>5. OnceOf(j)'
    <3>1. \A d \in Conn : d # c => task'[j][d] \notin Starting
      BY <1>8 DEF Starting
    <3>2. \A d \in Conn : /\ task'[j][d] = "record" => ~Retained(j)'
                          /\ task'[j][d] \in Starting => Started(j)' = {}
      BY <2>3, <2>4, <3>1 DEF Starting
    <3> QED
      BY <2>2, <3>2 DEF OnceOf
  <2> QED
    BY <1>7, <2>5 DEF Once
<1> QED
  BY <1>9, <1>10

LEMMA OnceStep ==
  ASSUME JobsInv, Together, NothingPruned, Sole, Once, [Next]_vars
  PROVE  Once'
<1>1. TypeOK /\ Link /\ Connections /\ Executions
  BY DEF JobsInv, Link
<1>2. CASE \E j \in Job, c \in Conn : Orbit(j, c)
  BY <1>1, <1>2, OrbitOnce
<1>3. ASSUME \A j \in Job, c \in Conn : task'[j][c] \in Starting => task'[j][c] = task[j][c],
             \A j \in Job : Retained(j)' <=> Retained(j),
             \A j \in Job : Started(j)' = Started(j)
      PROVE  Once'
  <2>1. ASSUME NEW j \in Job PROVE OnceOf(j)'
    <3>1. OnceOf(j)
      BY DEF Once
    <3>2. \A c \in Conn : task'[j][c] = "record" => task[j][c] = "record"
      BY <1>3 DEF Starting
    <3> QED
      BY <1>3, <3>1, <3>2 DEF OnceOf
  <2> QED
    BY <2>1 DEF Once
<1>4. ASSUME UNCHANGED <<task, ledger, prog>>
      PROVE  Once'
  BY <1>3, <1>4 DEF Retained, Started
<1>5. ASSUME NEW j \in Job, NEW c \in Conn, Write(j, c) \/ Exit(j, c)
      PROVE  Once'
  <2>1. UNCHANGED <<task, ledger>> /\ prog[j][c] = "running"
    BY <1>5 DEF Write, Exit, orbitVars
  <2>2. UNCHANGED prog \/ \E v \in {"succeeded", "failed"} : prog' = [prog EXCEPT ![j][c] = v]
    BY <1>5 DEF Write, Exit
  <2>3. \A k \in Job, d \in Conn : Kept(k, d)
    BY <1>1, <2>1, <2>2, ProgSet DEF Kept, Verdict
  <2> QED
    BY <1>3, <2>1, <2>3, KeptStarted DEF Retained
<1>6. ASSUME NEW j \in Job, \/ Replay(j) \/ RouteSend(j) \/ RouteFinish(j) \/ Reconcile(j)
                            \/ RouteCreate(j) \/ CancelRequest(j)
      PROVE  Once'
  BY <1>4, <1>6 DEF Replay, RouteSend, RouteFinish, Reconcile, RouteCreate, CancelRequest,
                    orbitVars, progVars
<1>7. CASE HelloPublish \/ HelloPick \/ HelloSend \/ ReadResp \/ ReadJobFrame \/ Connect
           \/ Disconnect \/ AxisRestart \/ UNCHANGED vars
  BY <1>4, <1>7 DEF HelloPublish, HelloPick, HelloSend, ReadResp, ReadJobFrame, Connect,
                    Disconnect, AxisRestart, orbitVars, progVars, vars
<1>8. CASE OrbitRead
  <2>1. UNCHANGED ledger
    BY <1>8 DEF OrbitRead
  <2>2. PICK j \in Job :
          /\ conn \in Conn
          /\ \/ Goto(j, conn, "check") /\ UNCHANGED prog
             \/ UNCHANGED task /\ (UNCHANGED prog \/ prog' = Killed(j, jobs[j], "cancelled"))
    BY <1>1, <1>8, OrbitReadFacts
  <2>3. \A k \in Job, d \in Conn : task'[k][d] \in Starting => task'[k][d] = task[k][d]
    <3>1. CASE UNCHANGED task
      BY <3>1
    <3>2. CASE Goto(j, conn, "check")
      <4>1. \A k \in Job, d \in Conn :
              task'[k][d] = IF k = j /\ d = conn THEN "check" ELSE task[k][d]
        BY <1>1, <2>2, <3>2 DEF TypeOK, Goto
      <4> QED
        BY <4>1 DEF Starting
    <3> QED
      BY <2>2, <3>1, <3>2
  <2>4. \A k \in Job, d \in Conn : Kept(k, d)
    BY <1>1, <2>2, KilledKept DEF Kept, Verdict
  <2> QED
    BY <1>3, <2>1, <2>3, <2>4, KeptStarted DEF Retained
<1>9. CASE OrbitCrash
  <2>1. /\ UNCHANGED ledger /\ \A j \in Job, c \in Conn : task'[j][c] = "none"
        /\ \A j \in Job, c \in Conn :
             prog'[j][c] = IF prog[j][c] = "gated" THEN "none" ELSE prog[j][c]
    BY <1>9 DEF OrbitCrash, PerExecution
  <2>2. \A j \in Job, c \in Conn : StaysStarted(j, c)
    BY <2>1 DEF StaysStarted, Ended, Verdict
  <2> QED
    BY <1>3, <2>1, <2>2, StartedSame DEF Retained, Starting
<1>10. CASE OrbitStart
  <2>1. UNCHANGED task /\ \A j \in Job : Retained(j)' <=> Retained(j)
    BY <1>1, <1>10, OrbitStartKeeps DEF OrbitStart
  <2>2. \A j \in Job, c \in Conn : StaysStarted(j, c)
    BY <1>10 DEF OrbitStart, StaysStarted, Ended
  <2> QED
    BY <1>3, <2>1, <2>2, StartedSame
<1> QED
  BY <1>2, <1>5, <1>6, <1>7, <1>8, <1>9, <1>10, Steps

(* However often an attempt is dispatched, its program is started once, where
   a connection is lost only with the Orbit and no attempt is pruned. *)
THEOREM OneProcess ==
  ASSUME Faults \cap {"disconnect", "axis_restart"} = {}, Cardinality(Job) <= Retain
  PROVE  Spec => []StartsOnce
<1>1. Together /\ NothingPruned
  BY DEF Together, NothingPruned
<1>2. Init => JobsInv /\ Sole /\ Once
  BY JobsInit DEF Init, Sole, Alone, Once, OnceOf, Started, Starting, Ended, Verdict, PerExecution
<1>3. (JobsInv /\ Sole /\ Once) /\ [Next]_vars => (JobsInv /\ Sole /\ Once)'
  BY <1>1, JobsStep, SoleStep, OnceStep
<1>4. JobsInv /\ Sole /\ Once => StartsOnce
  <2> SUFFICES ASSUME Once, NEW j \in Job PROVE Cardinality(Started(j)) <= 1
    BY DEF StartsOnce
  <2>1. \A c \in Started(j) : \A d \in Started(j) : c = d
    BY DEF Once, OnceOf
  <2>2. CASE Started(j) = {}
    <3>1. Cardinality({}) = 0
      BY FS_EmptySet
    <3> QED
      BY <2>2, <3>1
  <2>3. ASSUME NEW c \in Started(j) PROVE Cardinality(Started(j)) <= 1
    <3>1. Started(j) = {c}
      BY <2>1, <2>3
    <3>2. Cardinality({c}) = 1
      BY FS_Singleton
    <3> QED
      BY <3>1, <3>2
  <2> QED
    BY <2>2, <2>3
<1> QED
  BY <1>2, <1>3, <1>4, PTL DEF Spec

=============================================================================
