----------------------------- MODULE JobAttempts -----------------------------
(***************************************************************************)
(* A shell job from its dispatch intent to its recorded outcome.           *)
(*                                                                         *)
(*   POST /api/jobs --intent--> JobService (event log, projection)         *)
(*   JobService --DispatchJob--> JobTable::spawn --> gated program         *)
(*   program --output, result--> spooler task --> EventSpool --> Axis      *)
(*   Orbit Hello (inventory of the attempt ledger) --> reconcile           *)
(*                                                                         *)
(* One Orbit, one connection at a time, attempt_epoch 1 (the only one the  *)
(* routes issue).  The attempt that connection c dispatched is the c-th    *)
(* execution of its job.  The transport is the one of EventTransport with  *)
(* its flow control and its acknowledgements left out: no Ack ever removes *)
(* a job's row, because the spool files it under another identity.         *)
(***************************************************************************)
EXTENDS Integers, FiniteSets, SequencesExt

CONSTANTS
  Job,        \* job ids
  Faults,     \* which of "disconnect", "axis_restart", "orbit_restart", "io" occur
  Retain,     \* MAX_RETAINED_TERMINAL_ATTEMPTS
  MaxConn,    \* bound: connections the Orbit opens
  MaxChunks,  \* bound: output chunks of one execution
  MaxFaults   \* bound: failed I/O operations

ASSUME JobsAssumption ==
  /\ Faults \subseteq {"disconnect", "axis_restart", "orbit_restart", "io"}
  /\ IsFiniteSet(Job)
  /\ Retain \in Nat /\ MaxConn \in Nat /\ MaxChunks \in Nat /\ MaxFaults \in Nat

VARIABLES
  \* Axis
  record,     \* [Job -> JobRecord], the projection of the event log
  watermark,  \* [Job -> orbit_watermarks.seq under the wire id, or -1]
  route,      \* [Job -> the dispatch handler of POST /api/jobs]
  hello,      \* handle_orbit_hello: its phase and what it has still to do
  \* the connection
  conn,       \* its number, 0 when there is none
  opened,     \* connections opened so far
  toOrbit, toAxis,   \* frames on their way
  \* the Orbit
  up,         \* the process runs
  ledger,     \* [Job -> Attempt], attempts.json
  spool,      \* [Job -> Seq(Body)], the rows filed under the raw job id
  sent,       \* [Job -> Nat], rows the replay task sent on this connection
  task,       \* [Job -> [Conn -> the pc of the dispatch task]]
  spooler,    \* [Job -> [Conn -> BOOLEAN]], the spooler of that dispatch runs
  waiter,     \* [Job -> [Conn -> the pc of the waiter task]]
  jobs,       \* [Job -> the execution the jobs map holds, or 0]
  \* the programs, which outlive an Orbit that crashes
  prog,       \* [Job -> [Conn -> what became of the execution]]
  said,       \* [Job -> [Conn -> Nat]], chunks it wrote
  heard,      \* [Job -> [Conn -> Nat]], chunks stream_output took from the pipe
  faults      \* failed I/O operations so far

axisVars  == <<record, watermark, route, hello>>
connVars  == <<conn, opened, toOrbit, toAxis>>
orbitVars == <<up, ledger, spool, sent, task, spooler, waiter, jobs>>
progVars  == <<prog, said, heard>>
vars      == <<axisVars, connVars, orbitVars, progVars, faults>>

Conn    == 1..MaxConn
Verdict == {"succeeded", "failed", "cancelled"}
Ended   == Verdict \cup {"killed"}
Reason  == Verdict \cup
  {"none", "refused", "axis_restarted", "not_reported", "acknowledgement_unknown",
   "gap_or_persistence_failure", "orbit_restarted", "spawn_failed", "spool_loss"}

Status    == {"none", "running", "recovering", "completed", "StepIndeterminate"}
JobRecord == [status : Status, reason : Reason]
NoRecord  == [status |-> "none", reason |-> "none"]

\* A spooled frame's body, with the execution it came from.
Body    == [kind : {"output"}, of : Conn] \cup [kind : {"result"}, of : Conn, verdict : Verdict]
\* RetainedAttempt: pgid is the execution whose process group it names, or 0;
\* state "none": the ledger has no such key.
Attempt   == [state : {"none", "Running", "Completed", "StepIndeterminate"},
              reason : Reason, pgid : 0..MaxConn, final : Int]
NoAttempt == [state |-> "none", reason |-> "none", pgid |-> 0, final |-> -1]
\* JobAttemptStatus, as the Hello reports it.
Report    == [job : Job, state : {"Running", "Completed", "StepIndeterminate"},
              reason : Reason, final : Int]
DownMsg   == [kind : {"dispatch", "cancel", "resume"}, job : Job]
JobFrame  == [kind : {"job"}, job : Job, seq : Nat, body : Body]
RespFrame == [kind : {"resp"}, job : Job, ok : BOOLEAN]
HelloMsg  == [kind : {"hello"}, attempts : SUBSET Report, runtimes : SUBSET Job]
UpMsg     == HelloMsg \cup JobFrame \cup RespFrame

RoutePc   == {"none", "created", "await", "accepted", "refused", "lost", "answered", "gone"}
Route     == [pc : RoutePc, conn : 0..MaxConn]
TaskPc    == {"none", "check", "record", "spawn", "persist", "launch", "respond",
              "refuse", "done"}
WaiterPc  == {"off", "watching", "spooled", "unspooled", "done"}

HelloTask ==
  [phase : {"idle", "through"}, conn : 0..MaxConn]
  \cup [phase : {"published"}, conn : Conn, attempts : SUBSET Report,
        runtimes : SUBSET Job]
  \cup [phase : {"reconcile"}, conn : Conn, attempts : SUBSET Report,
        runtimes : SUBSET Job, pending : SUBSET Job, todo : SUBSET Job]
Idle == [phase |-> "idle", conn |-> 0]

TypeOK ==
  /\ record \in [Job -> JobRecord]
  /\ watermark \in [Job -> Int]
  /\ route \in [Job -> Route]
  /\ hello \in HelloTask
  /\ conn \in 0..MaxConn /\ opened \in 0..MaxConn
  /\ toOrbit \in Seq(DownMsg) /\ toAxis \in Seq(UpMsg)
  /\ up \in BOOLEAN
  /\ ledger \in [Job -> Attempt]
  /\ spool \in [Job -> Seq(Body)]
  /\ sent \in [Job -> Nat]
  /\ task \in [Job -> [Conn -> TaskPc]]
  /\ spooler \in [Job -> [Conn -> BOOLEAN]]
  /\ waiter \in [Job -> [Conn -> WaiterPc]]
  /\ jobs \in [Job -> 0..MaxConn]
  /\ prog \in [Job -> [Conn -> {"none", "gated", "running"} \cup Ended]]
  /\ said \in [Job -> [Conn -> Nat]] /\ heard \in [Job -> [Conn -> Nat]]
  /\ faults \in Nat

PerExecution(x) == [j \in Job |-> [c \in Conn |-> x]]

Init ==
  /\ record = [j \in Job |-> NoRecord]
  /\ watermark = [j \in Job |-> -1]
  /\ route = [j \in Job |-> [pc |-> "none", conn |-> 0]]
  /\ hello = Idle
  /\ conn = 0 /\ opened = 0 /\ toOrbit = <<>> /\ toAxis = <<>>
  /\ up = TRUE
  /\ ledger = [j \in Job |-> NoAttempt]
  /\ spool = [j \in Job |-> <<>>]
  /\ sent = [j \in Job |-> 0]
  /\ task = PerExecution("none")
  /\ spooler = PerExecution(FALSE)
  /\ waiter = PerExecution("off")
  /\ jobs = [j \in Job |-> 0]
  /\ prog = PerExecution("none")
  /\ said = PerExecution(0) /\ heard = PerExecution(0)
  /\ faults = 0

\* An I/O operation fails.
IoFails == "io" \in Faults /\ faults < MaxFaults /\ faults' = faults + 1
-----------------------------------------------------------------------------
(***************************************************************************)
(* The attempt ledger of the Orbit.                                        *)
(***************************************************************************)
Retained(j) == ledger[j].state # "none"
Terminal(l) == {j \in Job : l[j].state \notin {"none", "Running"}}

\* prune_attempts: the terminal attempts beyond the limit go.  Which ones, the
\* wall clock decides (updated_at, which repeats and may step back).
Prune(l) ==
  \E gone \in SUBSET Terminal(l) :
    /\ Cardinality(gone) = LET n == Cardinality(Terminal(l)) IN
                            IF n > Retain THEN n - Retain ELSE 0
    /\ ledger' = [j \in Job |-> IF j \in gone THEN NoAttempt ELSE l[j]]

Entry(state, reason, pgid, final) ==
  [state |-> state, reason |-> reason, pgid |-> pgid, final |-> final]

\* update_attempt: whatever was retained for the job is replaced.
Update(j, a) == Prune([ledger EXCEPT ![j] = a])

\* kill_group, by cancel (which also raises the cancelled flag of an execution
\* that has just ended) and by mark_indeterminate.
Killed(j, c, verdict) ==
  IF c # 0 /\ (prog[j][c] = "running" \/ verdict = "cancelled")
  THEN [prog EXCEPT ![j][c] = verdict] ELSE prog

\* mark_indeterminate: the execution that the jobs map holds is killed.
MarkIndeterminate(j, reason) ==
  /\ Update(j, Entry("StepIndeterminate", reason, jobs[j], -1))
  /\ prog' = Killed(j, jobs[j], "failed")

\* complete_attempt: an attempt that was marked indeterminate stays so.
CompleteAttempt(j, verdict, final) ==
  IF ledger[j].state = "StepIndeterminate"
  THEN UNCHANGED ledger
  ELSE Update(j, Entry("Completed", verdict, 0, final))
-----------------------------------------------------------------------------
(***************************************************************************)
(* The dispatch task of the Orbit: JobTable::spawn and its answer.         *)
(***************************************************************************)
At(j, c, pc) == up /\ task[j][c] = pc
Goto(j, c, pc) == task' = [task EXCEPT ![j][c] = pc]
StopSpooler(j, c) == spooler' = [spooler EXCEPT ![j][c] = FALSE]

\* A retained attempt is not started again.  A working directory that cannot
\* be used refuses the dispatch before anything is retained.
Check(j, c) ==
  /\ At(j, c, "check")
  /\ \/ Retained(j) /\ Goto(j, c, "respond") /\ StopSpooler(j, c) /\ UNCHANGED faults
     \/ ~Retained(j) /\ Goto(j, c, "record") /\ UNCHANGED <<spooler, faults>>
     \/ ~Retained(j) /\ IoFails /\ Goto(j, c, "refuse") /\ StopSpooler(j, c)
  /\ UNCHANGED <<axisVars, connVars, progVars, up, ledger, spool, sent, waiter, jobs>>

Record(j, c) ==
  /\ At(j, c, "record")
  /\ Update(j, Entry("Running", "none", 0, -1))
  /\ Goto(j, c, "spawn")
  /\ UNCHANGED <<axisVars, connVars, progVars, faults, up, spool, sent, spooler,
                 waiter, jobs>>

\* Fault: the process group is not written to the ledger before the launch.
SpawnUnrecorded(j, c) ==
  /\ At(j, c, "spawn")
  /\ Goto(j, c, "launch")
  /\ prog' = [prog EXCEPT ![j][c] = "gated"]
  /\ UNCHANGED <<axisVars, connVars, said, heard, faults, up, ledger, spool, sent,
                 spooler, waiter, jobs>>

\* gated_command: a shell that waits on its stdin before it runs the program.
Spawn(j, c) ==
  /\ At(j, c, "spawn")
  /\ \/ /\ Goto(j, c, "persist")
        /\ prog' = [prog EXCEPT ![j][c] = "gated"]
        /\ UNCHANGED <<ledger, spooler, faults>>
     \/ /\ IoFails
        /\ MarkIndeterminate(j, "spawn_failed")
        /\ Goto(j, c, "refuse") /\ StopSpooler(j, c)
  /\ UNCHANGED <<axisVars, connVars, said, heard, up, spool, sent, waiter, jobs>>

Persist(j, c) ==
  /\ At(j, c, "persist")
  /\ Update(j, Entry("Running", "none", c, -1))
  /\ Goto(j, c, "launch")
  /\ UNCHANGED <<axisVars, connVars, progVars, faults, up, spool, sent, spooler,
                 waiter, jobs>>

\* The gate opens, or the shell behind it is gone and the attempt is left
\* Running in the ledger.
Launch(j, c) ==
  /\ At(j, c, "launch")
  /\ \/ /\ prog' = [prog EXCEPT ![j][c] = "running"]
        /\ jobs' = [jobs EXCEPT ![j] = c]
        /\ waiter' = [waiter EXCEPT ![j][c] = "watching"]
        /\ Goto(j, c, "respond")
        /\ UNCHANGED <<spooler, faults>>
     \/ /\ IoFails
        /\ prog' = [prog EXCEPT ![j][c] = "none"]
        /\ Goto(j, c, "refuse") /\ StopSpooler(j, c)
        /\ UNCHANGED <<jobs, waiter>>
  /\ UNCHANGED <<axisVars, connVars, said, heard, up, ledger, spool, sent>>

\* send_resp, which gives up when the connection is gone.
Emits(c, frames) == IF c = conn THEN toAxis' = toAxis \o frames ELSE UNCHANGED toAxis

Respond(j, c) ==
  /\ up /\ task[j][c] \in {"respond", "refuse"}
  /\ Emits(c, <<[kind |-> "resp", job |-> j, ok |-> task[j][c] = "respond"]>>)
  /\ Goto(j, c, "done")
  /\ UNCHANGED <<axisVars, progVars, faults, conn, opened, toOrbit, up, ledger, spool,
                 sent, spooler, waiter, jobs>>
-----------------------------------------------------------------------------
(***************************************************************************)
(* The program, its output and its end.                                    *)
(***************************************************************************)
Write(j, c) ==
  /\ prog[j][c] = "running" /\ said[j][c] < MaxChunks
  /\ said' = [said EXCEPT ![j][c] = @ + 1]
  /\ UNCHANGED <<axisVars, connVars, orbitVars, faults, prog, heard>>

\* By itself, or killed at its deadline ("failed").
Exit(j, c) ==
  /\ prog[j][c] = "running"
  /\ \E v \in {"succeeded", "failed"} : prog' = [prog EXCEPT ![j][c] = v]
  /\ UNCHANGED <<axisVars, connVars, orbitVars, faults, said, heard>>

FrameAt(j, q) == [kind |-> "job", job |-> j, seq |-> q, body |-> spool[j][q + 1]]

\* The spooler appends a frame and sends it; when the connection it was made
\* for is gone it stops.
SpoolRow(j, c, body) ==
  /\ spool' = [spool EXCEPT ![j] = Append(@, body)]
  /\ Emits(c, <<[kind |-> "job", job |-> j, seq |-> Len(spool[j]), body |-> body]>>)
  /\ IF c = conn THEN UNCHANGED spooler ELSE StopSpooler(j, c)

\* The append fails: the attempt is indeterminate and the spooler stops.
SpoolFails(j, c) ==
  /\ IoFails
  /\ MarkIndeterminate(j, "spool_loss")
  /\ StopSpooler(j, c)
  /\ UNCHANGED <<spool, toAxis>>

\* stream_output hands the next chunk to the spooler; with no spooler to take
\* it, it stops reading and what else the program writes is lost.
Hear(j, c) ==
  /\ up /\ waiter[j][c] # "off" /\ heard[j][c] < said[j][c]
  /\ \/ /\ spooler[j][c]
        /\ heard' = [heard EXCEPT ![j][c] = @ + 1]
        /\ \/ /\ SpoolRow(j, c, [kind |-> "output", of |-> c])
              /\ UNCHANGED <<ledger, prog, faults>>
           \/ SpoolFails(j, c)
     \/ /\ ~spooler[j][c]
        /\ heard' = [heard EXCEPT ![j][c] = said[j][c]]
        /\ UNCHANGED <<spool, toAxis, spooler, ledger, prog, faults>>
  /\ UNCHANGED <<axisVars, conn, opened, toOrbit, up, sent, task, waiter, jobs, said>>

\* What the waiter does once the program has ended and its pipes are drained:
\* it forgets the process and hands the result to the spooler.
HandResult(j, c) ==
  /\ jobs' = [jobs EXCEPT ![j] = 0]
  /\ \/ /\ spooler[j][c]
        /\ \/ /\ SpoolRow(j, c, [kind |-> "result", of |-> c, verdict |-> prog[j][c]])
              /\ waiter' = [waiter EXCEPT ![j][c] = "spooled"]
              /\ UNCHANGED <<ledger, prog, faults>>
           \/ /\ SpoolFails(j, c)
              /\ waiter' = [waiter EXCEPT ![j][c] = "unspooled"]
     \/ /\ ~spooler[j][c]
        /\ waiter' = [waiter EXCEPT ![j][c] = "unspooled"]
        /\ UNCHANGED <<spool, toAxis, spooler, ledger, prog, faults>>
  /\ UNCHANGED <<axisVars, conn, opened, toOrbit, up, sent, task, said, heard>>

\* Fault: the waiter does not join the drains of stdout and stderr.
ConcludeUnjoined(j, c) ==
  up /\ waiter[j][c] = "watching" /\ prog[j][c] \in Ended /\ HandResult(j, c)

Conclude(j, c) ==
  up /\ waiter[j][c] = "watching" /\ prog[j][c] \in Ended /\ heard[j][c] = said[j][c]
  /\ HandResult(j, c)

\* The waiter closes the attempt: completed under the sequence number of its
\* result, or indeterminate when the result has no row.
ResultSeq(j, c) ==
  (CHOOSE i \in DOMAIN spool[j] : spool[j][i].kind = "result" /\ spool[j][i].of = c) - 1

CloseAttempt(j, c) ==
  /\ up
  /\ \/ /\ waiter[j][c] = "spooled"
        /\ CompleteAttempt(j, spool[j][ResultSeq(j, c) + 1].verdict, ResultSeq(j, c))
        /\ UNCHANGED prog
     \/ /\ waiter[j][c] = "unspooled"
        /\ MarkIndeterminate(j, "spool_loss")
  /\ waiter' = [waiter EXCEPT ![j][c] = "done"]
  /\ StopSpooler(j, c)
  /\ UNCHANGED <<axisVars, connVars, said, heard, faults, up, spool, sent, task, jobs>>
-----------------------------------------------------------------------------
(***************************************************************************)
(* The Orbit's connection: Hello, replay, and the frames of Axis.          *)
(***************************************************************************)
\* EventSpool::read: job frames are filed under the raw job id ...
RowsUnder(id) == IF id \in Job THEN spool[id] ELSE <<>>

\* ... and the Hello looks for a result under job_table::wire_id.
WireId(j) == <<"job", j, 1>>

ReportOf(j) ==
  LET rows == RowsUnder(WireId(j)) IN
  IF rows # <<>> /\ Last(rows).kind = "result"
  THEN [job |-> j, state |-> "Completed", reason |-> Last(rows).verdict,
        final |-> Len(rows) - 1]
  ELSE [job |-> j, state |-> ledger[j].state, reason |-> ledger[j].reason,
        final |-> ledger[j].final]

\* run_connection: the Hello reports the ledger and the spooled identities.
Connect ==
  /\ up /\ conn = 0 /\ opened < MaxConn
  /\ opened' = opened + 1 /\ conn' = opened'
  /\ toAxis' = <<[kind |-> "hello",
                  attempts |-> {ReportOf(j) : j \in {k \in Job : Retained(k)}},
                  runtimes |-> {j \in Job : spool[j] # <<>>}]>>
  /\ sent' = [j \in Job |-> 0]
  /\ UNCHANGED <<axisVars, progVars, faults, toOrbit, up, ledger, spool, task, spooler,
                 waiter, jobs>>

\* The periodic replay sends the rows it has not yet sent on this connection.
Replay(j) ==
  /\ up /\ conn # 0 /\ sent[j] < Len(spool[j])
  /\ toAxis' = toAxis \o [i \in 1..(Len(spool[j]) - sent[j]) |-> FrameAt(j, sent[j] + i - 1)]
  /\ sent' = [sent EXCEPT ![j] = Len(spool[j])]
  /\ UNCHANGED <<axisVars, progVars, faults, conn, opened, toOrbit, up, ledger, spool,
                 task, spooler, waiter, jobs>>

\* dispatch_frame.  A ResumeFrom names the raw job id and asks for every row.
OrbitRead ==
  /\ up /\ toOrbit # <<>>
  /\ toOrbit' = Tail(toOrbit)
  /\ LET m == Head(toOrbit)
         j == m.job IN
     \/ /\ m.kind = "dispatch"
        /\ Goto(j, conn, "check")
        /\ spooler' = [spooler EXCEPT ![j][conn] = TRUE]
        /\ UNCHANGED <<toAxis, prog>>
     \/ /\ m.kind = "cancel"
        /\ prog' = Killed(j, jobs[j], "cancelled")
        /\ UNCHANGED <<toAxis, task, spooler>>
     \/ /\ m.kind = "resume"
        /\ toAxis' = toAxis \o [i \in DOMAIN spool[j] |-> FrameAt(j, i - 1)]
        /\ UNCHANGED <<task, spooler, prog>>
  /\ UNCHANGED <<axisVars, conn, opened, said, heard, faults, up, ledger, spool, sent,
                 waiter, jobs>>

\* Both ends see the connection go: what is on it is lost, and the requests
\* that wait for an answer are dropped (fail_all).
LoseConnection ==
  /\ conn' = 0 /\ toOrbit' = <<>> /\ toAxis' = <<>>
  /\ UNCHANGED opened

Moved(r, pc) == [pc |-> pc, conn |-> r.conn]
Dropped(r)   == IF r.pc = "await" THEN Moved(r, "lost") ELSE r
DropRequests == route' = [j \in Job |-> Dropped(route[j])]

Disconnect ==
  /\ "disconnect" \in Faults /\ conn # 0 /\ opened < MaxConn
  /\ LoseConnection /\ DropRequests
  /\ UNCHANGED <<record, watermark, hello, orbitVars, progVars, faults>>

\* The Orbit process dies.  A shell still behind its gate reads end of file
\* and exits; a program that was let go runs on.
OrbitCrash ==
  /\ "orbit_restart" \in Faults /\ up /\ opened < MaxConn
  /\ up' = FALSE
  /\ LoseConnection /\ DropRequests
  /\ task' = PerExecution("none") /\ spooler' = PerExecution(FALSE)
  /\ waiter' = PerExecution("off") /\ jobs' = [j \in Job |-> 0]
  /\ prog' = [j \in Job |-> [c \in Conn |->
                IF prog[j][c] = "gated" THEN "none" ELSE prog[j][c]]]
  /\ UNCHANGED <<record, watermark, hello, ledger, spool, sent, said, heard, faults>>

\* Fault: the ledger is not read back.
OrbitStartForgets ==
  /\ ~up /\ up' = TRUE
  /\ ledger' = [j \in Job |-> NoAttempt]
  /\ UNCHANGED <<axisVars, connVars, progVars, faults, spool, sent, task, spooler,
                 waiter, jobs>>

\* Fault: attempts left Running are left alone.
OrbitStartTrusting ==
  /\ ~up /\ up' = TRUE
  /\ UNCHANGED <<axisVars, connVars, progVars, faults, ledger, spool, sent, task, spooler,
                 waiter, jobs>>

\* JobTable::new: attempts left Running are killed and are indeterminate.
OrbitStart ==
  /\ ~up /\ up' = TRUE
  /\ LET Running(j) == ledger[j].state = "Running" IN
     /\ Prune([j \in Job |-> IF Running(j)
                              THEN Entry("StepIndeterminate", "orbit_restarted", 0, -1)
                              ELSE ledger[j]])
     /\ prog' = [j \in Job |-> [c \in Conn |->
                   IF prog[j][c] = "running" /\ Running(j) /\ ledger[j].pgid = c
                   THEN "killed" ELSE prog[j][c]]]
  /\ UNCHANGED <<axisVars, connVars, said, heard, faults, spool, sent, task, spooler,
                 waiter, jobs>>
-----------------------------------------------------------------------------
(***************************************************************************)
(* Axis: the routes.                                                       *)
(***************************************************************************)
Reconciled(j, status, reason) ==
  record' = [record EXCEPT ![j] = [status |-> status, reason |-> reason]]

\* The connection that orbit_conns holds is usable from the Hello on.
Published == hello.phase # "idle"

\* dispatch: the intent is durable before anything is sent.
RouteCreate(j) ==
  /\ Published /\ record[j] = NoRecord
  /\ Reconciled(j, "running", "none")
  /\ route' = [route EXCEPT ![j] = [pc |-> "created", conn |-> hello.conn]]
  /\ UNCHANGED <<watermark, hello, connVars, orbitVars, progVars, faults>>

RouteSend(j) ==
  /\ route[j].pc = "created"
  /\ \/ /\ route[j].conn = conn
        /\ toOrbit' = Append(toOrbit, [kind |-> "dispatch", job |-> j])
        /\ route' = [route EXCEPT ![j] = Moved(@, "await")]
     \/ /\ route[j].conn # conn
        /\ route' = [route EXCEPT ![j] = Moved(@, "lost")]
        /\ UNCHANGED toOrbit
  /\ UNCHANGED <<record, watermark, hello, conn, opened, toAxis, orbitVars, progVars,
                 faults>>

\* dispatch_indeterminate without an answer, dispatch_failed after a refusal.
RouteFinish(j) ==
  /\ \/ /\ route[j].pc = "lost"
        /\ Reconciled(j, "StepIndeterminate", "acknowledgement_unknown")
     \/ /\ route[j].pc = "refused"
        /\ Reconciled(j, "completed", "refused")
  /\ route' = [route EXCEPT ![j] = Moved(@, "answered")]
  /\ UNCHANGED <<watermark, hello, connVars, orbitVars, progVars, faults>>

\* cancel; one at a time (bound).
CancelRequest(j) ==
  /\ Published /\ hello.conn = conn /\ record[j] # NoRecord
  /\ \A i \in DOMAIN toOrbit : toOrbit[i].kind # "cancel"
  /\ toOrbit' = Append(toOrbit, [kind |-> "cancel", job |-> j])
  /\ UNCHANGED <<axisVars, conn, opened, toAxis, orbitVars, progVars, faults>>

\* JobService::open, in a new process: certainty is gone until an inventory.
AxisRestart ==
  /\ "axis_restart" \in Faults /\ opened < MaxConn
  /\ record' = [j \in Job |->
       IF record[j].status \in {"running", "recovering"}
       THEN [status |-> "StepIndeterminate", reason |-> "axis_restarted"]
       ELSE record[j]]
  /\ route' = [j \in Job |->
       IF route[j].pc \in {"created", "await", "lost", "refused"}
       THEN Moved(route[j], "gone") ELSE route[j]]
  /\ hello' = Idle
  /\ LoseConnection
  /\ UNCHANGED <<watermark, orbitVars, progVars, faults>>
-----------------------------------------------------------------------------
(***************************************************************************)
(* Axis: the connection's handler.                                         *)
(***************************************************************************)
ReadUp(kind) == toAxis # <<>> /\ Head(toAxis).kind = kind /\ toAxis' = Tail(toAxis)

\* handle_orbit_hello publishes the connection first ...
HelloPublish ==
  /\ hello.phase \in {"idle", "through"} /\ ReadUp("hello")
  /\ hello' = [phase |-> "published", conn |-> conn, attempts |-> Head(toAxis).attempts,
               runtimes |-> Head(toAxis).runtimes]
  /\ UNCHANGED <<record, watermark, route, conn, opened, toOrbit, orbitVars, progVars,
                 faults>>

\* ... then picks the dispatches to repeat and the jobs to reconcile ...
Unknown == {"axis_restarted", "not_reported", "acknowledgement_unknown"}
ReportsOn(j) == {r \in hello.attempts : r.job = j}

HelloPick ==
  /\ hello.phase = "published"
  /\ hello' = [phase |-> "reconcile", conn |-> hello.conn, attempts |-> hello.attempts,
               runtimes |-> hello.runtimes,
               pending |-> {j \in Job : /\ record[j].status = "StepIndeterminate"
                                        /\ record[j].reason \in Unknown
                                        /\ ReportsOn(j) = {}},
               todo |-> {j \in Job : record[j].status \notin {"none", "completed"}}]
  /\ UNCHANGED <<record, watermark, route, connVars, orbitVars, progVars, faults>>

\* ... reconciles each with the inventory ...
Settles(j) ==
  hello' = [phase |-> "reconcile", conn |-> hello.conn, attempts |-> hello.attempts,
            runtimes |-> hello.runtimes, pending |-> hello.pending,
            todo |-> hello.todo \ {j}]

\* Fault: the inventory's verdict is recorded before its frames have come.
ReconcileTrusting(j) ==
  /\ hello.phase = "reconcile" /\ j \in hello.todo
  /\ Settles(j)
  /\ \/ /\ ReportsOn(j) = {}
        /\ Reconciled(j, "StepIndeterminate", "not_reported")
     \/ \E r \in ReportsOn(j) :
          \/ r.state = "Running" /\ Reconciled(j, "running", "none")
          \/ r.state = "Completed" /\ Reconciled(j, "completed", r.reason)
          \/ r.state = "StepIndeterminate" /\ Reconciled(j, "StepIndeterminate", r.reason)
  /\ UNCHANGED <<watermark, route, connVars, orbitVars, progVars, faults>>

Reconcile(j) ==
  /\ hello.phase = "reconcile" /\ j \in hello.todo
  /\ Settles(j)
  /\ \/ /\ ReportsOn(j) = {}
        /\ Reconciled(j, "StepIndeterminate", "not_reported")
     \/ \E r \in ReportsOn(j) :
          \/ r.state = "Running" /\ Reconciled(j, "running", "none")
          \/ r.state = "Completed" /\ Reconciled(j, "recovering", "none")
          \/ r.state = "StepIndeterminate" /\ Reconciled(j, "StepIndeterminate", r.reason)
  /\ UNCHANGED <<watermark, route, connVars, orbitVars, progVars, faults>>

\* ... and sends: the dispatches, and a ResumeFrom for every spooled identity
\* (those for the wire ids find no rows and are left out).
HelloSend ==
  LET Messages(kind, J) ==
        [i \in DOMAIN SetToSeq(J) |-> [kind |-> kind, job |-> SetToSeq(J)[i]]] IN
  /\ hello.phase = "reconcile" /\ hello.todo = {}
  /\ toOrbit' = IF hello.conn = conn
                THEN toOrbit \o Messages("dispatch", hello.pending)
                             \o Messages("resume", hello.runtimes)
                ELSE toOrbit
  /\ hello' = [phase |-> "through", conn |-> hello.conn]
  /\ UNCHANGED <<record, watermark, route, conn, opened, toAxis, orbitVars, progVars,
                 faults>>

Handles == hello.phase = "through" /\ hello.conn = conn

\* resolve: only the route's own dispatch has somebody waiting.
ReadResp ==
  /\ Handles /\ ReadUp("resp")
  /\ LET m == Head(toAxis) IN
     route' = IF route[m.job].pc = "await" /\ route[m.job].conn = conn
              THEN [route EXCEPT ![m.job] = Moved(@, IF m.ok THEN "accepted" ELSE "refused")]
              ELSE route
  /\ UNCHANGED <<record, watermark, hello, conn, opened, toOrbit, orbitVars, progVars,
                 faults>>

\* append_orbit_event: the next sequence number, under the wire id.
Takes(m) == m.seq = watermark[m.job] + 1

Store(m) ==
  /\ watermark' = [watermark EXCEPT ![m.job] = m.seq]
  /\ IF m.body.kind = "result" THEN Reconciled(m.job, "completed", m.body.verdict)
                               ELSE UNCHANGED record

\* persist_output and persist_result: frames of an indeterminate attempt are
\* rejected, a duplicate changes nothing, a gap or a failed append makes the
\* attempt indeterminate.
ReadJobFrame ==
  /\ Handles /\ ReadUp("job")
  /\ LET m == Head(toAxis)
         Lost == Reconciled(m.job, "StepIndeterminate", "gap_or_persistence_failure")
                 /\ UNCHANGED watermark
         Known == record[m.job].status \notin {"none", "StepIndeterminate"} IN
     \/ ~Known /\ UNCHANGED <<record, watermark, faults>>
     \/ Known /\ Takes(m) /\ Store(m) /\ UNCHANGED faults
     \/ Known /\ m.seq <= watermark[m.job] /\ UNCHANGED <<record, watermark, faults>>
     \/ Known /\ Lost /\ \/ IoFails
                         \/ m.seq > watermark[m.job] + 1 /\ UNCHANGED faults
  /\ UNCHANGED <<route, hello, conn, opened, toOrbit, orbitVars, progVars>>
-----------------------------------------------------------------------------
Orbit(j, c) ==
  \/ Check(j, c) \/ Record(j, c) \/ Spawn(j, c) \/ Persist(j, c) \/ Launch(j, c)
  \/ Respond(j, c) \/ Hear(j, c) \/ Conclude(j, c) \/ CloseAttempt(j, c)

Axis(j) == RouteSend(j) \/ RouteFinish(j) \/ Reconcile(j)

Handler == HelloPublish \/ HelloPick \/ HelloSend \/ ReadResp \/ ReadJobFrame

Next ==
  \/ \E j \in Job, c \in Conn : Orbit(j, c) \/ Write(j, c) \/ Exit(j, c)
  \/ \E j \in Job : Replay(j) \/ Axis(j) \/ RouteCreate(j) \/ CancelRequest(j)
  \/ Handler \/ OrbitRead \/ Connect \/ OrbitStart
  \/ Disconnect \/ OrbitCrash \/ AxisRestart

Spec == Init /\ [][Next]_vars

(***************************************************************************)
(* The tasks of both processes are scheduled, a program ends at its        *)
(* deadline at the latest, and the supervisor starts a dead Orbit again.   *)
(***************************************************************************)
Fairness ==
  /\ \A j \in Job, c \in Conn : WF_vars(Orbit(j, c)) /\ WF_vars(Exit(j, c))
  /\ \A j \in Job : WF_vars(Replay(j)) /\ WF_vars(Axis(j))
  /\ WF_vars(Handler) /\ WF_vars(OrbitRead) /\ SF_vars(Connect) /\ WF_vars(OrbitStart)

FairSpec == Spec /\ Fairness
-----------------------------------------------------------------------------
(***************************************************************************)
(* Properties.                                                             *)
(***************************************************************************)
Started(j) == {c \in Conn : prog[j][c] = "running" \/ prog[j][c] \in Ended}

\* "Disconnect after Orbit spawn but before response never starts a second
\* process for the same attempt": however often an attempt is dispatched, its
\* program is started once.
StartsOnce == \A j \in Job : Cardinality(Started(j)) <= 1

\* A program that runs while the Orbit is up is one that a waiter watches and
\* a cancel reaches: no crash between the steps of a launch leaves a process
\* that nothing will kill.
NoOrphan ==
  up => \A j \in Job, c \in Conn :
          prog[j][c] = "running" => jobs[j] = c /\ waiter[j][c] = "watching"

\* The result is the last frame an execution puts into the spool.
ResultIsLast ==
  \A j \in Job : \A i, k \in DOMAIN spool[j] :
    (i < k /\ spool[j][i].kind = "result") => spool[j][i].of # spool[j][k].of

\* Axis never invents an outcome: a verdict it has recorded is that of an
\* execution that ended so and whose frames, to the last, it has stored.
VerdictIsReal ==
  \A j \in Job : record[j].status = "completed" =>
    \/ record[j].reason = "refused"
    \/ \E i \in 1..(watermark[j] + 1) :
         /\ spool[j][i].kind = "result" /\ spool[j][i].verdict = record[j].reason
         /\ \A k \in DOMAIN spool[j] : spool[j][k].of = spool[j][i].of => k <= i

\* A dispatch reported as accepted is one the ledger answers for (as long as
\* nothing is pruned).
AcceptedIsRetained ==
  \A j \in Job : route[j].pc = "accepted" => Retained(j)

\* A job is not "running" on both sides for ever: Axis records what became of
\* it, or the Orbit's ledger holds what the next Hello will report.
RunningEnds ==
  \A j \in Job :
    (record[j].status = "running") ~>
      (record[j].status # "running" \/ (Retained(j) /\ ledger[j].state # "Running"))
=============================================================================
