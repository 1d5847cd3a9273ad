------------------------------ MODULE AcpClient ------------------------------
(***************************************************************************)
(* One agent runtime of the Orbit: the ACP client over the pipes of a child *)
(* process. The start sends initialize and session/resume, each under a    *)
(* request id, and waits for the correlated responses; a second attempt    *)
(* has a client and a process of its own. Commands are sent without        *)
(* waiting. A reader task per client turns what the agent writes into       *)
(* events of the runtime's one broadcast channel, and hides the transcript  *)
(* that a resumed agent replays before it answers the handshake.           *)
(*                                                                         *)
(* A line on a pipe is one message; texts, tools and models are abstract.  *)
(***************************************************************************)
EXTENDS Integers, Sequences, FiniteSets, SequencesExt

CONSTANTS
  Command,     \* the prompts and steers sent to the runtime
  Modelled,    \* those that switch the model first
  Transcript,  \* updates a resumed agent replays
  Garbles      \* whether an agent may write a line that is not a message

ASSUME AcpAssumption ==
  /\ Modelled \subseteq Command /\ Transcript \in Nat /\ Garbles \in BOOLEAN

Client == {1, 2}                 \* the attempts of the start

VARIABLES
  starting,    \* where start is
  client,      \* the attempt it is in
  answer,      \* what the awaited completion received
  nextId,      \* [Client -> next_id]
  pending,     \* [Client -> the requests of the pending map]
  waiter,      \* [Client -> ids of the completions map]
  known,       \* clients whose session_id is set
  stdin,       \* [Client -> Seq, requests the agent has not read]
  stdout,      \* [Client -> Seq, messages the reader has not read]
  up,          \* clients whose process runs
  reading,     \* clients whose reader task runs
  replayed,    \* [Client -> transcript updates the agent has written]
  prompted,    \* [Client -> prompts its agent works on]
  sent,        \* commands that were accepted
  told,        \* [Command -> its agent wrote an update]
  events,      \* Seq, the events broadcast
  hidden       \* history: kinds of the messages that were dropped

start == <<starting, client, answer>>
maps == <<nextId, pending, waiter, known>>
pipes == <<stdin, stdout, up, reading>>
agents == <<replayed, prompted, told>>
acpVars == <<start, maps, pipes, agents, sent, events, hidden>>

(***************************************************************************)
(* Helpers                                                                 *)
(***************************************************************************)
Req(id, what, of) == [id |-> id, what |-> what, of |-> of]

(* PendingKind of a request; only a handshake hides notifications. *)
KindOf(q) == CASE q.what = "initialize" -> "Initialize"
               [] q.what = "session" -> "Handshake"
               [] OTHER -> "Command"

Update(kind, of) == [kind |-> kind, req |-> Req(0, "none", of)]
Resp(q, kind) == [kind |-> kind, req |-> q]

(* A request is entered before it is written; the write fails when the
   process is gone, and the entry is taken back. *)
Written(n, reqs) ==
  IF n \in up
  THEN /\ stdin' = [stdin EXCEPT ![n] = @ \o reqs]
       /\ pending' = [pending EXCEPT ![n] = @ \cup ToSet(reqs)]
  ELSE UNCHANGED <<stdin, pending>>

AcpInit ==
  /\ starting = "idle" /\ client = 1 /\ answer = "none"
  /\ nextId = [n \in Client |-> 1] /\ pending = [n \in Client |-> {}]
  /\ waiter = [n \in Client |-> {}] /\ known = {}
  /\ stdin = [n \in Client |-> <<>>] /\ stdout = [n \in Client |-> <<>>]
  /\ up = {} /\ reading = {}
  /\ replayed = [n \in Client |-> 0] /\ prompted = [n \in Client |-> {}]
  /\ sent = {} /\ told = [c \in Command |-> FALSE]
  /\ events = <<>> /\ hidden = {}

(***************************************************************************)
(* start                                                                   *)
(***************************************************************************)
(* ensure_runtime calls start on a new runtime. *)
StartCalled ==
  /\ starting = "idle" /\ starting' = "spawn"
  /\ UNCHANGED <<client, answer, maps, pipes, agents, sent, events, hidden>>

(* spawn_client: the process, the client, its reader. *)
SpawnClient ==
  /\ starting = "spawn" /\ starting' = "initialize"
  /\ up' = up \cup {client} /\ reading' = reading \cup {client}
  /\ UNCHANGED <<client, answer, maps, stdin, stdout, agents, sent, events, hidden>>

(* request_and_wait: the entry and the completion, then the write. *)
Request(what, wait) ==
  /\ starting = what /\ starting' = IF client \in up THEN wait ELSE "broken"
  /\ LET q == Req(nextId[client], what, 0) IN
       /\ Written(client, <<q>>)
       /\ nextId' = [nextId EXCEPT ![client] = @ + 1]
       /\ waiter' = IF client \in up THEN [waiter EXCEPT ![client] = @ \cup {q.id}] ELSE waiter
  /\ answer' = "none"
  /\ UNCHANGED <<client, known, stdout, up, reading, agents, sent, events, hidden>>

Initialize == Request("initialize", "initializing")
Resume == Request("session", "resuming")

(* The completion arrives. *)
Completed ==
  /\ starting \in {"initializing", "resuming"} /\ answer # "none"
  /\ starting' = IF answer = "error" THEN "broken"
                 ELSE IF starting = "initializing" THEN "session" ELSE "started"
  /\ known' = IF answer = "ok" /\ starting = "resuming" THEN known \cup {client} ELSE known
  /\ UNCHANGED <<client, answer, nextId, pending, waiter, pipes, agents, sent, events, hidden>>

(* fail_start and the timeout: the process is reaped. The reader goes on with
   what is in the pipe; its client's maps stay as they are. *)
FailsStart ==
  /\ \/ starting = "broken" /\ starting' = "failed" /\ UNCHANGED client
     \/ /\ starting \in {"initializing", "resuming"}
        /\ starting' = IF client = 1 THEN "spawn" ELSE "failed"
        /\ client' = 2
  /\ up' = up \ {client}
  /\ answer' = "none"
  /\ UNCHANGED <<maps, stdin, stdout, reading, agents, sent, events, hidden>>

(***************************************************************************)
(* Commands                                                                *)
(***************************************************************************)

(* send_command: a prompt that carries a model is preceded by the switch; no
   response is awaited. A failed write is returned to the caller. *)
Send(c) ==
  /\ starting = "started" /\ client \in known /\ client \in up /\ c \notin sent
  /\ LET i == nextId[client]
         qs == IF c \in Modelled
               THEN <<Req(i, "set_model", c), Req(i + 1, "prompt", c)>>
               ELSE <<Req(i, "prompt", c)>> IN
       /\ Written(client, qs)
       /\ nextId' = [nextId EXCEPT ![client] = i + Len(qs)]
  /\ sent' = sent \cup {c}
  /\ UNCHANGED <<start, waiter, known, stdout, up, reading, agents, events, hidden>>

(***************************************************************************)
(* The agent                                                               *)
(***************************************************************************)
Writes(n, m) == n \in up /\ stdout' = [stdout EXCEPT ![n] = Append(@, m)]
NextReq(n) == Head(stdin[n])
Asked(n, whats) == stdin[n] # <<>> /\ NextReq(n).what \in whats

AgentReplays(n) ==
  /\ Asked(n, {"session"}) /\ replayed[n] < Transcript
  /\ replayed' = [replayed EXCEPT ![n] = @ + 1]
  /\ Writes(n, Update("replay", 0))
  /\ UNCHANGED <<start, maps, stdin, up, reading, prompted, told, sent, events, hidden>>

(* The session is answered when the transcript is written. *)
AgentAnswers(n) ==
  /\ Asked(n, {"initialize", "session", "set_model"})
  /\ NextReq(n).what = "session" => replayed[n] = Transcript
  /\ \E kind \in {"ok", "error"} : Writes(n, Resp(NextReq(n), kind))
  /\ stdin' = [stdin EXCEPT ![n] = Tail(@)]
  /\ UNCHANGED <<start, maps, up, reading, agents, sent, events, hidden>>

AgentTakes(n) ==
  /\ n \in up /\ Asked(n, {"prompt"})
  /\ prompted' = [prompted EXCEPT ![n] = @ \cup {NextReq(n)}]
  /\ stdin' = [stdin EXCEPT ![n] = Tail(@)]
  /\ UNCHANGED <<start, maps, stdout, up, reading, replayed, told, sent, events, hidden>>

AgentTells(n) ==
  \E q \in prompted[n] :
    /\ ~told[q.of] /\ told' = [told EXCEPT ![q.of] = TRUE]
    /\ Writes(n, Update("live", q.of))
    /\ UNCHANGED <<start, maps, stdin, up, reading, replayed, prompted, sent, events, hidden>>

AgentEnds(n) ==
  \E q \in prompted[n] :
    /\ prompted' = [prompted EXCEPT ![n] = @ \ {q}]
    /\ \E kind \in {"stop", "error"} : Writes(n, Resp(q, kind))
    /\ UNCHANGED <<start, maps, stdin, up, reading, replayed, told, sent, events, hidden>>

(* Bound: one such line waits in the pipe. *)
AgentGarbles(n) ==
  /\ Garbles
  /\ \A i \in DOMAIN stdout[n] : stdout[n][i].kind # "garbled"
  /\ Writes(n, Update("garbled", 0))
  /\ UNCHANGED <<start, maps, stdin, up, reading, agents, sent, events, hidden>>

AgentDies(n) ==
  /\ n \in up
  /\ up' = up \ {n}
  /\ UNCHANGED <<start, maps, stdin, stdout, reading, agents, sent, events, hidden>>

(***************************************************************************)
(* The reader                                                              *)
(***************************************************************************)

(* The pending map after a message: a response takes its entry. *)
Left(n, m) == pending[n] \ {m.req}

(* Notifications are hidden while a handshake is pending. *)
Replaying(n, m) == \E q \in Left(n, m) : KindOf(q) = "Handshake"

(* from_notification, from_response: a response without a stop reason is no
   event, an error is one whatever it answers. *)
EventOf(m) ==
  CASE m.kind \in {"replay", "live"} -> <<[kind |-> m.kind, what |-> "update"]>>
    [] m.kind = "stop" -> <<[kind |-> "done", what |-> m.req.what]>>
    [] m.kind = "error" -> <<[kind |-> "error", what |-> m.req.what]>>
    [] OTHER -> <<>>

Reads(n) ==
  /\ n \in reading /\ stdout[n] # <<>>
  /\ stdout' = [stdout EXCEPT ![n] = Tail(@)]

ReadMessage(n) ==
  /\ Reads(n)
  /\ LET m == Head(stdout[n]) IN
       /\ m.kind # "garbled"
       /\ pending' = [pending EXCEPT ![n] = Left(n, m)]
       /\ waiter' = [waiter EXCEPT ![n] = @ \ {m.req.id}]
       /\ answer' = IF n = client /\ m.req.id \in waiter[n] THEN m.kind ELSE answer
       /\ IF m.kind \in {"replay", "live"} /\ Replaying(n, m)
          THEN hidden' = hidden \cup {m.kind} /\ UNCHANGED events
          ELSE events' = events \o EventOf(m) /\ UNCHANGED hidden
  /\ UNCHANGED <<starting, client, nextId, known, stdin, up, reading, agents, sent>>

(* Fault: the end of the reader wakes nobody. *)
FailPendingSilently(n) ==
  /\ pending' = [pending EXCEPT ![n] = {}] /\ waiter' = [waiter EXCEPT ![n] = {}]
  /\ reading' = reading \ {n}
  /\ UNCHANGED answer

(* fail_pending: every completion gets the error; no event is sent. *)
FailPending(n) ==
  /\ pending' = [pending EXCEPT ![n] = {}] /\ waiter' = [waiter EXCEPT ![n] = {}]
  /\ reading' = reading \ {n}
  /\ answer' = IF n = client /\ waiter[n] # {} THEN "error" ELSE answer

(* The end of the stream, or a line that does not decode, ends the reader. *)
ReadEnd(n) ==
  /\ \/ n \in reading \ up /\ stdout[n] = <<>> /\ UNCHANGED stdout
     \/ Reads(n) /\ Head(stdout[n]).kind = "garbled"
  /\ FailPending(n)
  /\ UNCHANGED <<starting, client, nextId, known, stdin, up, agents, sent, events, hidden>>

(***************************************************************************)
(* Specification                                                           *)
(***************************************************************************)
AcpNext ==
  \/ StartCalled \/ SpawnClient \/ Initialize \/ Resume \/ Completed \/ FailsStart
  \/ \E c \in Command : Send(c)
  \/ \E n \in Client : \/ AgentReplays(n) \/ AgentAnswers(n) \/ AgentTakes(n)
                       \/ AgentTells(n) \/ AgentEnds(n) \/ AgentGarbles(n) \/ AgentDies(n)
                       \/ ReadMessage(n) \/ ReadEnd(n)

AcpSpec == AcpInit /\ [][AcpNext]_acpVars

(* The tasks of the runtime run on. Nothing is assumed of the agent, nor of
   the timeout. *)
AcpFairness ==
  /\ WF_acpVars(SpawnClient \/ Initialize \/ Resume \/ Completed)
  /\ WF_acpVars(starting = "broken" /\ FailsStart)
  /\ \A n \in Client : WF_acpVars(ReadMessage(n) \/ ReadEnd(n))

(***************************************************************************)
(* Properties                                                              *)
(***************************************************************************)
Waiting == {"initializing", "resuming"}

AcpTypeOK ==
  /\ starting \in {"idle", "spawn", "initialize", "session", "started", "broken", "failed"} \cup Waiting
  /\ client \in Client /\ answer \in {"none", "ok", "error"}
  /\ nextId \in [Client -> Nat \ {0}]
  /\ \A n \in Client : \A q \in pending[n] \cup prompted[n] : q.id \in 1..(nextId[n] - 1)
  /\ \A n \in Client : waiter[n] \subseteq 1..(nextId[n] - 1)
  /\ known \subseteq Client /\ up \subseteq Client /\ reading \subseteq Client
  /\ replayed \in [Client -> 0..Transcript] /\ sent \subseteq Command
  /\ told \in [Command -> BOOLEAN]

(* A start whose process dies while the reader runs ends at once, without its
   timeout. (A line that does not decode ends the reader; then only the timeout
   is left.) *)
Waits(n) == starting \in Waiting /\ client = n
DeathEndsStart ==
  \A n \in Client : (Waits(n) /\ n \in reading \ up) ~> ~Waits(n)

=============================================================================
