# Stellarc in TLA+

Stellarc is a control plane for coding agents. One **Axis** (`crates/axis`) owns
sessions, jobs, the event log and the HTTP and WebSocket API. Any number of
**Orbits** (`crates/orbit`) run agents, jobs and terminals on their machines and
keep one connection each to Axis, over a Unix socket or iroh. `crates/proto`
holds the frames they exchange. This directory holds TLA+ models of that system,
the TLC configurations that check them and the TLAPS proofs about them.

Sections: 1 the system, 2 the modules, 3 the runs, 4 the fairness, 5 what goes
wrong, 6 what is proved, 7 what is only model-checked, 8 what is not modelled,
9 how to run it, 10 what is left to do. Paths are relative to `src/`.

## 1. The system: components, state, operations, hazards

| Component | State | Operations | What makes it hard | What makes it correct | Module |
|---|---|---|---|---|---|
| Event spool and transport (`orbit/src/spool.rs`, `orbit/src/entry.rs`, `axis/src/log.rs`) | `execution_sequences`, `execution_events`, `orbit_watermarks`, two streams | `append_next`, `acknowledge`, drain tasks, periodic replay, `ResumeFrom`, `accept_orbit_seq`, Ack | many tasks write one stream, crash between append and send, gaps, a failed transaction | numbers are dense; a row leaves only when Axis has it; each event accepted once, in order | `EventTransport` |
| Job attempts (`orbit/src/job_table.rs`, `axis/src/jobs.rs`) | `attempts.json`, child processes, projection of job events | `spawn`, `cancel`, `complete_attempt`, `prune_attempts`, `pending_dispatches`, `reconcile` | launch in five steps, lost answers, inventories older than the job | a program starts once and never runs unwatched; an outcome is never invented | `JobAttempts` |
| Node and connection registry (`axis/src/node.rs`, `orbit_conn.rs`) | `NodeRegistry`, `OrbitConnections`, epochs | hello, heartbeat, re-register, eviction, drain, removal, teardown | handlers of several epochs interleave | routes lead to the newest live connection | `NodeRegistry` |
| Session turns (`axis/src/server/routes/sessions.rs`, `bridge_mgr.rs`) | in-flight set, pending steers, log and views | `post_message`, `steer`, `cancel`, the task of a turn | concurrent prompts on one channel, lag, skipped terminal events | a turn ends by its own event, and its text is stored before it is announced | `SessionTurns` |
| Runtime table (`orbit/src/runtime_table.rs`) | runtimes, start locks, last activity | `ensure_runtime`, `send`, `stop`, `reap_idle` | stop racing start, the reaper's stale snapshot | one runtime per session, no process nobody knows of | `RuntimeTable` |
| ACP client (`orbit/src/bridge`) | pending calls, completions, broadcast | handshake, commands, permission answers, reader | correlation, death of the child | every call gets its own answer | `AcpClient` |
| Terminals (`orbit/src/pty.rs`, `server/terminal_ws.rs`) | attachments, tmux sessions, channels | open, detach, close, exit | stale entries, frames handled in any order | no operator is left on a dead shell | `Terminals` |
| state.db readers (`orbit/src/observer.rs`, `axis/src/sync.rs`) | cursors into a foreign database | `poll`, tail, seed | limits, compaction, restarts, failed polls | no message skipped or repeated | `StateDb` |
| Event log and projections (`axis/src/log.rs`, `log_pg.rs`, `views`) | events, SQL rows, in-memory views | `append`, apply, boot: purge, replay, import | append and apply are two steps; the boot runs beside handlers | what is shown is stored and the reverse; a boot changes nothing | `EventStore` |
| Live client stream (`server/ws.rs`) | channel, subscriptions, login of a client | snapshot, broadcast, lag, resync | broadcasts follow changes without the lock | a client that has read its channel is current | `ClientStream` |
| Capabilities (`axis/src/server/capability.rs`) | signed envelopes, lineage | create, fork, patch, authorize | a patch is judged by an old record; replay at boot | authority never grows | `SessionCapabilities` |
| Vaults (`axis/src/vault.rs`) | files under jj | PUT, DELETE, POST | nothing serialises the file operations | a creation is exclusive | `Vaults` |
| Packages, registry, set-ups, repositories (`server/routes/packages.rs`, `registry`, `setup`, `repos`) | records, adapter entries, declarations | install, grant, activate, remove, restore, put | two ways in, one without the lock; replay | one unbound provider per capability | `Packages` |
| Sign-in mode (`axis/src/auth_mode.rs`, `auth_sidecar.rs`, `entry.rs`) | a file, two stores of accounts | choose, boot, register | file created before it is written; the sidecar away | one authority for good | `SignIn` |
| Enrollment and allowlist (`axis/src/enroll.rs`, `node.rs`) | tokens, `axis.toml`, rows | mint, register, remove, Hello | read, write, rename without a lock; crash in between | the allowlist is what was enrolled | `Enrollment` |
| Set-up adapters (`orbit/src/adapter/`) | files in the session's directory | materialize | prompts overlap on the same files | what is declared is there | `SetupAdapters` |
| Edge and reverse proxy (`axis/src/edge/`, `proxy.rs`) | desired routes, Caddy's, the proxy table, files | create, delete, publish, reconcile | three copies, lost answers | they converge | `EdgeRoutes` |
| Principals, discovery, transports, search, IRC, clients | little or none | | input and output | | none, section 8 |

How they interact. An HTTP handler on Axis sends a request frame to an Orbit
(`OrbitConnection::send_request`) and waits for the `Resp` with its request id.
The Orbit spawns a task for every frame except an `Ack`, which its read loop
handles itself. What a runtime or a job produces is appended to the spool under
the next sequence number of its session and then sent; Axis passes it through
the gate, hands it to the consumer and acknowledges it, which removes it from the
spool. A connection starts with a `Hello` that carries the sessions the spool
knows and the attempts the ledger retains; Axis answers it with the dispatches
to repeat and a `ResumeFrom` for each. A turn's task subscribes to the events
that pass the gate, appends what it has heard to the log, applies it to the views
and broadcasts it to the clients. Before a prompt the adapters write what the
organization has declared into the session's directory.

`PROJECT.json` lists every component with its sources and status, and every
hazard with the line where it bites and the properties that watch it.

## 2. Modules

| Module | Composes with |
|---|---|
| `ExactlyOnceLog` | the abstract specification that `EventTransport` implements |
| `EventTransport`, `JobAttempts`, `NodeRegistry`, `SessionTurns` | have a run each, through the `MC` module of their name, which adds the symmetry TLC may use |
| `RuntimeTable`, `AcpClient`, `Terminals` | `MCOrbit` runs them side by side |
| `EventStore`, `StateDb`, `ClientStream`, `SessionCapabilities` | `MCSessions` runs them side by side |
| `Vaults`, `Packages`, `SignIn`, `Enrollment`, `SetupAdapters`, `EdgeRoutes` | `MCAxis` runs them side by side |
| `*_proofs` | the theorems, section 6 |

Side by side: these components share no state in the code, so their product says
nothing that the parts do not. A variable `part` chooses one of them in the initial
state; the others stay as they started. Each module keeps a specification of its
own, which is the one the theorems speak of.

Where the modules meet. `EventTransport` shows that every event spooled arrives
once and in order: `JobAttempts` keeps the spool's rows and the gate's watermark and
lets a connection carry any number of frames, `SessionTurns` has a FIFO wire and a
backlog, `StateDb` a queue of observations. `NodeRegistry` has how connections come,
replace one another and go; the others open and lose one. `RuntimeTable` has who may
start a runtime, `AcpClient` the messages of that start. `SessionTurns` has one
session's rows and view; `EventStore` has all events and their replay.

### EventTransport

| Variable | Code |
|---|---|
| `emitted`, `working`, `ended` | the broadcast of a runtime or a job (`bridge/client.rs`), its turn, its terminal events |
| `nextSeq`, `spool` | `execution_sequences.next_seq`, the rows of `execution_events` |
| `drain` | the tasks in `send_and_stream` and the spooler of a job |
| `replay` | `replay_handle` in `run_connection`, with `sent_through` |
| `resume` | the task spawned for a `ResumeFrom` |
| `link`, `opened`, `upWire`, `downWire` | the connection, as two streams of at most `WireCap` frames |
| `reading`, `applying` | `handle_orbit_conn` and what it owes for the frame it has read |
| `watermark` | `orbit_watermarks.seq` |
| `subscriber` | the channel `subscribe_events` gave to the turn that listens |
| `journal`, `accepted`, `delivered` | history: what was committed, accepted and delivered |

Abstractions. A frame weighs one unit of the capacity. Only the latest turn's
listener is kept per session, and a channel does not lag (`SessionTurns` has the lag).
Axis keeps reading an old connection until it notices, the Orbit has one. The
`ResumeFrom` that Axis sends for a job's wire id finds no row and is left out.
Heartbeats and the Hello of a re-registration carry no event and are left out.

### JobAttempts

| Variable | Code |
|---|---|
| `record`, `watermark` | the projection of `JobService`, the watermark of the wire id |
| `route` | the handler of `POST /api/jobs`, from the durable intent to its answer |
| `hello` | `handle_orbit_hello`: publish, pick, reconcile, send |
| `ledger` | `attempts.json`, ordered by `updated_at` |
| `task`, `spooler`, `waiter`, `jobs` | the dispatch task in `JobTable::spawn`, the spooler task, the waiter task, the `jobs` map |
| `prog`, `said`, `heard` | the process behind its gate, what it wrote, what `stream_output` read |
| `spool`, `sent` | the rows under the raw job id, what the replay task has sent |
| `conn`, `toOrbit`, `toAxis`, `up` | the connection and the Orbit process |

Abstractions. The verdict "failed" stands for a timeout as well. The append of a
frame and its live send are one step, so are a `ResumeFrom` and a pass of the
periodic replay. No acknowledgement is modelled, because none removes a job's
row (section 5), and the look-up of a `JobResult` under the wire id in the Hello
finds nothing for the same reason. One connection at a time; Axis finishes the
Hello of an old one before it takes the next. `attempt_epoch` is 1, the only one
the routes issue. Writes of the ledger itself do not fail. `Retain` scales
`MAX_RETAINED_TERMINAL_ATTEMPTS` (1024) down to 1.

### NodeRegistry

| Variable | Code |
|---|---|
| `link`, `opened` | the stream `run_orbit` holds; the connections it has opened, numbered as `allocate_epoch` does |
| `heart`, `unacked` | the heartbeat task between its send and its check, `unacked_heartbeats` |
| `upWire`, `downWire` | the frames of each connection on their way |
| `pc` | `handle_orbit_conn` of each connection: Hello, roles, publication, read loop, the steps of the teardown |
| `closing` | `OrbitConnection::close`, a task: signal, fail the pending requests, shut the writer down |
| `enrolled`, `entry`, `roles` | the inventory, the `NodeEntry` (its status, the epoch that owns it, the age of its last heartbeat), the roles map |
| `routes` | `OrbitConnections.inner` |
| `operator`, `request` | `remove_node` between its steps; a request between its look-up, its slot, its frame and its end |
| `served`, `removed` | history: the connections that were published, those an operator took out |

Each handler takes the locks of the entries, the roles and the connections one
after the other, and each is a step. Abstractions. One node id, so the look-up by
key finds the same entry. Ages are three: fresh, past `HEARTBEAT_TIMEOUT`, past
`EVICTION_TIMEOUT`. Epochs go on counting over an Axis restart, which keeps
nothing that compares them. A frame that the Orbit handles in a spawned task is
taken from the wire when that task runs. The operator removes a node that is not
enrolled: the removal of one that is also revokes its key (`Enrollment`), and that
node does not come back. The frames of `EventTransport` and `JobAttempts` are left
out, so the handler serves from the step that publishes its connection.

### SessionTurns

| Variable | Code |
|---|---|
| `rows`, `view` | the `MessageAppended` events of the session in the log; the ids its `MessageView` holds |
| `inFlight`, `steerPending`, `awaiting`, `hosted` | `BridgeManager`: `in_flight`, `steer_pending`, `awaiting_input`, the runtime of the Axis process |
| `pc`, `mid`, `chan` | each turn's handler and spawned task, the id it took from `next_id`, the runtime it uses |
| `queue`, `muted`, `heard` | the receiver of its broadcast channel, `suppressing_steer_ack`, `assistant_text` |
| `steer`, `cancel` | the other two handlers between their steps |
| `link`, `wire`, `backlog`, `relay` | the Orbit's connection, the frames on it, its spool, the prompts it drains |
| `working`, `spoke`, `asked` | what the agents do |
| `endedBy`, `signalled`, `crossed` | history |

Abstractions. Titles, the materialised set-up, tool calls and reasoning, which feed
the reply as text does. The spool of the Orbit is a backlog that the next connection
carries in order, as `EventTransport` shows.

### RuntimeTable, AcpClient, Terminals

`RuntimeTable` has one managed session: `registered` and `age` are its entry and
`last_activity`, `mapped` and `lockOf` its lock in `start_locks` and who holds a
reference to it, `ensuring`, `attempt` and `child` the requests in `ensure_runtime`,
`closing` and `target` those in `stop` and the reaper, `alive` the processes. A runtime
is named by the request that made it. The reaper's task is aborted when its connection
ends (`AbortReaper`), at either of its awaits.

`AcpClient` has one runtime: `starting`, `client`, `answer` are the start and its two
attempts, `pending`, `waiter`, `nextId`, `known` the client's maps, `stdin` and `stdout`
the pipes, `reading` the reader task, `events` its broadcast channel. The agent is
external: it answers, replays, writes what is no message and dies when it likes.

`Terminals` has one terminal, hosted by Axis or by an Orbit, with or without tmux:
`entry`, `spawned`, `plan`, `running`, `reader`, `shell` are the `PtyManager` and its
children, `open` and `mine` the calls of `PtyManager::open` in progress, `relay`,
`listening`, `exited` the relays of `terminal_ws.rs`, `closes` the `TerminalClose`
frames not handled. Bytes and window sizes change nothing there and are left out.

### EventStore, StateDb, ClientStream, SessionCapabilities

`EventStore`: `log` the events, `rows` the SQL projection written in an event's own
transaction, `view` the `ViewManager`, `observed` the tables of `accept_observed`,
`indexing` the import task of a boot. A handler is the list of its appends and
applications (`handlers`), and `Do(h)` takes its next step, so handlers interleave as
they do without the views' lock. `backend` chooses SQLite or Postgres. Messages have
ids and no text, cards no comments.

`StateDb`: `created`, `table`, `compacted` are Hermes' database (external); `observing`,
`cursor`, `listed` the `run_observer` task of an Orbit, `spooled` and `relayed` its
observations on the way and in the log; `syncing`, `tail`, `counts`, `todo` the worker of
`sync.rs`, `mirrored` what it appended. One of the readers runs. `since`, `missed` and
`recounted` are history.

`ClientStream`: `owner` and `title` are the views, `doing` the frames that a handler has
yet to broadcast after it has released the lock, `broadcasts` the channel; of each client `valid`
is its login, `socket`, `member`, `subs`, `next`, `lagged` its socket, its organization, its
subscriptions and its place in the channel, `shown` and `heard` what it shows and has heard
of, `fresh` the sessions added since its channel was opened.

`SessionCapabilities`: `stored` is what a boot replays, `sessions` the view, `asking` the
requests between their check, their appends and their application. `Authorized` asks the
whole `Lineage`, every session that `authorize_capability` meets from parent to parent; it is
defined by closed sets and not by recursion, so that it can be reasoned about. `ParentOf` are
the forks that are there at the start.

### Vaults, Packages, SignIn, Enrollment, SetupAdapters, EdgeRoutes

`Vaults`: `file` are the notes, `asked` and `step` the handlers, each a sequence of file
system calls: the check, the open that truncates, the write, the snapshot of jj, the
removal of a note whose snapshot failed. A `cid` is the text it is the hash of.

`Packages`: `shown` are the views and `stored` what a replay gives, each with the records
(`held`), the adapter entries and the declarations; `putting` are the handlers that append
first and apply afterwards. The activation order is by a clock that may step back.

`SignIn`: `modeFile` with its torn state, `accounts`, `socket`, and a boot in its five
steps. `Enrollment`: `tokens`, `allowed` (`axis.toml`), `scratch` (`axis.toml.tmp`),
`rows` and `rostered` (the registry and what `nodes.json` keeps), `requests` between
read, write, rename and the change of the rows, `accepted` (connections before Hello).

`SetupAdapters`: `registry`, `declared` and `agent` are what a prompt materialises, `mcpJson`,
`config`, `settings`, `skills` the files of the three harnesses, `post` each prompt's place in
`materialize`. `EdgeRoutes`: `desired` (the `EdgeManager`), `caddy`, `table` (the `ProxyTable`),
`published` (files), `request`, and `sweep`, the reconciliation between its read and its
apply. An exchange with Caddy succeeds, fails, or succeeds with its answer lost.

## 3. What the runs check

| Run | Question | Bounds |
|---|---|---|
| `transport_safety` | does any mixture of live sends, replays, crashes and failed transactions lose, duplicate or reorder an event, and is the path an `ExactlyOnceLog`? | 1 session, 1 drain task, 3 events, 2 connections, capacity 2, wire 1, 1 failed transaction |
| `transport_live` | does every row drain and every ended turn's task return, with both ends writing while they read? | 2 events, 2 connections, wire 1 |
| `jobs_restart` | does a program start once, watched, and report its result last, with Orbit crashes at every step of a launch and failed spawns, spools and gates? | 1 job, 3 connections, 1 chunk, 1 failure |
| `jobs_faults` | are recorded outcomes real and accepted dispatches retained, with disconnects, Axis restarts and Orbit crashes in any order? | 1 job, 2 connections, 1 chunk, 1 failure |
| `registry` | do registrations, supersessions, removals, drains and teardowns of two epochs disturb one another, and does the node come back? | 2 connections, 1 fault, 1 timeout, 1 missing heartbeat, wire 1 |
| `turns_safety` | is the mark the turn's own, is a reply stored before it is announced, does a turn end by its own event? | 2 turns, 1 steer, channel 2, 2 connections, failures, permission requests |
| `turns_live` | does a turn end although its channel holds one event, appends fail, its connection is lost, or it is cancelled? | 2 turns, channel 1, 1 connection |
| `turns_permission` | is a permission request recorded as awaiting the operator? (violated) | 1 turn |
| `orbit` | one start at a time and no stray process; a start whose agent died ends; a dead runtime is reaped; an operator learns of the end of a shell | 2 requests, 1 stop, threshold 1; 1 command, 1 replayed update; 2 relays, 2 attachments, 2 connections |
| `sessions` | views, log and rows agree through handlers and boots; observations are complete; a client is current; authority narrows | 2 + 1 sessions, 2 handlers, 1 boot; 1 + 1 sessions, 4 rows, limit 2; 1 client, 1 session, channel 1, 2 broadcasts; 3 sessions, one of them a fork from the start, 2 requests, 2 patches |
| `store_postgres` | does a boot on Postgres keep the rows of native sessions? (violated) | 2 + 1 sessions, 2 handlers, 1 boot |
| `axis` | creations, providers, authority, allowlist, set-ups, routes under concurrent requests and crashes | 2 writers, 2 paths; 2 packages; 3 boots; 2 keys, 4 requests, 1 boot; 2 prompts, 3 changes; 3 calls, 2 faults |

The properties, by the question they answer:

* `NoLoss`, `DeliveredInOrder`, `ExactlyOnce`: sequence numbers are dense, a row
  leaves the spool only when Axis has accepted it, the gate accepts the journal in
  order and once. `SpoolDrains`, `DrainEnds`: no deadlock between replay and
  acknowledgement; a prompt is answered when its turn ends.
* `StartsOnce`, `NoOrphan`: the launch protocol under crashes. `ResultIsLast`,
  `VerdictIsReal`, `AcceptedIsRetained`: an outcome that Axis records is that of an
  execution whose every frame it stores; what the Orbit said it took, it answers for.
  `RunningEnds`: a job is not "running" on both sides for ever.
* `RoutedOrClosing`, `OnlyOlderClosed`: a served connection is the one requests go to
  or is being closed; only a newer one or the operator closes it. `RegistrationKept`:
  the late death of an older connection takes nothing away, the defect of postmortem
  0037. `ComesBack`: heartbeats and `ReRegister` repair what eviction, removal, loss or
  restart did.
* `MarkBelongsToTurn`, `StoredFirst`, `NotCutShort`, `CalmTurnsEnd`: section 2's turns.
* `OneStart`, `NoStray`, `DeadIsReaped`, `DeathEndsStart`, `ExitIsTold`: nothing runs
  that nobody would stop, nobody waits for what has died.
* `ViewsMatchLog`, `LogIsSound`, `RowsMatchViews`, `BootIsInvisible`: append and apply
  are two steps, and a boot replays beside them. `ObservedInFull`, `ClientIsCurrent`,
  `AuthorityNarrows`: a cursor, a channel and a check that may be stale.
* `CreatesAreExact`, `RefusedIsUnseen`, `NoRivals`, `AuthorityKept`, `OneRowPerKey`,
  `AllowlistIsExact`, `DeclaredIsThere`, `TableFollowsEdge`, `CaddyConverges`: two copies
  of one truth, or a check and the act it allows, with others in between.

Why the bounds are enough. Two connections are what a replay on a new connection
against frames of the old one needs; the third in `jobs_restart` lets an inventory be
reported, acted on and reported again. Capacity 2 with 3 events makes the spool
overflow and drain again. A wire or a channel of one makes every writer wait or every
slow reader lag. A fault happens after any step. Sessions do not share state except
the connection, whose blocking one session and several tasks show already. `Missed`
scales `HEARTBEAT_REREGISTER_AFTER` (3) to 1. Two requests at a time are what a check
that another invalidates needs; the third call or change lets a third meet the state
they left. Where a theorem of section 6 states the property, the bounds do not matter.

What is left out of a property's claim is said where it is defined, and each of the
exceptions is a behaviour of section 5: `StartsOnce` and `NoOrphan` are checked with
connections that are lost only with the Orbit, `NotCutShort` without crossing turns,
`AuthorityNarrows` for a lineage that no two requests race for, `ClientIsCurrent` without lag,
`AllowlistIsExact` without overlapping requests, `LogIsSound` without the projects in `revived`.

The `sessions` run takes the two requests of `SessionCapabilities` as symmetric. Nothing tells
them apart, and the run checks invariants and properties of steps only, so that is sound.

Deadlock is checked in `registry`: an Orbit never stops. In the others it is not: within
the bounds a system with no work left stops.

## 4. Fairness

Tasks and loops of both processes are scheduled: weak fairness of each. In particular

* `EventTransport`: the tasks that write to one connection queue for its writer on a
  tokio mutex, which is first come, first served, and a replay pass visits every
  session: a send that is possible again and again happens (strong fairness).
* `JobAttempts`: the Orbit reconnects in a loop (strong fairness of `Connect`); a program
  ends at its deadline, because the waiter kills it.
* `NodeRegistry`: weak fairness is enough: a frame at the head of a wire stays there
  until it is read.
* `SessionTurns`: an agent answers every prompt and steer in the end (`AgentEnds`); no
  timeout of Axis ends a turn, so without it nothing would.
* `RuntimeTable`: time passes and the reaper wakes up; its removal is strongly fair, for a
  pass lasts a moment and some connection lasts longer.
* `AcpClient`: the tasks of the start and the readers; nothing is assumed of the agent.
* `EdgeRoutes`: the reconciliation ticks for ever, and an exchange ends by its timeout.

Nothing obliges a user to start work, a producer to emit, or a connection to fail, and
faults stop at their bound: what is shown is that the system settles once they do.

## 5. What goes wrong

Two runs violate a claim of the source (`findings` in `PROJECT.json`):

1. `turns_permission`: the drain loop matches `AwaitingInput` twice. The first arm
   (`sessions.rs:1402`) only logs, so nothing is recorded, `POST /permission` answers
   409, and the turn that asked never ends.
2. `store_postgres`: `retain_native` of the Postgres log (`log_pg.rs:262`) deletes the
   rows and messages of every session whose source is not empty, native ones included.

The models contain more behaviour that a maintainer should know of. Each is in the
actions, and the properties above exclude it by name or are silent about it.

* Transport: job rows are filed under the job id and acknowledged under
  `job:{id}:{epoch}` (`spool.rs:205`): they never leave. A drain task ends at its first
  failed send, and the rest of its turn is not spooled, where ADR 0008 promises the
  opposite. Axis drops the turn id, so a replayed event reaches the turn that listens now.
* Jobs: two dispatch tasks of different connections can both pass the check of
  `JobTable::spawn` (`job_table.rs:103`) and start the program twice. A dispatch handler
  that loses its connection overwrites a completed record with `StepIndeterminate`.
  Pruning a terminal attempt that Axis has not settled makes Axis dispatch it again.
* Registry: `close` fails the pending requests and then shuts the writer down
  (`orbit_conn.rs:429`): a request that gets its slot in between waits for ever.
* Turns: cancel, steer and permission look for the runtime in the Axis process, so for a
  session on an Orbit a cancel only clears the mark and a steer answers 409. A failed
  steer leaves `steer_pending`, and the next `Done` is swallowed. A failed send
  broadcasts `message.done` with no stored row. Two concurrent posts may take one id.
* Runtimes: prompts do not touch `last_activity` (`entry.rs:886`), so a busy runtime is
  reaped. The end of a connection aborts the reaper half way (`entry.rs:583`) and leaves
  a process behind. The death of an agent emits no event; one line that does not decode
  ends the reader (`client.rs:115`).
* Terminals: the entry of a shell that has exited stays; two concurrent opens spawn two
  attachments; a failed open on an Orbit is never shown; input or close may overtake it.
* Log and views: a card assigned to an imported session is purged with it at a boot; the
  Postgres log never purges events; a subsession's fork is applied although its append
  failed; a replay after an import applies some events twice. So a project deleted while its
  creator waits for the views' lock (`support.rs:67`) comes back: the creation is stored, the
  import's replay (`entry.rs:466`) shows it, somebody deletes it, the creator applies its event,
  and from then to the next boot sessions can be attached to a project that the log has deleted.
* state.db: after a compaction numbers are used again; a message may be emitted before its
  session; the cursor passes what a failed poll or append lost; the worker's seed takes
  the highest id for the count (`sync.rs:139` reads the columns in the other order), the
  reconciliation puts the count back, and numbers are given again, where `sync.rs:67` has
  "sequential" ids "derived from COUNT(*)"; worker and observer together give duplicates.
* Client stream: the snapshot precedes the subscription, frames of two handlers overtake
  one another, `SessionRemoved` never reaches the clients of an organization.
* Capabilities: overlapping patches can widen a session; a fork whose append failed is
  unlinked by a restart.
* Vaults: `expected_cid` is checked and then written over (`vault.rs:299`): lost updates; a
  rename may take another note's place; a reader sees truncated files.
* Sign-in: a torn mode file fails every later boot; an administrator bootstrapped beside a
  sidecar flips later boots to the local store.
* Enrollment: overlapping changes share `axis.toml.tmp` and lose updates; a token stays
  consumed when the change fails; a Hello accepted before a removal registers after it.
* Packages: `PUT /api/registry` activates without the check of grants; racing PUTs leave the
  views other than a replay; `register_repo` answers 500 after it has applied.
* Adapters: Codex' configuration gets the same table again at every prompt; what is no longer
  declared stays; hooks of one event overwrite one another; torn reads lose lines.
* Edge: a reconciliation can bring back a removed route until the next; a failed
  re-publication removes the file of the one still served (`routes/edge.rs:209`).

## 6. What is proved

The theorems hold for every value of the constants that the named assumptions admit;
TLC evaluates each assumption in the runs. Each module proves an inductive invariant
from `Init`, `Next` and `UNCHANGED`, and derives the properties from it.

| Module | Theorem | Establishes |
|---|---|---|
| `EventTransport_proofs` | `TypeCorrect`, `TransportCorrect` | `TypeOK`, `TransportInv` |
| | `NothingLost`, `InOrder` | `NoLoss`, `DeliveredInOrder` |
| | `Implements` | `Spec => Log!Spec`: the transport implements `ExactlyOnceLog` |
| `NodeRegistry_proofs` | `RegistryCorrect` | `RegistryInv` |
| | `Routed`, `ClosedForNewer`, `CleanedUp` | `RoutedOrClosing`, `OnlyOlderClosed`, `NothingLeft` |
| | `Kept` | the action property `RegistrationKept` |
| `JobAttempts_proofs` | `JobsCorrect` | `JobsInv` |
| | `ResultComesLast`, `VerdictsAreReal` | `ResultIsLast`, `VerdictIsReal`, whatever fails |
| | `AcceptedStays` | `AcceptedIsRetained`, if `Cardinality(Job) <= Retain` |
| | `NothingOrphaned` | `NoOrphan`, if connections are lost only with the Orbit and Axis does not restart |
| | `OneProcess` | `StartsOnce`, under both hypotheses |
| `SessionTurns_proofs` | `TurnsCorrect` | `TypeOK` |
| | `MarkIsNotForgotten`, `StoredIsFirst` | `MarkBelongsToTurn`, `StoredFirst` |
| | `RepliesAreWhole` | `NotCutShort` |
| `Orbit_proofs` | `TableCorrect` | `RuntimeInv` |
| | `StartsAreExclusive`, `ProcessesAreKnown` | `OneStart`, `NoStray` |
| | `TerminalsCorrect`, `ExitsAreTold` | `TerminalsInv`, `ExitIsTold` |
| `Axis_proofs` | `EnrollmentCorrect`, `KeysHaveOneRow`, `AllowlistExact` | `EnrollmentInv`, `OneRowPerKey`, `AllowlistIsExact` |
| | `EdgeCorrect`, `TableFollows` | `EdgeInv`, `TableFollowsEdge` |
| | `AuthorityStays` | `AuthorityKept` |
| | `PackagesCorrect`, `ProvidersAreAlone` | `PackagesInv`, `NoRivals` |
| | `VaultsCorrect`, `CreationsAreExact` | `VaultsInv`, `CreatesAreExact` |
| | `RefusalsAreUnseen` | the action property `RefusedIsUnseen` |
| | `AdaptersCorrect`, `SetupArrives` | `AdaptersInv`, `DeclaredIsThere` |
| `EventStore_proofs` | `StoreCorrect` | `StoreInv` |
| | `ShownIsLogged`, `LogStaysSound` | `ViewsMatchLog`, `LogIsSound` |
| | `RowsCorrect`, `RowsSayTheSame` | `RowsInv`, `RowsMatchViews` |
| | `NativesAreKept` | the half `KeepsNative` of `BootIsInvisible` |
| | `ReplaysCorrect`, `RestartsAreInvisible` | `ReplayInv`, the action property `BootIsInvisible` |
| `Sessions_proofs` | `StreamCorrect`, `ClientsAreCurrent` | `StreamInv`, `ClientIsCurrent` |
| | `StateDbCorrect`, `WritesAreTold` | `StateDbInv`, `ObservedInFull` |
| | `CapabilitiesCorrect`, `AuthorityOnlyNarrows` | `CapabilitiesInv`, the action property `AuthorityNarrows` |

The hypotheses of the three theorems about jobs are the limits of what the code does:
beyond them section 5 describes how it goes wrong. `Retain` is 1024 in the code.

The arguments.

*EventTransport.* `NoLoss` and the order of delivery are not inductive. That a row
may be removed at an acknowledgement needs `AcksSound` (nothing is acknowledged
beyond the watermark). That the gate accepts the journal needs `FramesSound`: a
frame, wherever a task, a batch or a wire holds it, carries a committed number
and the event committed under it. `JournalMatches` ties the numbering to the
journal, `AcceptedMatches` the watermark to what was accepted, and
`DeliveredAccepted` bounds what was delivered by the watermark. The refinement maps
the abstract log's `sent` to `journal`: an append is the abstract send, an acceptance
the abstract receipt, everything else a stutter.

*NodeRegistry.* `RoutedOrClosing` needs that a connection is published once
(`Published`), so that the step that replaces a route replaces that of another
connection, which it closes. `NothingLeft` speaks of ended handlers only;
`TornDown` says after which step of the teardown which trace is gone, and needs
`Unowned` (an absent entry has no owner). `Unopened` gives a new connection a handler
that has not started, `Counting` bounds the heartbeat counter.

*JobAttempts.* Everything rests on `Dispatches`: a connection carries one dispatch of a
job, because a route sends one only while its record is fresh and a Hello picks a job
once (`Hellos`, `Connections`). So an execution has one task, one waiter and one result
(`Executions`), and a frame on its way to Axis is a row of the spool (`Frames`), which makes
a stored verdict that of its execution (`VerdictStored`). `AcceptedIsRetained` adds
`Answers`: an accepted answer on its way, or taken in, has its ledger entry, which nothing
prunes while there are no more jobs than `Retain`. `NoOrphan` adds `Sole`: the only tasks are
those of the present connection, and the ledger names every program that runs; `StartsOnce`
adds `Once`: a job whose program was started is retained, and no task of it is past the check.

*SessionTurns.* The mark is set before the task exists and every way out of the task
passes `clear`. `StoredFirst` needs to know by what a turn leaves its wait: `PromptInv`
says that the Orbit answers a prompt once, only while its task waits on the present
connection (`Drained`, `Awaited`, `AnsweredOnce`), and that no frame outlives its connection
(`Linked`). `EndStored` then keeps the reply's row and its place in the view from the step that
stores it, `SignalLast` puts the signal after it. Ids come from the largest in use,
so the proof has the maximum of a finite set of numbers.
`NotCutShort` is about whose done ends a turn: the drain tells a steer's from the turn's own by
`steer_pending` alone. While turns do not cross, at most one of them reads (`Alone`), what is on
its way is its own or a steer's (`Clean`), and each end is there once (`Once`). Then `Counted`
holds: the steers that owe an end, or whose end is unread, are at most `steerPending`, or one
more once the turn's own done was taken for an acknowledgement (`Spare`). So when the drain
finds the count at zero while the agent still works on the prompt, no steer's done is at the
head of the queue.

*RuntimeTable.* `LocksMapped`: a lock is replaced in the map only when nobody refers to it,
so all who wait or start hold the mapped one, and it admits one. `TargetsHeld`: between
the removal of an entry and the end of its process somebody has it as target.

*Terminals.* `EntryHeld`: an entry has a relay that holds it, or that is detaching from it or
closing it. `Reported`: where a listening relay has the shell, a client of the living
session or a reader is there, or the exit is on its way to that relay, or somebody is
leaving. An earlier form of `ExitIsTold` was false with three relays: the one that leaves
takes the entry with it while another has just attached. It now says so (`Leaving`).

*Axis_proofs.* Enrollment: `Bearers` (a token belongs to the key that has used it, a request
to the token it was let in by) and `Undisturbed` (a request that changes the file alone works
on what the file holds). Edge: `Followed` gives, for each place of a slug's one request, what it
has got to in the routes and in the table. Sign-in: `WrittenOnce` (one writer of the
file, and a written file stays) and `Rooted` (what a boot reads leads to the authority that
was first served under). Packages: `Sound`, that a capability has one provider without a binding,
is kept by every event that a handler may append, applied to any sound state. So it holds in
the views and in the replay although they apply the events in different orders.

The same module, of the files. Vaults: `Owned`, that a note a creation has opened is its own until it is
written and after. A refusal is unseen because the checks come before the changes: a handler that
nothing has overlapped runs alone, and at each of its steps the notes differ from what it found
by its own work only (`Apart`, `SinceBegun`). Adapters: each file is as declared, or some prompt has still to write it
(`Ahead`), and what it has read and will write is what is declared (`Carried`).

*EventStore_proofs.* The views are a fold of the log, and what a fold computes for every log
is out of the provers' reach. What it preserves is not: `ShowAll` is a recursive function,
and a predicate on views that the first has and every event keeps is had by all, by induction
over the set of the numbers up to a length (`SetInduction`, `ShowAllIs`), which speaks of a set
where the library's theorem takes an operator. `StoreInv`: what is left of a handler fits the
log, an application comes after the append of the same events, and what a failed append leaves out
is left out with its application (`Handled`, `Shape`); so what is shown is vouched for by the log
(`ShownIsStored`), and what is stored is shown or is a handler's next application (`Covered`). A live
project stands in the log (`LiveStands`), for all that deletes or attaches holds the views' lock
from check to application. The attempt to prove `LogIsSound` as it was found that
it is false with a third unit of work: section 5's project that comes back. The history variable
`revived` names these projects, and the property now excepts them.

The same module, of the rows. `RowsMatchViews` compares two folds of one log by different rules,
the statements of `apply_projection` and the views. `RowsInv` says that, while nothing overlaps
and before the first boot, the rows say what the views are about to show (`ToShow`: what is
left of the one handler, applied), and that each append it has yet to make suits the rows that it
will find (`Coming`). `Suits` is the price of the difference: where the two rules part,
a session or a project created again, a handover whose source has no card, the event does not
come. `OneAlike` is that one event of any type keeps two states alike, `BatchAlike` that a
batch does, `ShownInTurn` that a batch after another is both in one.

Of restarts. `BootIsInvisible` has one half that needs no calm: `retain_native` deletes no native
event and no native message. The other half, that the replay shows what was shown, is about a log
from which the imported sessions were taken. `ReplayInv` says, while nothing overlaps, that the views
are those of a replay up to titles (a subsession is shown with a title that its first event does not
have), and that the log is `Sound`: an event about a native session has that session's creation
beside it, and none takes back what an earlier one made (`Undoes`: a session created or linked
again, a card created twice). Then a view whose native sessions have native parents had that at
every prefix of the log, for nothing takes a parent away (`DomesticBefore`), and so the events of
imported sessions never reached a native one; the log without them shows the same of native
sessions, cards and projects (`RetainedShown`). What a boot keeps is sound again (`SoundRetained`),
for the rows know as managed every native session that the log creates (`HoldsSessions`).

The assumptions of `EventStore` are that ids of Stellarc's own and imported ids differ, which
they do because the former are a time and a UUID (`new_session_id` in `bridge_mgr.rs`), that no
id is the absent one (an `Option` in the code), and that the sets are finite.

*Sessions_proofs.* Client stream: the frames speak of sessions that exist (`FramesSound`); a
session that is not tangled is changed by one handler, whose last frame has the title
(`Alone`, `Final`), and once there is none, the last frame of the channel has it
(`ToldLast`), the first being its creation (`AddedFirst`). What a client shows is the last
frame that it has read (`UpToDate`). state.db: what is on its way or in the log is of a row
that was read and has its number (`Genuine`), in the order of the rows (`Rising`); so an
observation that the log refuses as seen is of a compacted session, for two rows of one
session have different numbers (`EarlierCounted`). For the worker, the count of a session is
above the numbers it has given, until it is lowered (`Mirrored`). The attempt to prove
that its numbers always grow failed, and a table of four rows shows why (section 5); the
property now names the sessions whose count was lowered (`recounted`). Capabilities: a restart
would leave every known session known, bound to its parent and allowed no more (`Bound`), up to the
races and the lost forks that the property names; a request in progress relies on what nothing else
changes (`Asked`), because two have a session in hand only when one of them patches it (`Apart`).
`NarrowsAll` carries what one record loses to the whole lineage, by the closed sets that `Lineage`
is defined with. An earlier form of the property excepted races for the session
and its parent alone; with a third session it was false, for a race for a grandparent widens its
grandchildren too. The assumption that
`Covers` is transitive is that a prefix of a prefix is a prefix.

## 7. What is only model-checked

* Liveness (`SpoolDrains`, `DrainEnds`, `RunningEnds`, `ComesBack`, `CalmTurnsEnd`,
  `DeathEndsStart`, `DeadIsReaped`, `CaddyConverges`): fairness and ENABLED are beyond the prover.

Every other property of a passing run, invariant or action property, has its theorem.

## 8. What is not modelled, and why

`PROJECT.json` says of each component what its model leaves out. Without a model are:
principals and organizations (checks of one request against tables in one transaction of
SQLite), discovery (functions of the text of configuration files, sent once), the
transports (dialling; a connection is two ordered streams here), search and text editing
(queries, and a transformation that no handler uses), IRC (nothing outside its tests
registers an inbox), and the clients (they show what the server holds).

## 9. Running

    tlc -config EventTransport_safety.cfg MCEventTransport
    tlc -config MCAxis.cfg MCAxis
    tlapm JobAttempts_proofs.tla

`PROJECT.json` lists for every run its module and its configuration, the properties it
checks, and for every property a plausible mistake in the code, a mutant, that
violates it. The longest runs take two to three minutes with two workers, the longest proofs
(`JobAttempts_proofs`, `EventStore_proofs`) about ten minutes each.

## 10. What is left to do

Every invariant and every action property that a passing run checks has its theorem; liveness
stays with TLC. What the models leave out of a component is in
`PROJECT.json`; the largest parts are the projections of the event log that no other component
reads, and the reads of nodes and sessions.
