------------------------------- MODULE EventStore -------------------------------
(***************************************************************************)
(* The event log of Axis, and what is derived from it.                     *)
(*                                                                         *)
(*   log    the immutable events, in order                                 *)
(*   rows   the SQL projection, written in the transaction of its event    *)
(*   view   the in-memory views (ViewManager): a handler appends first and *)
(*          applies afterwards, under the views' lock; a boot replays       *)
(*                                                                         *)
(* A handler is a list of steps, each one an append or an application, and *)
(* the steps of concurrent handlers interleave.  At a boot the log is      *)
(* stripped of what was imported from Hermes' state.db, the rest is        *)
(* replayed, and a task imports the state.db again while handlers run.     *)
(***************************************************************************)
EXTENDS Integers, Sequences, FiniteSets, SequencesExt

CONSTANTS
  NativeId,     \* ids for sessions of Stellarc
  HermesId,     \* ids of the sessions of Hermes' state.db
  Card, Project,
  Stored,       \* those of NativeId, Card and Project that the log starts with
  Window,       \* messages of a session that a view holds
  AppendFails,  \* an append may fail
  MaxWork,      \* bound: handlers and observations, in all
  MaxBoots      \* bound: restarts

\* No session, card, project or column.
None == "-"

ASSUME StoreAssumption ==
  /\ AppendFails \in BOOLEAN
  /\ Window \in Nat \ {0} /\ MaxWork \in Nat /\ MaxBoots \in Nat
  /\ IsFiniteSet(HermesId) /\ IsFiniteSet(Stored)
  /\ Stored \subseteq NativeId \cup Card \cup Project
  /\ NativeId \cap HermesId = {}
ASSUME NoneAssumption == None \notin NativeId \cup HermesId

VARIABLES
  backend,    \* "sqlite" or "postgres" (STELLARC_DATABASE_URL)
  log, rows, view,
  observed,   \* observed_sessions and observed_messages
  handlers,   \* [1..MaxWork -> the steps that are left]
  begun,      \* handlers begun
  indexing,   \* the import task: "import", "replay", "done"
  late,       \* history: events observed since the last replay
  revived,    \* history: projects shown as live after they were deleted
  calm,       \* history: nothing has overlapped a handler, and no append failed
  boots, arrived

storeVars ==
  <<backend, log, rows, view, observed, handlers, begun, indexing, late, revived, calm, boots,
    arrived>>

Session == NativeId \cup HermesId
Handlers == 1..MaxWork

-----------------------------------------------------------------------------
(***************************************************************************)
(* Events.  Column is the session_id column: an event without one is kept  *)
(* whatever happens to sessions.                                           *)
(***************************************************************************)
Created(s, source, titled) ==
  [type |-> "created", session |-> s, source |-> source, titled |-> titled]
Archived(s)          == [type |-> "archived", session |-> s]
Message(s, id, by)   == [type |-> "message", session |-> s, id |-> id, by |-> by]
Attached(s, p)       == [type |-> "attached", session |-> s, project |-> p]
ContextAttached(s, p, mode) ==
  [type |-> "context_attached", session |-> s, project |-> p, mode |-> mode]
ContextDetached(s, p) == [type |-> "context_detached", session |-> s, project |-> p]
Forked(s, parent)    == [type |-> "forked", session |-> s, parent |-> parent]
HandedOver(s, from)  == [type |-> "handover", session |-> s, parent |-> from]
Linked(s, k)         == [type |-> "linked", session |-> s, card |-> k]
Assigned(k, s)       == [type |-> "assigned", session |-> s, card |-> k]
Reassigned(k, s, s0) == [type |-> "reassigned", session |-> s, card |-> k, previous |-> s0]
CardEvent(type, k)   == [type |-> type, card |-> k]
ProjectEvent(type, p) == [type |-> type, project |-> p]

\* A card is moved when it is claimed or blocked.
CardOnly == {"card_created", "card_moved", "card_done"}

ProjectOnly == {"project_created", "project_updated", "project_layout", "project_deleted"}

\* event_session_id
Column(e) ==
  IF e.type \in CardOnly \cup {"reassigned"} \cup ProjectOnly
  THEN None ELSE e.session

NoSession == [source |-> None, titled |-> FALSE, archived |-> FALSE, parent |-> None,
              card |-> None, project |-> None, context |-> [p \in Project |-> None],
              count |-> 0]
NoProject == [status |-> None, edits |-> {}]
NoCard == [status |-> None, session |-> None, attempts |-> <<>>]

Empty == [sessions |-> [s \in Session |-> NoSession], cards |-> [k \in Card |-> NoCard],
          projects |-> [p \in Project |-> NoProject], messages |-> {}, hot |-> [s \in Session |-> <<>>]]

Known(t, s)   == t[s].source # None
Amend(t, s, row) == IF Known(t, s) THEN [t EXCEPT ![s] = row] ELSE t
Managed(row)  == row.source = "stellarc"
Fresh(e)      == [NoSession EXCEPT !.source = e.source, !.titled = e.titled]
-----------------------------------------------------------------------------
(***************************************************************************)
(* The views.                                                              *)
(***************************************************************************)
\* SessionView::apply, of a fork: the child's parent, and what it inherits.
Child(t, e) ==
  LET row == [t[e.session] EXCEPT !.parent = e.parent]
  IN  IF Known(t, e.parent)
      THEN [row EXCEPT !.card = t[e.parent].card, !.project = t[e.parent].project]
      ELSE row

\* ... of a handover: the target inherits a card, when there is one.
Target(t, e) ==
  LET row == [t[e.session] EXCEPT !.parent = e.parent]
  IN  IF t[e.parent].card # None THEN [row EXCEPT !.card = t[e.parent].card] ELSE row

\* ... of a link: the session and its children, one level.
LinkTree(t, e) ==
  [s \in Session |-> IF Known(t, s) /\ e.session \in {s, t[s].parent}
                     THEN [t[s] EXCEPT !.card = e.card] ELSE t[s]]

\* ... of a context project: a project that is attached again changes its mode.
Context(t, e, mode) == Amend(t, e.session, [t[e.session] EXCEPT !.context[e.project] = mode])

\* SessionView::apply
ViewSessions(t, e) ==
  CASE e.type = "created"  -> [t EXCEPT ![e.session] = Fresh(e)]
    [] e.type = "archived" -> Amend(t, e.session, [t[e.session] EXCEPT !.archived = TRUE])
    [] e.type = "message"  -> IF Managed(t[e.session])
                              THEN [t EXCEPT ![e.session].count = @ + 1] ELSE t
    [] e.type = "attached" -> Amend(t, e.session, [t[e.session] EXCEPT !.project = e.project])
    [] e.type = "context_attached" -> Context(t, e, e.mode)
    [] e.type = "context_detached" -> Context(t, e, None)
    [] e.type = "forked"   -> Amend(t, e.session, Child(t, e))
    [] e.type = "handover" -> Amend(t, e.session, Target(t, e))
    [] e.type = "linked"   -> LinkTree(t, e)
    [] OTHER -> t

\* MessageView::apply: at most Window messages, the newest last.
ViewMessages(hot, e) ==
  IF e.type # "message" THEN hot
  ELSE [hot EXCEPT ![e.session] =
         LET all == Append(@, e.id)
         IN  SubSeq(all, IF Len(all) > Window THEN 2 ELSE 1, Len(all))]

Running(e)  == [session |-> e.session, outcome |-> "running"]
Attempt(attempts, e) ==
  [status |-> "assigned", session |-> e.session, attempts |-> Append(attempts, Running(e))]
\* The attempts of the previous session end.
Superseded(attempts, e) ==
  [i \in DOMAIN attempts |->
     IF attempts[i] = [session |-> e.previous, outcome |-> "running"]
     THEN [attempts[i] EXCEPT !.outcome = "reassigned"] ELSE attempts[i]]
LastDone(attempts) ==
  [i \in DOMAIN attempts |->
     IF i = Len(attempts) THEN [attempts[i] EXCEPT !.outcome = "done"] ELSE attempts[i]]

\* CardView::apply
ViewCards(t, e) ==
  IF e.type = "card_created" THEN [t EXCEPT ![e.card] = [NoCard EXCEPT !.status = "todo"]]
  ELSE IF e.type \notin CardOnly \cup {"assigned", "reassigned"} \/ t[e.card].status = None
  THEN t
  ELSE LET row == t[e.card] IN
       [t EXCEPT ![e.card] =
         CASE e.type = "assigned"   -> Attempt(row.attempts, e)
           [] e.type = "reassigned" -> Attempt(Superseded(row.attempts, e), e)
           [] e.type = "card_done"  -> [row EXCEPT !.status = "done",
                                                   !.attempts = LastDone(row.attempts)]
           [] OTHER -> [row EXCEPT !.status = "moved"]]

\* ProjectView::apply: what of a project was edited, its fields or its layout;
\* a deleted project keeps its row.
ViewProjects(t, e) ==
  IF e.type = "project_created" THEN [t EXCEPT ![e.project] = [NoProject EXCEPT !.status = "live"]]
  ELSE IF e.type \notin ProjectOnly \/ t[e.project].status = None THEN t
  ELSE LET row == t[e.project] IN
       [t EXCEPT ![e.project] =
         IF e.type = "project_deleted" THEN [row EXCEPT !.status = "deleted"]
         ELSE [row EXCEPT !.edits = row.edits \cup {e.type}]]

Live(v) == {p \in Project : v.projects[p].status = "live"}

\* ViewManager::apply
ApplyView(v, e) ==
  [v EXCEPT !.sessions = ViewSessions(@, e), !.hot = ViewMessages(@, e),
            !.cards = ViewCards(@, e), !.projects = ViewProjects(@, e)]

\* The events are applied in their order; a replay starts from nothing.
ShowAll(v, events) ==
  LET upto[n \in 0..Len(events)] ==
        IF n = 0 THEN v ELSE ApplyView(upto[n - 1], events[n])
  IN  upto[Len(events)]
Replay(events) == ShowAll(Empty, events)
-----------------------------------------------------------------------------
(***************************************************************************)
(* The SQL projection (apply_projection): the statements that say the same *)
(* as the views are theirs.                                                *)
(***************************************************************************)
\* Fault: a fork does not take its parent's card.
SqlSessionsUnlinked(t, e) ==
  IF e.type = "forked"
  THEN Amend(t, e.session, [t[e.session] EXCEPT !.parent = e.parent,
                              !.project = t[e.parent].project])
  ELSE ViewSessions(t, e)

\* A context project, read and written back in the event's transaction.
SqlContext(t, e) ==
  Context(t, e, IF e.type = "context_attached" THEN e.mode ELSE None)

\* A fork and a handover take what the parent's row has, which is nothing when
\* there is no such row.
SqlForked(t, e) ==
  Amend(t, e.session, [t[e.session] EXCEPT !.parent = e.parent,
    !.card = t[e.parent].card, !.project = t[e.parent].project])
SqlHandover(t, e) ==
  Amend(t, e.session, [t[e.session] EXCEPT !.parent = e.parent, !.card = t[e.parent].card])

\* A session that is created again keeps its links.
SqlSessions(t, e) ==
  CASE e.type = "created"  -> [t EXCEPT ![e.session].source = e.source,
                                        ![e.session].titled = e.titled]
    [] e.type = "message"  -> t
    [] e.type \in {"context_attached", "context_detached"} -> SqlContext(t, e)
    [] e.type = "forked"   -> SqlForked(t, e)
    [] e.type = "handover" -> SqlHandover(t, e)
    [] OTHER -> ViewSessions(t, e)

\* update_card_attempt and the statements on cards.  The end of an attempt
\* that completes its card is not stored.
SqlCards(t, e) ==
  CASE e.type = "card_created" -> [t EXCEPT ![e.card].status =
                                     IF @ = None THEN "todo" ELSE @]
    [] e.type = "card_done"    -> IF t[e.card].status = None THEN t
                                  ELSE [t EXCEPT ![e.card].status = "done"]
    [] OTHER -> ViewCards(t, e)

SqlMessages(stored, e) ==
  IF e.type = "message" THEN stored \cup {<<e.session, e.id>>} ELSE stored

\* A project that is created again keeps its edits.
SqlProjects(t, e) ==
  IF e.type = "project_created" THEN [t EXCEPT ![e.project].status = "live"]
  ELSE ViewProjects(t, e)

ApplySql(r, e) ==
  [r EXCEPT !.sessions = SqlSessions(@, e), !.messages = SqlMessages(@, e),
            !.cards = SqlCards(@, e), !.projects = SqlProjects(@, e)]

ProjectAll(r, events) ==
  LET upto[n \in 0..Len(events)] ==
        IF n = 0 THEN r ELSE ApplySql(upto[n - 1], events[n])
  IN  upto[Len(events)]

\* append_in_tx, append_batch: the events and their projection, or nothing.
AppendBatch(events) ==
  /\ log' = log \o events
  /\ rows' = ProjectAll(rows, events)
-----------------------------------------------------------------------------
(***************************************************************************)
(* Handlers.                                                               *)
(***************************************************************************)
\* An append that fails drops as many of the handler's next steps as the code
\* does: all of them, unless it only logs the error.
Store(events, drops) == [op |-> "append", events |-> events, drops |-> drops]
Show(events)         == [op |-> "apply", events |-> events, drops |-> 0]
Shown(event)         == <<Store(<<event>>, 1), Show(<<event>>)>>

Busy == \E h \in Handlers : handlers[h] # <<>>

Begin(steps) ==
  /\ begun + arrived < MaxWork /\ begun' = begun + 1
  /\ handlers' = [handlers EXCEPT ![begun'] = steps]
  /\ calm' = (calm /\ ~Busy /\ indexing = "done")
  /\ UNCHANGED <<log, rows, view, observed, indexing, late, revived, boots, arrived, backend>>

\* create_draft takes an id that nothing has.
Creates(e, s) == e.type = "created" /\ e.session = s
Unused(s) ==
  /\ s \in NativeId /\ \A i \in DOMAIN log : ~Creates(log[i], s)
  /\ \A h \in Handlers : \A i \in DOMAIN handlers[h] :
       \A j \in DOMAIN handlers[h][i].events : ~Creates(handlers[h][i].events[j], s)

\* create_session
CreateSession ==
  \E s \in Session : Unused(s) /\ Begin(Shown(Created(s, "stellarc", FALSE)))

\* The id after those that the view holds.
NextId(s) == Max({-1} \cup ToSet(view.hot[s])) + 1

\* Fault: a message is shown while it is being stored.
PostStepsReversed(s) ==
  LET m == Message(s, NextId(s), "axis") IN <<Show(<<m>>), Store(<<m>>, 0)>>

\* append_user_message, append_assistant_message, ...
PostSteps(s) == Shown(Message(s, NextId(s), "axis"))

PostMessage ==
  \E s \in Session : Managed(view.sessions[s]) /\ Begin(PostSteps(s))

\* patch_session
ArchiveSession ==
  \E s \in Session : Known(view.sessions, s) /\ Begin(Shown(Archived(s)))

\* create_subsession: the draft is stored without the title that is shown, and
\* a fork that could not be stored is shown all the same.
ForkSteps(s, parent) ==
  <<Store(<<Created(s, "stellarc", FALSE)>>, 3), Show(<<Created(s, "stellarc", TRUE)>>),
    Store(<<Forked(s, parent)>>, 0), Show(<<Forked(s, parent)>>)>>

CreateSubsession ==
  \E s, parent \in Session :
    Unused(s) /\ Known(view.sessions, parent) /\ Begin(ForkSteps(s, parent))

\* handover_session: the target with a copy of the messages that the view
\* holds, the handover and the end of the source, in one batch.
HandoverSession ==
  \E s, from \in Session :
    /\ Unused(s) /\ Known(view.sessions, from)
    /\ LET copies == [i \in DOMAIN view.hot[from] |-> Message(s, i - 1, "axis")]
           batch == <<Created(s, "stellarc", view.sessions[from].titled)>> \o copies
                    \o <<HandedOver(s, from), Archived(from)>>
       IN  Begin(<<Store(batch, 1), Show(batch)>>)

\* complete_session: a notice for the parent, and the child's end, shown even
\* if it could not be stored.
CompleteSession ==
  \E s \in Session :
    /\ Known(view.sessions, s) /\ view.sessions[s].parent # None
    /\ LET parent == view.sessions[s].parent IN
       /\ Known(view.sessions, parent)
       /\ Begin(Shown(Message(parent, NextId(parent), "axis"))
             \o <<Store(<<Archived(s)>>, 0), Show(<<Archived(s)>>)>>)

\* create_card, claim_card, block_card, complete_card: append_and_apply.
CardHandler ==
  \/ \E k \in Card : /\ rows.cards[k].status = None
                     /\ \A h \in Handlers : handlers[h] # Shown(CardEvent("card_created", k))
                     /\ Begin(Shown(CardEvent("card_created", k)))
  \/ \E k \in Card, type \in CardOnly \ {"card_created"} :
       Begin(Shown(CardEvent(type, k)))

\* assign_card: whether or not the assignment was stored, the link follows.
AssignCard ==
  \E k \in Card, s \in Session :
    /\ Known(view.sessions, s)
    /\ Begin(Shown(Assigned(k, s)) \o <<Store(<<Linked(s, k)>>, 0), Show(<<Linked(s, k)>>)>>)

ReassignCard ==
  \E k \in Card, s \in Session :
    /\ Known(view.sessions, s)
    /\ Begin(Shown(Reassigned(k, s, view.cards[k].session)))

CreateProject ==
  \E p \in Project :
    LET steps == Shown(ProjectEvent("project_created", p)) IN
    /\ rows.projects[p] = NoProject /\ \A h \in Handlers : handlers[h] # steps
    /\ Begin(steps)

\* Projects that a creator shows after the import's replay has shown them, and
\* somebody deleted them then: they are live again in the views.
Revives(events) ==
  {p \in Project : /\ ProjectEvent("project_created", p) \in ToSet(events)
                   /\ ProjectEvent("project_deleted", p) \in ToSet(log)}

\* A handler's next step.
Do(h) ==
  /\ handlers[h] # <<>>
  /\ LET step == Head(handlers[h])
         rest == Tail(handlers[h])
     IN  \/ /\ step.op = "append" /\ AppendBatch(step.events)
            /\ handlers' = [handlers EXCEPT ![h] = rest]
            /\ UNCHANGED <<view, calm, revived>>
         \/ /\ step.op = "append" /\ AppendFails
            /\ handlers' = [handlers EXCEPT ![h] = SubSeq(rest, step.drops + 1, Len(rest))]
            /\ calm' = FALSE
            /\ UNCHANGED <<log, rows, view, revived>>
         \/ /\ step.op = "apply" /\ view' = ShowAll(view, step.events)
            /\ handlers' = [handlers EXCEPT ![h] = rest]
            /\ revived' = revived \cup Revives(step.events)
            /\ UNCHANGED <<log, rows, calm>>
  /\ UNCHANGED <<observed, begun, indexing, late, boots, arrived, backend>>

\* A handler that holds the views' lock from its checks to its application.
Locked(e) ==
  /\ begun + arrived < MaxWork /\ begun' = begun + 1
  /\ AppendBatch(<<e>>) /\ view' = ApplyView(view, e)
  /\ calm' = (calm /\ ~Busy /\ indexing = "done")
  /\ UNCHANGED <<handlers, observed, indexing, late, revived, boots, arrived, backend>>

\* apply_existing_project_event: patch_project, put_project_layout and
\* delete_project.
EditProject ==
  \E p \in Live(view), type \in {"project_updated", "project_layout"} :
    Locked(ProjectEvent(type, p))
DeleteProject ==
  \E p \in Live(view) : Locked(ProjectEvent("project_deleted", p))

\* Fault: the project is looked up before the lock is taken.
AttachProjectUnlocked ==
  \E s \in Session, p \in Live(view) :
    /\ Known(view.sessions, s) /\ view.sessions[s].project = None
    /\ Begin(Shown(Attached(s, p)))

\* attach_session_project
AttachProject ==
  \E s \in Session, p \in Live(view) :
    /\ Known(view.sessions, s) /\ view.sessions[s].project = None
    /\ view.sessions[s].context[p] = None
    /\ Locked(Attached(s, p))

\* attach_context_project, detach_context_project
AttachContext ==
  \E s \in Session, p \in Live(view), mode \in {"read", "write"} :
    /\ Known(view.sessions, s) /\ view.sessions[s].project # p
    /\ Locked(ContextAttached(s, p, mode))
DetachContext ==
  \E s \in Session, p \in Live(view) :
    Known(view.sessions, s) /\ Locked(ContextDetached(s, p))
-----------------------------------------------------------------------------
(***************************************************************************)
(* Observations, boots and the import.                                     *)
(***************************************************************************)
\* The id of a frame that is about the session itself.
Itself == -1

\* accept_observed, of a session or of one of its messages: an event whose
\* identity is known is not stored again.  The views learn of it when they
\* are next replayed.  On Postgres it is the session's frame that is known.
IsNew(h, id) ==
  IF id = Itself THEN backend = "sqlite" \/ <<h, Itself>> \notin observed
  ELSE <<h, id>> \notin observed

Observes(h, id) == IF backend = "sqlite" \/ id = Itself THEN {<<h, Itself>>, <<h, id>>}
                   ELSE {<<h, id>>}

ObservedEvent(h, id) == IF id = Itself THEN Created(h, "cli", TRUE) ELSE Message(h, id, "orbit")

Observe(h, id) ==
  /\ begun + arrived < MaxWork /\ arrived' = arrived + 1
  /\ observed' = observed \cup Observes(h, id)
  /\ IF IsNew(h, id)
     THEN AppendBatch(<<ObservedEvent(h, id)>>) /\ late' = late \cup {ObservedEvent(h, id)}
     ELSE UNCHANGED <<log, rows, late>>
  /\ calm' = FALSE
  /\ UNCHANGED <<view, handlers, begun, indexing, revived, boots, backend>>

\* import_sessions
Import ==
  /\ indexing = "import"
  /\ \/ /\ LET all == SetToSeq(HermesId)
           IN  AppendBatch([i \in DOMAIN all |-> Created(all[i], "cli", TRUE)])
        /\ indexing' = "replay"
     \/ AppendFails /\ indexing' = "done" /\ UNCHANGED <<log, rows>>
  /\ calm' = (calm /\ ~Busy)
  /\ UNCHANGED <<view, observed, handlers, begun, late, revived, boots, arrived, backend>>

\* The import task replays the log, under the views' lock.
Reindex ==
  /\ indexing = "replay" /\ indexing' = "done"
  /\ view' = Replay(log)
  /\ late' = {}
  /\ calm' = (calm /\ ~Busy)
  /\ UNCHANGED <<log, rows, observed, handlers, begun, revived, boots, arrived, backend>>

Native == {s \in Session : Managed(rows.sessions[s]) \/ <<s, Itself>> \in observed}

\* Fault: sessions that an Orbit observes go with the imported ones.
RetainNativeOnly ==
  /\ log' = SelectSeq(log, LAMBDA e : Column(e) = None \/ Managed(rows.sessions[Column(e)]))
  /\ rows' = [rows EXCEPT
       !.messages = {m \in @ : m[1] \in Native},
       !.sessions = [s \in Session |-> IF Managed(@[s]) THEN @[s] ELSE NoSession]]
  /\ UNCHANGED observed

\* The events of some columns, in their order.
Retain(q, e, columns) == IF Column(e) \in columns THEN Append(q, e) ELSE q
Retained(events, columns) ==
  LET upto[n \in 0..Len(events)] ==
        IF n = 0 THEN <<>> ELSE Retain(upto[n - 1], events[n], columns)
  IN  upto[Len(events)]

\* retain_native, of either backend.
RetainSqlite ==
  /\ log' = Retained(log, Native \cup {None})
  /\ rows' = [rows EXCEPT
       !.messages = {m \in @ : m[1] \in Native},
       !.sessions = [s \in Session |-> IF Managed(@[s]) THEN @[s] ELSE NoSession]]
  /\ UNCHANGED observed
RetainPostgres ==
  /\ rows' = [rows EXCEPT
       !.messages = {m \in @ : ~Known(rows.sessions, m[1])},
       !.sessions = Empty.sessions]
  /\ observed' = {}
  /\ UNCHANGED log

\* Axis is started again: what handlers had not stored is lost.
Boot ==
  /\ boots < MaxBoots /\ boots' = boots + 1
  /\ IF backend = "sqlite" THEN RetainSqlite ELSE RetainPostgres
  /\ view' = Replay(log')
  /\ handlers' = [h \in Handlers |-> <<>>]
  /\ indexing' = "import" /\ late' = {}
  /\ calm' = (calm /\ ~Busy)
  /\ UNCHANGED <<begun, revived, arrived, backend>>
-----------------------------------------------------------------------------
Earlier ==
  LET start(x) == IF x \in NativeId THEN Created(x, "stellarc", FALSE)
                  ELSE CardEvent("card_created", x)
      seq == SetToSeq(Stored)
  IN  [i \in DOMAIN seq |-> IF seq[i] \in Project THEN ProjectEvent("project_created", seq[i])
                            ELSE start(seq[i])]

StoreInit ==
  /\ backend \in {"sqlite", "postgres"}
  /\ log = Earlier /\ rows = ProjectAll(Empty, Earlier) /\ view = Replay(Earlier)
  /\ observed = {} /\ handlers = [h \in Handlers |-> <<>>] /\ begun = 0
  /\ indexing = "import" /\ late = {} /\ revived = {} /\ calm = TRUE /\ boots = 0 /\ arrived = 0

StoreNext ==
  \/ CreateSession \/ PostMessage \/ ArchiveSession \/ CreateSubsession \/ HandoverSession
  \/ CompleteSession \/ CardHandler \/ AssignCard \/ ReassignCard
  \/ CreateProject \/ EditProject \/ DeleteProject \/ AttachProject
  \/ AttachContext \/ DetachContext
  \/ \E h \in Handlers : Do(h)
  \/ \E h \in HermesId, id \in {Itself, 0} : Observe(h, id)
  \/ Import \/ Reindex \/ Boot

StoreSpec == StoreInit /\ [][StoreNext]_storeVars
-----------------------------------------------------------------------------
(***************************************************************************)
(* Properties.                                                             *)
(***************************************************************************)
\* What the views v show is in the log q.
ShownIsIn(v, q) ==
  /\ \A s \in Session : Known(v.sessions, s) => \E i \in DOMAIN q : Creates(q[i], s)
  /\ \A s \in Session : \A n \in DOMAIN v.hot[s] : \E i \in DOMAIN q :
       q[i].type = "message" /\ q[i].session = s /\ q[i].id = v.hot[s][n]
  /\ \A k \in Card : v.cards[k].status # None =>
       \E i \in DOMAIN q : q[i] = CardEvent("card_created", k)

\* No client is told of a session, a card or a message that a restart takes
\* back, whatever append failed.
ShownIsStored == ShownIsIn(view, log)

\* Is e in the views v?
IsShown(v, e) ==
  /\ e.type = "created" => Known(v.sessions, e.session)
  /\ e.type = "message" =>
       Len(v.hot[e.session]) = Window \/ e.id \in ToSet(v.hot[e.session])
  /\ e.type = "card_created" => v.cards[e.card].status # None

\* Once the import and the handlers are through, everything in the log is
\* shown, but for what was observed since: no handler's event falls between
\* its append and the replay that the import makes.
NothingHidden ==
  ~Busy /\ indexing = "done" =>
    \A i \in DOMAIN log : log[i] \notin late => IsShown(view, log[i])

\* What is shown is stored, in every state, and what is stored is shown.
ViewsMatchLog == ShownIsStored /\ NothingHidden

\* An observed message is in the log once, however often and over however many
\* transports Orbits report it.  (A boot on Postgres forgets what it has
\* observed, and keeps the log.)
ObservedOnce ==
  backend = "sqlite" =>
    \A h \in HermesId : \A i, j \in DOMAIN log :
      log[i] = Message(h, 0, "orbit") /\ log[j] = Message(h, 0, "orbit") => i = j

\* p is created by the first n events of q, and not deleted by the rest of them.
Stands(p, q, n) ==
  \E j \in 1..n :
    /\ q[j] = ProjectEvent("project_created", p)
    /\ \A l \in j..n : q[l] # ProjectEvent("project_deleted", p)

\* A session is attached only to a project that exists: "validation, durable
\* append, and projection are one serialized command" (sessions.rs).  (Not so a
\* project whose creation was shown again after its deletion.)
ProjectsExist ==
  \A i \in DOMAIN log :
    log[i].type \in {"attached", "context_attached"} /\ log[i].project \notin revived =>
      Stands(log[i].project, log, i - 1)

\* Nothing is in the log that its own past contradicts: no observation twice,
\* no project used that was not there.
LogIsSound == ObservedOnce /\ ProjectsExist

\* Sessions and cards whose history the imported sessions have no part in.
Domestic ==
  /\ \A s \in NativeId : view.sessions[s].parent \in NativeId \cup {None}
  /\ \A k \in Card : \A i \in DOMAIN view.cards[k].attempts :
       view.cards[k].attempts[i].session \in NativeId

Untitled(row) == [row EXCEPT !.titled = FALSE]

\* "native events survive a restart" (entry.rs): a boot keeps the events and
\* the messages of Stellarc's own and of observed sessions.
KeepsNative ==
  backend = "sqlite" =>
    /\ \A i \in DOMAIN log : Column(log[i]) \in Native =>
         \E j \in DOMAIN log' : log'[j] = log[i]
    /\ \A m \in rows.messages : m[1] \in Native => m \in rows'.messages

\* When nothing overlapped, it changes nothing that is shown of a session of
\* Stellarc's own, of a card or of a project: every handler shows what it stored.
ChangesNothing ==
  calm /\ ~Busy /\ Domestic =>
    /\ \A s \in NativeId : Untitled(view'.sessions[s]) = Untitled(view.sessions[s])
    /\ \A s \in NativeId : view'.hot[s] = view.hot[s]
    /\ view'.cards = view.cards /\ view'.projects = view.projects

\* A restart takes nothing back.
BootIsInvisible == [][boots' = boots + 1 => KeepsNative /\ ChangesNothing]_storeVars

\* When nothing overlapped, the SQL projection and the views say the same of
\* every session and of every card: "any divergence here silently corrupts a
\* view" (log_pg.rs).
SameRow(r, v) == Untitled([v EXCEPT !.count = r.count]) = Untitled(r)
RowsMatchViews ==
  calm /\ ~Busy /\ indexing = "done" /\ boots = 0 =>
    /\ \A s \in Session : SameRow(rows.sessions[s], view.sessions[s])
    /\ \A k \in Card : /\ rows.cards[k].status = view.cards[k].status
                       /\ rows.cards[k].session = view.cards[k].session
    /\ rows.projects = view.projects

\* "... keeping natively-created rows" (log_pg.rs).
KeepsRows ==
  boots' = boots + 1 =>
    \A s \in NativeId : Known(rows.sessions, s) => Known(rows'.sessions, s)
RowsKept == [][KeepsRows]_storeVars
=============================================================================
