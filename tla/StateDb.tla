-------------------------------- MODULE StateDb --------------------------------
(***************************************************************************)
(* How what other programs write to Hermes' state.db reaches the log of    *)
(* Axis.                                                                   *)
(*                                                                         *)
(* Hermes is external: it creates sessions, inserts message rows whose     *)
(* ids only grow, and compacts a session, after which its rows so far are  *)
(* no longer live.  Two readers tail the table:                            *)
(*                                                                         *)
(*   the observer of an Orbit (orbit/src/observer.rs, run_observer), whose *)
(*     observations are spooled and are accepted by Axis in the order of   *)
(*     the spool (EventTransport shows that each of them arrives once);    *)
(*   the worker of Axis (axis/src/sync.rs), which runs only when an        *)
(*     operator turns it on.                                               *)
(*                                                                         *)
(* Abstracted: what a message says, what is known and told of a session    *)
(* besides its messages, the pauses between polls, and the search index.   *)
(***************************************************************************)
EXTENDS Integers, FiniteSets, Sequences

CONSTANTS
  Foreign,     \* sessions of other channels
  Owned,       \* sessions of the bridge, whose source is stellarc
  Limit,       \* rows that one poll reads
  MaxRows      \* bound: rows of the table

ASSUME StateDbAssumption ==
  Limit \in Nat \ {0} /\ MaxRows \in Nat /\ Foreign \cap Owned = {}

VARIABLES
  reader,      \* which one runs: "observer" or "worker"
  created,     \* sessions in state.db
  table,       \* rows [of, live]; the id of a row is its place
  observing,   \* whether the observer runs
  since,       \* history: the last row at its start
  cursor,      \* its last_seen_id
  listed,      \* it is between the two statements of a poll
  spooled,     \* observations that Axis has not accepted: [of, row, number]
  relayed,     \* those that Axis has appended to the log
  missed,      \* history: rows whose observation was lost to an error
  compacted,   \* history: sessions that were compacted
  syncing,     \* whether the worker runs
  tail,        \* its last_seen_id
  counts,      \* the row_count of each session's signature, or -1: not known
  todo,        \* sessions that its sweep has yet to reconcile
  mirrored,    \* messages that the worker has appended to the log
  recounted    \* history: sessions whose count was lowered

databaseVars == <<created, table, compacted>>
observerVars == <<observing, since, cursor, listed, spooled, relayed, missed>>
workerVars   == <<syncing, tail, counts, todo, mirrored, recounted>>
stateDbVars  == <<reader, databaseVars, observerVars, workerVars>>

RowsOf(s) == {i \in DOMAIN table : table[i].of = s}
LiveRows(s) == {i \in RowsOf(s) : table[i].live}
LowestOf(S, n) == {i \in S : Cardinality({j \in S : j < i}) < n}
Highest(S, least) == CHOOSE m \in S \cup {least} : \A i \in S \cup {least} : i <= m
InOrder(S) ==
  {b \in [1..Cardinality(S) -> S] :
     /\ \A m, n \in DOMAIN b : m < n => b[m] < b[n]
     /\ \A i \in S : \E n \in DOMAIN b : b[n] = i}

-----------------------------------------------------------------------------
(***************************************************************************)
(* Hermes.                                                                 *)
(***************************************************************************)
InsertSession(s) ==
  /\ s \notin created
  /\ created' = created \cup {s}
  /\ UNCHANGED <<table, compacted, observerVars, workerVars>>

InsertMessage(s) ==
  /\ s \in created /\ Len(table) < MaxRows
  /\ table' = Append(table, [of |-> s, live |-> TRUE])
  /\ UNCHANGED <<created, compacted, observerVars, workerVars>>

Compact(s) ==
  /\ LiveRows(s) # {}
  /\ table' = [i \in DOMAIN table |->
                 IF i \in LiveRows(s) THEN [of |-> s, live |-> FALSE] ELSE table[i]]
  /\ compacted' = compacted \cup {s}
  /\ UNCHANGED <<created, observerVars, workerVars>>

-----------------------------------------------------------------------------
(***************************************************************************)
(* The observer of an Orbit.                                               *)
(***************************************************************************)
\* The Orbit starts: what is there belongs to the cold boot of Axis.
OpenObserver ==
  /\ ~observing /\ observing' = TRUE
  /\ since' = Len(table) /\ cursor' = Len(table)
  /\ UNCHANGED <<listed, spooled, relayed, missed, databaseVars, workerVars>>

OrbitStops ==
  /\ observing /\ observing' = FALSE /\ listed' = FALSE
  /\ UNCHANGED <<since, cursor, spooled, relayed, missed, databaseVars, workerVars>>

\* A poll is two statements, and rows are inserted between them.
PollSessions ==
  /\ observing /\ ~listed /\ listed' = TRUE
  /\ UNCHANGED <<observing, since, cursor, spooled, relayed, missed, databaseVars, workerVars>>

\* message_id: the live rows of the session up to this one, less one
NumberOf(i) == Cardinality({j \in LiveRows(table[i].of) : j <= i}) - 1

\* Fault: the cursor is the highest id of the table, not of what was read.
FreshAll(read) == Len(table)
Passed(read) == Highest(read, cursor)

Unread == {i \in DOMAIN table : i > cursor /\ table[i].of \in Foreign}
Observation(i) == [of |-> table[i].of, row |-> i, number |-> NumberOf(i)]

\* Every observation is spooled or, when its append fails, only logged.
PollMessages ==
  /\ observing /\ listed /\ listed' = FALSE
  /\ LET read == LowestOf(Unread, Limit)
         live == {i \in read : table[i].live}
     IN  \E kept \in SUBSET live : \E rows \in InOrder(kept) :
           /\ spooled' = spooled \o [n \in DOMAIN rows |-> Observation(rows[n])]
           /\ missed' = missed \cup (live \ kept)
           /\ cursor' = Passed(read)
  /\ UNCHANGED <<observing, since, relayed, databaseVars, workerVars>>

\* A poll that fails has moved the cursor past the rows it had read.
PollFails ==
  /\ observing /\ listed /\ listed' = FALSE
  /\ \E n \in 0..Limit :
       LET read == LowestOf(Unread, n)
       IN  missed' = missed \cup read /\ cursor' = Highest(read, cursor)
  /\ UNCHANGED <<observing, since, spooled, relayed, databaseVars, workerVars>>

\* accept_observed: one number of a session is appended once.
Seen(o) == \E k \in DOMAIN relayed : relayed[k].of = o.of /\ relayed[k].number = o.number

Accept ==
  /\ spooled # <<>> /\ spooled' = Tail(spooled)
  /\ relayed' = IF Seen(Head(spooled)) THEN relayed ELSE Append(relayed, Head(spooled))
  /\ UNCHANGED <<observing, since, cursor, listed, missed, databaseVars, workerVars>>

-----------------------------------------------------------------------------
(***************************************************************************)
(* The worker of Axis.                                                     *)
(***************************************************************************)
Counts(new) ==
  /\ counts' = new
  /\ recounted' = recounted \cup {s \in Foreign \cup Owned : new[s] < counts[s]}

\* seed_state_from_db: the columns of the query are cnt and max_id, in this
\* order, and row_count takes the second.
SeededCount(s) == Highest(LiveRows(s), -1)

Seed ==
  /\ ~syncing /\ syncing' = TRUE
  /\ tail' = Len(table) /\ Counts([s \in Foreign \cup Owned |-> SeededCount(s)])
  /\ UNCHANGED <<todo, mirrored, databaseVars, observerVars>>

\* tail_rows_to_events: a row of an unknown session is passed over.
PollTail ==
  /\ syncing /\ todo = {}
  /\ LET read == LowestOf({i \in DOMAIN table : i > tail}, Limit)
         told == {i \in read : table[i].live /\ counts[table[i].of] # -1}
         Of(s) == {i \in told : table[i].of = s}
         Before(i) == {j \in Of(table[i].of) : j < i}
         Message(i) == [of |-> table[i].of, row |-> i,
                        number |-> counts[table[i].of] + Cardinality(Before(i))]
     IN  /\ read # {} /\ tail' = Highest(read, tail)
         /\ \E rows \in InOrder(told) :
              mirrored' = mirrored \o [n \in DOMAIN rows |-> Message(rows[n])]
         /\ todo' \in IF told = {} THEN {{}} ELSE {{}, created \cap Foreign}
         /\ Counts([s \in Foreign \cup Owned |-> counts[s] + Cardinality(Of(s))])
  /\ UNCHANGED <<syncing, databaseVars, observerVars>>

\* reconcile_session: the signature of the session as it is now
Reconcile(s) ==
  /\ syncing /\ s \in todo /\ todo' = todo \ {s}
  /\ Counts([counts EXCEPT ![s] = Cardinality(LiveRows(s))])
  /\ UNCHANGED <<syncing, tail, mirrored, databaseVars, observerVars>>

\* An append fails, or state.db cannot be read: the worker ends.
WorkerEnds ==
  /\ syncing /\ syncing' = FALSE /\ todo' = {}
  /\ UNCHANGED <<tail, counts, mirrored, recounted, databaseVars, observerVars>>

-----------------------------------------------------------------------------
StateDbInit ==
  /\ reader \in {"observer", "worker"}
  /\ created = {} /\ table = <<>> /\ compacted = {}
  /\ observing = FALSE /\ since = 0 /\ cursor = 0 /\ listed = FALSE
  /\ spooled = <<>> /\ relayed = <<>> /\ missed = {}
  /\ syncing = FALSE /\ tail = 0 /\ counts = [s \in Foreign \cup Owned |-> -1] /\ todo = {}
  /\ mirrored = <<>> /\ recounted = {}

Hermes ==
  \E s \in Foreign \cup Owned : InsertSession(s) \/ InsertMessage(s) \/ Compact(s)
Observer ==
  OpenObserver \/ OrbitStops \/ PollSessions \/ PollMessages \/ PollFails \/ Accept
Worker == Seed \/ PollTail \/ WorkerEnds \/ \E s \in Foreign : Reconcile(s)

StateDbNext ==
  /\ Hermes \/ (reader = "observer" /\ Observer) \/ (reader = "worker" /\ Worker)
  /\ UNCHANGED reader

StateDbSpec == StateDbInit /\ [][StateDbNext]_stateDbVars

-----------------------------------------------------------------------------
(***************************************************************************)
(* Properties.                                                             *)
(***************************************************************************)
Sent == relayed \o spooled
EarlierOf(i) == {j \in RowsOf(table[i].of) : j < i}

(* Every message that another channel writes after the Orbit has started   *)
(* is relayed once, under the number of messages of its session before     *)
(* it, however polls, sessions, limits and restarts fall, unless its poll  *)
(* or its append failed or the session has been compacted.                 *)
ToldInFull ==
  observing =>
    \A i \in (since + 1)..cursor :
      table[i].of \in Foreign \ compacted /\ i \notin missed =>
        /\ Cardinality({k \in DOMAIN Sent : Sent[k].row = i}) = 1
        /\ \E k \in DOMAIN Sent :
             Sent[k].row = i /\ Sent[k].number = Cardinality(EarlierOf(i))

(* The worker mirrors no row twice, and the rows in their order, across    *)
(* its restarts, and the numbers of one session grow until a seed or a     *)
(* reconciliation lowers its count.                                        *)
MirroredInOrder ==
  \A k, l \in DOMAIN mirrored : k < l =>
    /\ mirrored[k].row < mirrored[l].row
    /\ mirrored[k].of = mirrored[l].of /\ mirrored[k].of \notin recounted =>
         mirrored[k].number < mirrored[l].number

(* What Hermes writes reaches Axis in order and without repetition through *)
(* either reader of its database, and in full through the Orbit's.         *)
ObservedInFull == ToldInFull /\ MirroredInOrder
=============================================================================
