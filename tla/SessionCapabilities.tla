--------------------------- MODULE SessionCapabilities ---------------------------
(***************************************************************************)
(* The capability envelopes of sessions.  A session without a record has   *)
(* the legacy full grant; what a session may do is the intersection of the *)
(* records of its whole lineage, read when it is asked for.                *)
(*                                                                         *)
(* A handler checks a request under the views' lock, appends the events to *)
(* the log without it, and applies them under the lock again; handlers     *)
(* interleave between these, and Axis may crash.  `stored` is what a boot  *)
(* replays, `view` what requests are judged by.                            *)
(*                                                                         *)
(* Abstracted: paths, repositories, vaults and limits narrow as ids do;    *)
(* whether every writable path is readable is a flag of a request.  The    *)
(* signature holds as long as the key does, which is written once.         *)
(***************************************************************************)
EXTENDS Integers, FiniteSets

CONSTANTS
  Spawned,    \* ids of sessions
  Asker,      \* requests that may be in progress at a time
  Right,      \* capability ids
  Covers,     \* pairs: the resource of the first is a prefix of the second's
  ParentOf,   \* the sessions with a parent that are there at the start, with it
  MaxPatches  \* bound: patches that carry an envelope

NoParent == "-"

\* A prefix of a prefix is a prefix; no session is its own ancestor.
ASSUME CapabilityAssumption ==
  /\ Covers \subseteq Right \X Right /\ MaxPatches \in Nat
  /\ \A q, r, t \in Right : <<q, r>> \in Covers /\ <<r, t>> \in Covers => <<q, t>> \in Covers
  /\ NoParent \notin Spawned
  /\ DOMAIN ParentOf \subseteq Spawned /\ ParentOf \in [DOMAIN ParentOf -> Spawned]
  /\ \A C \in SUBSET DOMAIN ParentOf : C # {} => \E s \in C : ParentOf[s] \notin C

VARIABLES
  stored, sessions,  \* [Spawned -> a row]: what the log holds, and the view
  asking,            \* [Asker -> the request in progress]
  patches,           \* envelopes patched
  raced,             \* history: sessions patched while another request had them in hand
  unlinked           \* history: sessions whose fork was not logged

capabilityVars == <<stored, sessions, asking, patches, raced, unlinked>>

Envelope == [ids : SUBSET Right, fork : BOOLEAN]
\* Legacy: no record.  An envelope that does not validate cannot be signed.
Legacy  == [ids |-> Right, fork |-> TRUE, legacy |-> TRUE]
Record(e) == [ids |-> e.ids, fork |-> e.fork, legacy |-> FALSE]
Missing == [known |-> FALSE, parent |-> NoParent, record |-> Legacy, started |-> FALSE]
Row     == [Missing EXCEPT !.known = TRUE]

\* capability_matches and allows_id
AllowsId(record, r) == r \in record.ids \/ \E g \in record.ids : <<g, r>> \in Covers
\* CapabilitySet::intersect
Intersect(parent, e) ==
  [ids |-> {r \in e.ids : AllowsId(parent, r)}, fork |-> parent.fork /\ e.fork]
IsNarrowerThan(e, parent) == Intersect(parent, e) = e

\* authorize_capability goes from parent to parent: every session on the way is
\* known, and every record allows r.  x is on the way from s if no set without x
\* holds all of it.
Stays(t, C) == \A x \in C : t[x].parent \in C \cup {NoParent}
Lineage(t, s) == {x \in Spawned : \A C \in SUBSET (Spawned \ {x}) : s \in C => ~Stays(t, C)}
Authorized(t, s, r) == \A x \in Lineage(t, s) : t[x].known /\ AllowsId(t[x].record, r)
Authority(t, s) == {r \in Right : Authorized(t, s, r)}

-----------------------------------------------------------------------------
(***************************************************************************)
(* Requests.  A request in progress is the events it has yet to append and *)
(* the event it applies last.                                              *)
(***************************************************************************)
Idle == [doing |-> "none", of |-> NoParent, parent |-> NoParent, record |-> Legacy,
         valid |-> FALSE, logged |-> FALSE]

Amended(t, s, record) == IF record.legacy \/ ~t[s].known THEN t ELSE [t EXCEPT ![s].record = record]
ChildOf(t, s, p) == [t EXCEPT ![s].parent = p]

Become(a, r) == asking' = [asking EXCEPT ![a] = r]

\* create_session: create_draft logs the session, and the envelope is signed
\* only then, so a request that is refused for it leaves a session behind.
IssueSession(a, s, record, valid) ==
  /\ asking[a].doing = "none" /\ ~stored[s].known
  /\ stored' = [stored EXCEPT ![s] = Row]
  /\ IF record.legacy \/ valid
     THEN Become(a, [Idle EXCEPT !.doing = "create", !.of = s, !.record = record])
     ELSE UNCHANGED asking
  /\ UNCHANGED <<sessions, patches, raced, unlinked>>
LogCreated(a) ==
  /\ asking[a].doing = "create" /\ ~asking[a].logged
  /\ stored' = Amended(stored, asking[a].of, asking[a].record)
  /\ Become(a, [asking[a] EXCEPT !.logged = TRUE])
  /\ UNCHANGED <<sessions, patches, raced, unlinked>>
ApplyCreated(a) ==
  /\ asking[a].doing = "create" /\ asking[a].logged
  /\ LET s == asking[a].of
     IN  sessions' = Amended([sessions EXCEPT ![s] = Row], s, asking[a].record)
  /\ Become(a, Idle)
  /\ UNCHANGED <<stored, patches, raced, unlinked>>

\* What a child is given: what it asks for, if the parent covers it, or the
\* parent's record; anything at all below a parent without one.
ChildRecord(parent, requested) ==
  IF requested.legacy THEN parent ELSE requested
MaySpawn(parent, requested) ==
  parent.legacy \/ (parent.fork /\ (requested.legacy \/
    IsNarrowerThan([ids |-> requested.ids, fork |-> requested.fork], parent)))

\* create_subsession, up to the draft
IssueSubsession(a, s, p, requested, valid) ==
  /\ asking[a].doing = "none" /\ ~stored[s].known /\ sessions[p].known
  /\ MaySpawn(sessions[p].record, requested)
  /\ stored' = [stored EXCEPT ![s] = Row]
  /\ Become(a, [Idle EXCEPT !.doing = "child", !.of = s, !.parent = p,
                  !.record = ChildRecord(sessions[p].record, requested),
                  !.valid = requested.legacy \/ valid])
  /\ UNCHANGED <<sessions, patches, raced, unlinked>>
\* The draft is shown; only now is the envelope signed.
ShowChild(a) ==
  /\ asking[a].doing = "child"
  /\ sessions' = [sessions EXCEPT ![asking[a].of] = Row]
  /\ IF asking[a].valid THEN Become(a, [asking[a] EXCEPT !.doing = "fork"])
                        ELSE Become(a, Idle)
  /\ UNCHANGED <<stored, patches, raced, unlinked>>
\* A fork that cannot be logged is applied all the same.
LogFork(a, written) ==
  /\ asking[a].doing = "fork"
  /\ stored' = IF written THEN ChildOf(stored, asking[a].of, asking[a].parent) ELSE stored
  /\ unlinked' = IF written THEN unlinked ELSE unlinked \cup {asking[a].of}
  /\ Become(a, [asking[a] EXCEPT !.doing = "link"])
  /\ UNCHANGED <<sessions, patches, raced>>
\* Under one lock: the link, the logged record, the record.
LinkChild(a, written) ==
  /\ asking[a].doing = "link"
  /\ LET s == asking[a].of
         t == ChildOf(sessions, s, asking[a].parent)
     IN  IF written
         THEN stored' = Amended(stored, s, asking[a].record)
              /\ sessions' = Amended(t, s, asking[a].record)
         ELSE sessions' = t /\ UNCHANGED stored
  /\ Become(a, Idle)
  /\ UNCHANGED <<patches, raced, unlinked>>

-----------------------------------------------------------------------------
\* patch_session
MayPatch(row, e) == IF row.record.legacy THEN ~row.started
                    ELSE IsNarrowerThan(e, row.record)

InHand(s) == {a \in Asker : asking[a].of = s}

PatchSession(a, s, e) ==
  /\ asking[a].doing = "none" /\ sessions[s].known /\ patches < MaxPatches
  /\ MayPatch(sessions[s], e)
  /\ Become(a, [Idle EXCEPT !.doing = "patch", !.of = s, !.record = Record(e)])
  /\ patches' = patches + 1
  /\ raced' = IF InHand(s) = {} THEN raced ELSE raced \cup {s}
  /\ UNCHANGED <<stored, sessions, unlinked>>

\* An append that fails is answered, and nothing is applied.
LogPatch(a, written) ==
  /\ asking[a].doing = "patch" /\ ~asking[a].logged
  /\ IF written
     THEN stored' = Amended(stored, asking[a].of, asking[a].record)
          /\ Become(a, [asking[a] EXCEPT !.logged = TRUE])
     ELSE Become(a, Idle) /\ UNCHANGED stored
  /\ UNCHANGED <<sessions, patches, raced, unlinked>>
ApplyPatch(a) ==
  /\ asking[a].doing = "patch" /\ asking[a].logged
  /\ sessions' = Amended(sessions, asking[a].of, asking[a].record)
  /\ Become(a, Idle)
  /\ UNCHANGED <<stored, patches, raced, unlinked>>

\* The first message of a session, logged before it is shown.
StartSession(s) ==
  /\ sessions[s].known /\ ~sessions[s].started
  /\ stored' = [stored EXCEPT ![s].started = TRUE]
  /\ sessions' = [sessions EXCEPT ![s].started = TRUE]
  /\ UNCHANGED <<asking, patches, raced, unlinked>>

\* Axis crashes and boots: the view is what the log replays to.
\* Fault: the links of sessions are not replayed.
RebootUnlinked ==
  /\ sessions' = [s \in Spawned |-> [stored[s] EXCEPT !.parent = NoParent]]
  /\ asking' = [a \in Asker |-> Idle]
  /\ UNCHANGED <<stored, patches, raced, unlinked>>
Reboot ==
  /\ sessions' = stored
  /\ asking' = [a \in Asker |-> Idle]
  /\ UNCHANGED <<stored, patches, raced, unlinked>>

-----------------------------------------------------------------------------
\* What the log holds: sessions and forks without an envelope.
Found(s) ==
  IF s \in DOMAIN ParentOf THEN [Row EXCEPT !.parent = ParentOf[s]]
  ELSE IF \E c \in DOMAIN ParentOf : ParentOf[c] = s THEN Row ELSE Missing

CapabilityInit ==
  /\ stored = [s \in Spawned |-> Found(s)] /\ sessions = stored
  /\ asking = [a \in Asker |-> Idle]
  /\ patches = 0 /\ raced = {} /\ unlinked = {}

Requested == {Legacy} \cup {Record(e) : e \in Envelope}

CapabilityNext ==
  \/ \E a \in Asker, s \in Spawned, record \in Requested, valid \in BOOLEAN :
       \/ IssueSession(a, s, record, valid)
       \/ \E p \in Spawned : IssueSubsession(a, s, p, record, valid)
  \/ \E a \in Asker :
       \/ LogCreated(a) \/ ApplyCreated(a) \/ ShowChild(a) \/ ApplyPatch(a)
       \/ \E written \in BOOLEAN : LogFork(a, written) \/ LinkChild(a, written)
                                     \/ LogPatch(a, written)
       \/ \E s \in Spawned, e \in Envelope : PatchSession(a, s, e)
  \/ \E s \in Spawned : StartSession(s)
  \/ Reboot

CapabilitySpec == CapabilityInit /\ [][CapabilityNext]_capabilityVars

-----------------------------------------------------------------------------
(***************************************************************************)
(* Properties.                                                             *)
(***************************************************************************)
(* What a session may do never grows: not by a patch, a fork, a late or    *)
(* failed append, nor by a restart that replays the log.  Two cases are    *)
(* left out, in which it does: a patch of a session of the lineage while   *)
(* another patch of it, or its creation as a child, is in progress, each   *)
(* judged by a record that the other replaces; and a child whose fork      *)
(* could not be logged, which a restart unlinks.                           *)
Narrowed(s) ==
  sessions[s].known /\ Lineage(sessions, s) \cap (raced \cup unlinked) = {} =>
    Authority(sessions', s) \subseteq Authority(sessions, s)
AuthorityNarrows ==
  [][sessions' = sessions \/ \A s \in Spawned : Narrowed(s)]_capabilityVars

=============================================================================
