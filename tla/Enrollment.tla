------------------------------- MODULE Enrollment -------------------------------
(***************************************************************************)
(* How an Orbit is let into the fleet and taken out of it: single-use      *)
(* tokens in memory, the allowlist of keys in axis.toml, and the rows of   *)
(* the node registry with their copy in nodes.json.                        *)
(*                                                                         *)
(* A registration consumes its token, changes the file and then the rows;  *)
(* a removal changes the file and then the rows.  The file is read, a      *)
(* temporary file of a fixed name is written, and renamed over it: the     *)
(* steps of concurrent requests interleave.                                *)
(*                                                                         *)
(* Abstracted: what a connection does once it has registered (module       *)
(* NodeRegistry), when a row was enrolled or seen.                         *)
(***************************************************************************)
EXTENDS Integers, FiniteSets

CONSTANTS
  PeerKey, Name,      \* iroh keys, and the names that Orbits give themselves
  Token, Request, \* tokens that are minted, requests in progress at a time
  MaxRequests,    \* bound: registrations and removals
  MaxBoots        \* bound: restarts of Axis

NoKey == "-"

ASSUME EnrollmentAssumption ==
  MaxRequests \in Nat /\ MaxBoots \in Nat /\ NoKey \notin PeerKey

VARIABLES
  tokens,     \* [Token -> state and the key that it was used by]
  allowed,    \* axis.toml
  scratch,    \* axis.toml.tmp
  rows,       \* [Name \cup PeerKey -> the key of the row, NoKey: no row]
  rostered,   \* rows that carry enrolled_at: those that nodes.json keeps
  requests,   \* [Request -> the request in progress]
  accepted,   \* keys with a connection that is accepted and has not said Hello
  begun, boots,
  letIn,      \* history: pairs of a token and a key that it has let in
  expected,   \* history: what the allowlist should hold
  overlapped  \* history: two requests have changed the file at a time

enrollmentVars == <<tokens, allowed, scratch, rows, rostered, requests, accepted, begun,
                    boots, letIn, expected, overlapped>>
fileVars == <<allowed, scratch>>
rowVars  == <<rows, rostered>>

Id == Name \cup PeerKey      \* a row is seeded under its key
Unminted == [state |-> "none", by |-> NoKey]
Work(at, kind, key, name, token, read) ==
  [at |-> at, kind |-> kind, key |-> key, name |-> name, token |-> token, read |-> read]
Done == Work("done", "-", NoKey, NoKey, NoKey, {})

-----------------------------------------------------------------------------
(***************************************************************************)
(* Tokens.                                                                 *)
(***************************************************************************)
Mint(t) ==
  /\ tokens[t] = Unminted
  /\ tokens' = [tokens EXCEPT ![t].state = "live"]
  /\ UNCHANGED <<fileVars, rowVars, requests, accepted, begun, boots, letIn, expected,
                 overlapped>>
Expire(t) ==
  /\ tokens[t].state = "live"
  /\ tokens' = [tokens EXCEPT ![t].state = "gone"]
  /\ UNCHANGED <<fileVars, rowVars, requests, accepted, begun, boots, letIn, expected,
                 overlapped>>

Consumable(t, k) == tokens[t].state = "live" /\ tokens[t].by \in {NoKey, k}

Changing == {r \in Request : requests[r].at \in {"read", "write", "rename"}}
Become(r, q) == requests' = [requests EXCEPT ![r] = q]
Onward(q, at, read) == Work(at, q.kind, q.key, q.name, q.token, read)
Advance(r, at) == Become(r, Onward(requests[r], at, requests[r].read))

\* enroll_register, up to allowlist_add
Consume(r, t, k, n) ==
  /\ requests[r] = Done /\ begun < MaxRequests /\ Consumable(t, k)
  /\ tokens' = [tokens EXCEPT ![t].by = k]
  /\ Become(r, Work("read", "enroll", k, n, t, {}))
  /\ begun' = begun + 1 /\ overlapped' = (overlapped \/ Changing # {})
  /\ UNCHANGED <<fileVars, rowVars, accepted, boots, letIn, expected>>

\* remove_node, up to allowlist_remove
BeginRemoval(r, i) ==
  /\ requests[r] = Done /\ begun < MaxRequests /\ rows[i] # NoKey
  /\ Become(r, Work("read", "remove", rows[i], i, NoKey, {}))
  /\ begun' = begun + 1 /\ overlapped' = (overlapped \/ Changing # {})
  /\ UNCHANGED <<tokens, fileVars, rowVars, accepted, boots, letIn, expected>>

-----------------------------------------------------------------------------
(***************************************************************************)
(* allowlist_add and allowlist_remove; write_config.                       *)
(***************************************************************************)
Wanted(q, keys) == IF q.kind = "enroll" THEN keys \cup {q.key} ELSE keys \ {q.key}

\* Nothing is written when nothing changes.
ReadConfig(r) ==
  /\ requests[r].at = "read"
  /\ LET q == requests[r]
     IN  Become(r, Onward(q, IF Wanted(q, allowed) = allowed THEN "rows" ELSE "write", allowed))
  /\ UNCHANGED <<tokens, fileVars, rowVars, accepted, begun, boots, letIn, expected, overlapped>>

\* Fault: the file is written over.
WriteConfigInPlace(r) ==
  /\ requests[r].at = "write"
  /\ allowed' = {} /\ scratch' = {Wanted(requests[r], requests[r].read)}
  /\ Advance(r, "rename")
  /\ UNCHANGED <<tokens, rowVars, accepted, begun, boots, letIn, expected, overlapped>>
WriteConfig(r) ==
  /\ requests[r].at = "write"
  /\ scratch' = {Wanted(requests[r], requests[r].read)}
  /\ Advance(r, "rename")
  /\ UNCHANGED <<tokens, allowed, rowVars, accepted, begun, boots, letIn, expected, overlapped>>

\* The temporary file may be another's, or be gone: a registration then
\* fails, a removal goes on.
RenameConfig(r) ==
  LET q == requests[r]
  IN  /\ q.at = "rename"
      /\ IF scratch = {}
         THEN /\ IF q.kind = "enroll" THEN Become(r, Done) ELSE Advance(r, "rows")
              /\ UNCHANGED <<fileVars, letIn, expected>>
         ELSE /\ allowed' = UNION scratch /\ scratch' = {}
              /\ Advance(r, "rows")
              /\ expected' = IF q.kind = "enroll" THEN expected \cup {q.key}
                                                  ELSE expected \ {q.key}
              /\ letIn' = IF q.kind = "enroll" THEN letIn \cup {<<q.token, q.key>>} ELSE letIn
      /\ UNCHANGED <<tokens, rowVars, accepted, begun, boots, overlapped>>

-----------------------------------------------------------------------------
(***************************************************************************)
(* Rows.                                                                   *)
(***************************************************************************)
RowsOf(k) == {i \in Id : rows[i] = k}

\* NodeRegistry::enroll: other rows of the key are migrated to this one.
\* Fault: they are left.
EnrolledAlongside(k, n) == [rows EXCEPT ![n] = k]
Enrolled(k, n) == [i \in Id |-> IF i = n THEN k
                                ELSE IF rows[i] = k THEN NoKey ELSE rows[i]]

EnrollRow(r) ==
  LET q == requests[r]
  IN  /\ q.at = "rows" /\ q.kind = "enroll"
      /\ rows' = Enrolled(q.key, q.name)
      /\ rostered' = (rostered \cup {q.name}) \cap {i \in Id : rows'[i] # NoKey}
      /\ Become(r, Done)
      /\ UNCHANGED <<tokens, fileVars, accepted, begun, boots, letIn, expected, overlapped>>

\* deregister; the connection is dropped, which may be that of a newer row
\* of the name.
DeregisterRow(r) ==
  LET q == requests[r]
  IN  /\ q.at = "rows" /\ q.kind = "remove"
      /\ rows' = [rows EXCEPT ![q.name] = NoKey] /\ rostered' = rostered \ {q.name}
      /\ Become(r, Done)
      /\ UNCHANGED <<tokens, fileVars, accepted, begun, boots, letIn, expected, overlapped>>

\* run_iroh_accept_loop checks the list; the Hello does not check it again.
AcceptKey(k) ==
  /\ k \in allowed \ accepted /\ accepted' = accepted \cup {k}
  /\ UNCHANGED <<tokens, fileVars, rowVars, requests, begun, boots, letIn, expected, overlapped>>
\* register_inner: the row of the key moves to the name, from whatever name
\* it had; a row that had the name and another key is taken over.
SayHello(k, n) ==
  /\ k \in accepted /\ accepted' = accepted \ {k}
  /\ \E old \in IF RowsOf(k) = {} THEN {n} ELSE RowsOf(k) :
       /\ rows' = [rows EXCEPT ![old] = NoKey, ![n] = k]
       /\ rostered' = (rostered \ {old, n}) \cup
                        (IF rows[old] = k /\ old \in rostered THEN {n} ELSE {})
  /\ UNCHANGED <<tokens, fileVars, requests, begun, boots, letIn, expected, overlapped>>

\* with_inventory: the rows of nodes.json, and one for every other key.
\* It may not be there, or be unreadable.  Tokens are in memory.
Reseeded(kept) ==
  LET known == {rows[i] : i \in kept}
  IN  [i \in Id |-> IF i \in kept THEN rows[i]
                    ELSE IF i \in allowed \ known THEN i ELSE NoKey]
RestartAxis(kept) ==
  /\ boots < MaxBoots /\ boots' = boots + 1
  /\ kept \in {{}, rostered}
  /\ rows' = Reseeded(kept) /\ rostered' = {i \in Id : rows'[i] # NoKey}
  /\ tokens' = [t \in Token |-> IF tokens[t].state = "none" THEN Unminted
                                ELSE [state |-> "gone", by |-> tokens[t].by]]
  /\ requests' = [r \in Request |-> Done] /\ accepted' = {}
  /\ UNCHANGED <<fileVars, begun, letIn, expected, overlapped>>

-----------------------------------------------------------------------------
EnrollmentInit ==
  /\ tokens = [t \in Token |-> Unminted]
  /\ allowed = {} /\ scratch = {}
  /\ rows = [i \in Id |-> NoKey] /\ rostered = {}
  /\ requests = [r \in Request |-> Done] /\ accepted = {}
  /\ begun = 0 /\ boots = 0
  /\ letIn = {} /\ expected = {} /\ overlapped = FALSE

EnrollmentNext ==
  \/ \E t \in Token : Mint(t) \/ Expire(t)
  \/ \E r \in Request :
       \/ \E t \in Token, k \in PeerKey, n \in Name : Consume(r, t, k, n)
       \/ \E i \in Id : BeginRemoval(r, i)
       \/ ReadConfig(r) \/ WriteConfig(r) \/ RenameConfig(r)
       \/ EnrollRow(r) \/ DeregisterRow(r)
  \/ \E k \in PeerKey : AcceptKey(k) \/ \E n \in Name : SayHello(k, n)
  \/ \E kept \in SUBSET Id : RestartAxis(kept)

EnrollmentSpec == EnrollmentInit /\ [][EnrollmentNext]_enrollmentVars

-----------------------------------------------------------------------------
(***************************************************************************)
(* Properties.                                                             *)
(***************************************************************************)
(* Every variable has its type. *)
EnrollmentTypeOK ==
  /\ tokens \in [Token -> [state : {"none", "live", "gone"}, by : PeerKey \cup {NoKey}]]
  /\ allowed \subseteq PeerKey /\ scratch \subseteq SUBSET PeerKey
  /\ rows \in [Id -> PeerKey \cup {NoKey}] /\ rostered \subseteq Id
  /\ requests \in [Request ->
       [at : {"done", "read", "write", "rename", "rows"}, kind : {"-", "enroll", "remove"},
        key : PeerKey \cup {NoKey}, name : Id \cup {NoKey}, token : Token \cup {NoKey},
        read : SUBSET PeerKey]]
  /\ accepted \subseteq PeerKey /\ begun \in Nat /\ boots \in Nat
  /\ letIn \subseteq Token \X PeerKey /\ expected \subseteq PeerKey /\ overlapped \in BOOLEAN

(* The registry never holds two rows of one key, however it is enrolled,   *)
(* re-enrolled under other names, named by its Hello, seeded by a boot, or *)
(* removed meanwhile.                                                      *)
OneRowPerKey == \A i, j \in Id : rows[i] # NoKey /\ rows[i] = rows[j] => i = j

(* The allowlist holds the keys that were enrolled and not removed since,  *)
(* through crashes of Axis anywhere in either, and no token has let in two *)
(* of them, unless two requests changed the file at a time: they share the *)
(* temporary file, and the later one has read what was there before the    *)
(* earlier.                                                                *)
AllowlistIsExact ==
  /\ ~overlapped => allowed = expected
  /\ \A g, h \in letIn : g[1] = h[1] => g[2] = h[2]

=============================================================================
