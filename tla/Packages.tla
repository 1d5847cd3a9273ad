------------------------------- MODULE Packages -------------------------------
(***************************************************************************)
(* What Axis declares: the packages that are installed, the adapter        *)
(* entries they contribute, who owns each capability, the agent set-up of  *)
(* each scope and the repositories.  Two copies of it are kept:            *)
(*                                                                         *)
(*   stored   what a replay of the log gives: every event is applied in    *)
(*            the order in which it was appended;                          *)
(*   shown    the views, to which every handler applies its own events.    *)
(*                                                                         *)
(* The handlers of /api/packages hold the write lock of the views from the *)
(* check to the projection.  Those of /api/registry, /api/setup and        *)
(* /api/repos append first and take the lock afterwards.                   *)
(*                                                                         *)
(* Abstracted: the text of manifests and the schema and compatibility      *)
(* checks on it (only manifests that pass them are asked for), digests     *)
(* (a manifest stands for its own), authors, and the time of installation. *)
(***************************************************************************)
EXTENDS Integers, FiniteSets, Sequences

CONSTANTS
  Package,      \* package ids, ordered as their strings are
  Legacy,       \* those of the form legacy.<kind>.<slug>
  Core,         \* core.jobs, the owner of the capability that is built in
  Capability, BuiltIn,
  Key,          \* <kind>/<slug>, the names of adapter entries
  Manifest,     \* [provides, needs, key, supported, legacy]; what PUT installs
                \* is legacy, and what it installs for an id in Legacy
                \* has the key of that id
  Declared,     \* scopes of set-ups and slugs of repositories
  Declaration,  \* what is declared for one
  Putter,       \* handlers of /api/registry, /api/setup, /api/repos
  NoRecord,     \* no package, no key, no declaration, no binding, no request
  MaxTime       \* bound: instants that the clock shows; it may step back

ASSUME PackagesAssumption ==
  /\ Package \subseteq Nat /\ Legacy \subseteq Package
  /\ Core \notin Package /\ NoRecord \notin Package \cup {Core}
  /\ BuiltIn \in Capability /\ MaxTime \in Nat
  /\ \A m \in Manifest : /\ m.provides \subseteq Capability
                         /\ m.legacy \in BOOLEAN /\ m.supported \in BOOLEAN
                         /\ m.key \in Key \cup {NoRecord}
                         /\ m.legacy => m.provides = {} /\ m.needs = {}

VARIABLES
  stored, shown,
  putting    \* [Putter -> the events it has appended and not applied, or NoRecord]

packageVars == <<stored, shown, putting>>

-----------------------------------------------------------------------------
(***************************************************************************)
(* Who owns what.  `held` maps every id to its PackageRecord.              *)
(***************************************************************************)
Record(m, bound, granted, active, at) ==
  [manifest |-> m, bound |-> bound, granted |-> granted, active |-> active, at |-> at]
Needs == UNION {m.needs : m \in Manifest}
Unbound == [c \in Capability |-> NoRecord]

Active(held) == {i \in Package : held[i] # NoRecord /\ held[i].active}
\* active packages are taken in the order of their activation
Before(held, i, j) ==
  held[i].at < held[j].at \/ (held[i].at = held[j].at /\ i < j)
First(held, S) == {i \in S : \A j \in S \ {i} : Before(held, i, j)}
Latest(held, S)  == {i \in S : \A j \in S \ {i} : Before(held, j, i)}

Provides(held, i, c) == c \in held[i].manifest.provides
Claims(held, c) ==   \* bound to themselves
  {i \in Active(held) : Provides(held, i, c) /\ held[i].bound[c] = i}
Offers(held, c) ==   \* not bound
  {i \in Active(held) : Provides(held, i, c) /\ held[i].bound[c] = NoRecord}

\* active_capabilities: the owner of c, if there is one
Owners(held, c) ==
  IF Claims(held, c) # {} THEN Latest(held, Claims(held, c))
  ELSE IF c = BuiltIn THEN {Core}
  ELSE First(held, Offers(held, c))

\* an owner other than `i` must have been named when i was bound, or i itself
Agrees(i, bound, owners) == \A o \in owners \ {i} : bound \in {o, i}

ValidInstall(held, i, m, bound) ==
  \A c \in Capability :
    /\ bound[c] # NoRecord => c \in m.provides /\ bound[c] \in {i} \cup Owners(held, c)
    /\ c \in m.provides => Agrees(i, bound[c], Owners(held, c))
\* Fault: what provides a capability already is not looked at.
ValidActivationAlone(held, i) == held[i] # NoRecord
ValidActivation(held, i) ==
  /\ held[i] # NoRecord
  /\ \A c \in held[i].manifest.provides : Agrees(i, held[i].bound[c], Owners(held, c))

-----------------------------------------------------------------------------
(***************************************************************************)
(* Projections of the events.                                              *)
(***************************************************************************)
\* rebuild_entries: what provides nothing takes a free key; what provides
\* something takes its key when it owns all of it
Contributes(held, k) == {i \in Active(held) : held[i].manifest.key = k}
Winners(held, k) ==
  {i \in Contributes(held, k) :
     held[i].manifest.provides # {}
       /\ \A c \in held[i].manifest.provides : Owners(held, c) = {i}}
Plain(held, k) == {i \in Contributes(held, k) : held[i].manifest.provides = {}}
Chosen(held, k) ==
  IF Winners(held, k) # {} THEN Latest(held, Winners(held, k))
  ELSE First(held, Plain(held, k))
Entries(held) ==
  [k \in Key |-> {[of |-> i, manifest |-> held[i].manifest] : i \in Chosen(held, k)}]

View(held, entries, decl) == [held |-> held, entries |-> entries, decl |-> decl]
Holding(v, held) == View(held, v.entries, v.decl)
Rebuilt(v, held) == View(held, Entries(held), v.decl)
With(v, i, r) == [v.held EXCEPT ![i] = r]

\* install_package: a legacy package takes the place of a legacy one only,
\* and the entries stay as they are
Installed(v, e) ==
  LET old == v.held[e.id]
  IN  IF old = NoRecord \/ (old.manifest.legacy /\ e.manifest.legacy)
      THEN Holding(v, With(v, e.id, Record(e.manifest, e.bound, {}, FALSE, 0)))
      ELSE v
Granted(v, e) ==
  LET old == v.held[e.id]
  IN  IF old = NoRecord THEN v
      ELSE Holding(v, With(v, e.id, Record(old.manifest, old.bound, e.granted, old.active, old.at)))
\* the record of i, switched on or off
Switched(v, i, active, at) ==
  LET old == v.held[i]
  IN  With(v, i, Record(old.manifest, old.bound, old.granted, active, at))
Activated(v, e) ==
  IF ValidActivation(v.held, e.id) THEN Rebuilt(v, Switched(v, e.id, TRUE, e.at)) ELSE v
Deactivated(v, e) ==
  Rebuilt(v, IF v.held[e.id] = NoRecord THEN v.held ELSE Switched(v, e.id, FALSE, 0))
Removed(v, e) == Rebuilt(v, With(v, e.id, NoRecord))

Project(v, e) ==
  CASE e.type = "installed"   -> Installed(v, e)
    [] e.type = "granted"     -> Granted(v, e)
    [] e.type = "activated"   -> Activated(v, e)
    [] e.type = "deactivated" -> Deactivated(v, e)
    [] e.type = "removed"     -> Removed(v, e)
    [] e.type = "declared"    -> View(v.held, v.entries, [v.decl EXCEPT ![e.of] = e.is])
    [] OTHER -> v
ProjectAll(v, es) ==
  IF Len(es) = 0 THEN v
  ELSE IF Len(es) = 1 THEN Project(v, es[1])
  ELSE Project(Project(v, es[1]), es[2])

-----------------------------------------------------------------------------
(***************************************************************************)
(* Handlers that keep the lock: append, and project if the append has      *)
(* succeeded.  One whose append fails answers with the error and changes   *)
(* nothing.                                                                *)
(***************************************************************************)
Overlaps == \E p \in Putter : putting[p] # NoRecord

Commit(e) ==
  /\ stored' = Project(stored, e)
  /\ shown' = Project(shown, e)
  /\ UNCHANGED putting

\* POST /api/packages
Install(i, m, bound) ==
  /\ ~m.legacy
  /\ shown.held[i] = NoRecord
  /\ ValidInstall(shown.held, i, m, bound)
  /\ Commit([type |-> "installed", id |-> i, manifest |-> m, bound |-> bound])

\* POST /api/packages/{id}/grant
Grant(i, caps) ==
  /\ shown.held[i] # NoRecord
  /\ caps \subseteq shown.held[i].manifest.needs
  /\ Commit([type |-> "granted", id |-> i, granted |-> caps])

\* POST /api/packages/{id}/activate
Activates(i) ==
  /\ shown.held[i] # NoRecord
  /\ shown.held[i].manifest.supported
  /\ shown.held[i].manifest.needs \subseteq shown.held[i].granted
  /\ ValidActivation(shown.held, i)
Activate(i, t) ==
  /\ Activates(i)
  /\ Commit([type |-> "activated", id |-> i, at |-> t])

\* POST /api/packages/{id}/deactivate and DELETE /api/packages/{id} check nothing
Deactivate(i) == Commit([type |-> "deactivated", id |-> i])
RemovePackage(i)     == Commit([type |-> "removed", id |-> i])

-----------------------------------------------------------------------------
(***************************************************************************)
(* Handlers that append and then wait for the lock.                        *)
(***************************************************************************)
AppendFirst(p, es) ==
  /\ putting[p] = NoRecord
  /\ stored' = ProjectAll(stored, es)
  /\ putting' = [putting EXCEPT ![p] = es]
  /\ UNCHANGED shown

\* PUT /api/registry installs and activates
PutEntry(p, i, m, t) ==
  /\ i \in Legacy /\ m.legacy
  /\ AppendFirst(p, << [type |-> "installed", id |-> i, manifest |-> m, bound |-> Unbound],
                  [type |-> "activated", id |-> i, at |-> t] >>)
\* PUT /api/setup, and POST /api/repos
DeclareEntry(p, d, is) == AppendFirst(p, << [type |-> "declared", of |-> d, is |-> is] >>)
\* DELETE /api/repos/{slug}
WithdrawEntry(p, d) == shown.decl[d] # NoRecord /\ DeclareEntry(p, d, NoRecord)

Apply(p) ==
  /\ putting[p] # NoRecord
  /\ shown' = ProjectAll(shown, putting[p])
  /\ putting' = [putting EXCEPT ![p] = NoRecord]
  /\ UNCHANGED stored

\* Axis starts again: the views are replayed from the log.
Restart ==
  /\ shown # stored \/ Overlaps
  /\ shown' = stored
  /\ putting' = [p \in Putter |-> NoRecord]
  /\ UNCHANGED stored

-----------------------------------------------------------------------------
Nothing ==
  View([i \in Package |-> NoRecord], [k \in Key |-> {}], [d \in Declared |-> NoRecord])

PackagesInit ==
  /\ stored = Nothing /\ shown = Nothing
  /\ putting = [p \in Putter |-> NoRecord]

PackagesNext ==
  \/ \E i \in Package :
       \/ \E m \in Manifest, bound \in [Capability -> Package \cup {Core, NoRecord}] :
            Install(i, m, bound)
       \/ \E caps \in SUBSET Needs : Grant(i, caps)
       \/ \E t \in 1..MaxTime : Activate(i, t)
       \/ Deactivate(i) \/ RemovePackage(i)
       \/ \E p \in Putter, m \in Manifest, t \in 1..MaxTime : PutEntry(p, i, m, t)
  \/ \E p \in Putter :
       \/ \E d \in Declared : WithdrawEntry(p, d) \/ \E is \in Declaration : DeclareEntry(p, d, is)
       \/ Apply(p)
  \/ Restart

PackagesSpec == PackagesInit /\ [][PackagesNext]_packageVars

-----------------------------------------------------------------------------
(***************************************************************************)
(* Properties.                                                             *)
(***************************************************************************)
Records ==
  [manifest : Manifest, bound : [Capability -> Package \cup {Core, NoRecord}],
   granted : SUBSET Needs, active : BOOLEAN, at : 0..MaxTime]
Registry ==
  [held    : [Package -> Records \cup {NoRecord}],
   entries : [Key -> SUBSET [of : Package, manifest : Manifest]],
   decl    : [Declared -> Declaration \cup {NoRecord}]]

(* Both copies are registries, and an adapter entry is defined once. *)
PackagesTypeOK ==
  /\ {stored, shown} \subseteq Registry
  /\ \A k \in Key : Cardinality(shown.entries[k]) <= 1

(* Of the active packages that provide a capability at most one has no     *)
(* binding for it: "two colliding activations cannot both report success", *)
(* whatever was installed, bound, taken over, replaced and removed         *)
(* before, in the views and after every replay.                            *)
NoRivals ==
  \A v \in {shown, stored}, c \in Capability :
    Cardinality(Offers(v.held, c)) <= (IF c = BuiltIn THEN 0 ELSE 1)
=============================================================================
