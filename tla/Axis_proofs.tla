----------------------------- MODULE Axis_proofs -----------------------------
(***************************************************************************)
(* Theorems about the services of Axis that MCAxis checks side by side,    *)
(* for every value of their constants.                                     *)
(***************************************************************************)
EXTENDS SignIn, Enrollment, EdgeRoutes, Packages, Vaults, SetupAdapters, FiniteSetTheorems,
        SequenceTheorems, WellFoundedInduction, TLAPS

USE SignInAssumption, EnrollmentAssumption, EdgeAssumption

-----------------------------------------------------------------------------
(***************************************************************************)
(* Enrollment.                                                             *)
(***************************************************************************)
Works == [at : {"done", "read", "write", "rename", "rows"}, kind : {"-", "enroll", "remove"},
         key : PeerKey \cup {NoKey}, name : Id \cup {NoKey}, token : Token \cup {NoKey},
         read : SUBSET PeerKey]

(* A token belongs to the key that has used it. *)
Bearer(q) ==
  q.kind = "enroll" => q.token \in Token /\ q.key \in PeerKey /\ tokens[q.token].by = q.key
Bearers ==
  /\ \A r \in Request : Bearer(requests[r])
  /\ \A g \in letIn : tokens[g[1]].by = g[2]
  /\ \A t \in Token : tokens[t].state = "none" => tokens[t].by = NoKey

(* One request changes the file at a time, and what it has read and written
   is of now. *)
Exclusive(r) ==
  /\ \A s \in Changing : s = r
  /\ requests[r].at \in {"write", "rename"} => requests[r].read = allowed
  /\ requests[r].at = "rename" => scratch = {Wanted(requests[r], requests[r].read)}
Undisturbed == ~overlapped => allowed = expected /\ \A r \in Changing : Exclusive(r)

EnrollmentInv == EnrollmentTypeOK /\ Bearers /\ Undisturbed /\ OneRowPerKey

\* The step that a request takes leaves the others where they are.
RequestStep(r) ==
  \/ \E t \in Token, k \in PeerKey, n \in Name : Consume(r, t, k, n)
  \/ \E i \in Id : BeginRemoval(r, i)
  \/ ReadConfig(r) \/ WriteConfig(r) \/ RenameConfig(r)
  \/ EnrollRow(r) \/ DeregisterRow(r)

LEMMA RequestMoves ==
  ASSUME EnrollmentTypeOK, NEW r \in Request, RequestStep(r)
  PROVE  /\ requests' \in [Request -> Works]
         /\ \A s \in Request \ {r} : requests'[s] = requests[s]
<1>1. Done \in Works
  BY DEF Done, Work, Works
<1>2. requests \in [Request -> Works]
  BY DEF EnrollmentTypeOK, Works
<1>3. \A q \in Works : Become(r, q) =>
         /\ requests' \in [Request -> Works]
         /\ \A s \in Request \ {r} : requests'[s] = requests[s]
  BY <1>2 DEF Become
<1>4. ASSUME NEW at \in {"read", "write", "rename", "rows"}, NEW read \in SUBSET PeerKey
      PROVE  Onward(requests[r], at, read) \in Works
  BY <1>2 DEF Onward, Work, Works
<1>5. ASSUME NEW t \in Token, NEW k \in PeerKey, NEW n \in Name, Consume(r, t, k, n)
      PROVE  \E q \in Works : Become(r, q)
  BY <1>5 DEF Consume, Work, Works, Id
<1>6. ASSUME NEW i \in Id, BeginRemoval(r, i)
      PROVE  \E q \in Works : Become(r, q)
  BY <1>6 DEF BeginRemoval, Work, Works, EnrollmentTypeOK
<1>7. CASE ReadConfig(r)
  BY <1>3, <1>4, <1>7 DEF ReadConfig, EnrollmentTypeOK
<1>8. requests[r].read \in SUBSET PeerKey
  BY <1>2 DEF Works
<1>9. CASE WriteConfig(r) \/ RenameConfig(r)
  BY <1>1, <1>3, <1>4, <1>8, <1>9 DEF WriteConfig, RenameConfig, Advance
<1>10. CASE EnrollRow(r) \/ DeregisterRow(r)
  BY <1>1, <1>3, <1>10 DEF EnrollRow, DeregisterRow
<1> QED
  BY <1>3, <1>5, <1>6, <1>7, <1>9, <1>10 DEF RequestStep

\* Only the file's owner and the requests change what they have; a restart
\* is the boot's.
LEMMA EnrollmentSteps ==
  ASSUME [EnrollmentNext]_enrollmentVars
  PROVE  \/ \E r \in Request : RequestStep(r)
         \/ \E t \in Token : Mint(t) \/ Expire(t)
         \/ \E k \in PeerKey : AcceptKey(k) \/ \E n \in Name : SayHello(k, n)
         \/ \E kept \in SUBSET Id : RestartAxis(kept)
         \/ UNCHANGED enrollmentVars
BY DEF EnrollmentNext, RequestStep

LEMMA EnrollmentTyped ==
  ASSUME EnrollmentTypeOK, Bearers, [EnrollmentNext]_enrollmentVars
  PROVE  EnrollmentTypeOK'
<1>1. ASSUME NEW r \in Request, RequestStep(r)
      PROVE  EnrollmentTypeOK'
  <2>1. requests' \in [Request -> Works] /\ requests[r] \in Works
    BY <1>1, RequestMoves DEF EnrollmentTypeOK, Works
  <2>2. ASSUME NEW t \in Token, NEW k \in PeerKey, NEW n \in Name, Consume(r, t, k, n)
        PROVE  EnrollmentTypeOK'
    BY <2>1, <2>2 DEF Consume, EnrollmentTypeOK, Works, fileVars, rowVars
  <2>3. ASSUME NEW i \in Id, BeginRemoval(r, i)
        PROVE  EnrollmentTypeOK'
    BY <2>1, <2>3 DEF BeginRemoval, EnrollmentTypeOK, Works, fileVars, rowVars
  <2>4. CASE ReadConfig(r)
    BY <2>1, <2>4 DEF ReadConfig, EnrollmentTypeOK, Works, fileVars, rowVars
  <2>5. Wanted(requests[r], requests[r].read) \subseteq PeerKey
    <3>1. requests[r].kind = "enroll" => requests[r].key \in PeerKey
      BY DEF Bearers, Bearer
    <3> QED
      BY <2>1, <3>1 DEF Wanted, Works
  <2>6. CASE WriteConfig(r)
    BY <2>1, <2>5, <2>6 DEF WriteConfig, EnrollmentTypeOK, Works, rowVars
  <2>7. CASE RenameConfig(r)
    <3>1. allowed' \subseteq PeerKey /\ scratch' \subseteq SUBSET PeerKey
      BY <2>7 DEF RenameConfig, EnrollmentTypeOK, fileVars
    <3>2. expected' \subseteq PeerKey /\ letIn' \subseteq Token \X PeerKey
      BY <2>7 DEF RenameConfig, EnrollmentTypeOK, Bearers, Bearer
    <3> QED
      BY <2>1, <2>7, <3>1, <3>2 DEF RenameConfig, EnrollmentTypeOK, Works, rowVars
  <2>8. CASE EnrollRow(r)
    <3>1. rows' \in [Id -> PeerKey \cup {NoKey}] /\ rostered' \subseteq Id
      BY <2>1, <2>8 DEF EnrollRow, Enrolled, EnrollmentTypeOK, Works
    <3> QED
      BY <2>1, <2>8, <3>1 DEF EnrollRow, EnrollmentTypeOK, Works, fileVars
  <2>9. CASE DeregisterRow(r)
    BY <2>1, <2>9 DEF DeregisterRow, EnrollmentTypeOK, Works, fileVars
  <2> QED
    BY <1>1, <2>2, <2>3, <2>4, <2>6, <2>7, <2>8, <2>9 DEF RequestStep
<1>2. ASSUME NEW t \in Token, Mint(t) \/ Expire(t)
      PROVE  EnrollmentTypeOK'
  BY <1>2 DEF Mint, Expire, EnrollmentTypeOK, fileVars, rowVars
<1>3. ASSUME NEW k \in PeerKey, AcceptKey(k) \/ \E n \in Name : SayHello(k, n)
      PROVE  EnrollmentTypeOK'
  <2>1. CASE AcceptKey(k)
    BY <2>1 DEF AcceptKey, EnrollmentTypeOK, fileVars, rowVars
  <2>2. ASSUME NEW n \in Name, SayHello(k, n)
        PROVE  EnrollmentTypeOK'
    <3>1. PICK old \in IF RowsOf(k) = {} THEN {n} ELSE RowsOf(k) :
            /\ rows' = [rows EXCEPT ![old] = NoKey, ![n] = k]
            /\ rostered' = (rostered \ {old, n}) \cup
                             (IF rows[old] = k /\ old \in rostered THEN {n} ELSE {})
      BY <2>2 DEF SayHello
    <3>2. rows' \in [Id -> PeerKey \cup {NoKey}]
      BY <3>1 DEF EnrollmentTypeOK
    <3>3. rostered' \subseteq Id
      BY <3>1 DEF EnrollmentTypeOK, Id
    <3> QED
      BY <2>2, <3>2, <3>3 DEF SayHello, EnrollmentTypeOK, fileVars
  <2> QED
    BY <1>3, <2>1, <2>2
<1>4. ASSUME NEW kept \in SUBSET Id, RestartAxis(kept)
      PROVE  EnrollmentTypeOK'
  <2>1. rows' \in [Id -> PeerKey \cup {NoKey}] /\ rostered' \subseteq Id
    BY <1>4 DEF RestartAxis, Reseeded, EnrollmentTypeOK
  <2>2. requests' \in [Request -> Works]
    BY <1>4 DEF RestartAxis, Done, Work, Works
  <2>3. tokens' \in [Token -> [state : {"none", "live", "gone"}, by : PeerKey \cup {NoKey}]]
    BY <1>4 DEF RestartAxis, Unminted, EnrollmentTypeOK
  <2> QED
    BY <1>4, <2>1, <2>2, <2>3 DEF RestartAxis, EnrollmentTypeOK, Works, fileVars
<1>5. CASE UNCHANGED enrollmentVars
  BY <1>5 DEF enrollmentVars, EnrollmentTypeOK, fileVars, rowVars
<1> QED
  BY <1>1, <1>2, <1>3, <1>4, <1>5, EnrollmentSteps

(* The tokens. *)
SameRequest(p, q) == p.kind = q.kind /\ p.key = q.key /\ p.token = q.token

LEMMA BearersStep ==
  ASSUME EnrollmentTypeOK, Bearers, [EnrollmentNext]_enrollmentVars
  PROVE  Bearers'
<1>1. ASSUME NEW r \in Request, NEW t \in Token, NEW k \in PeerKey, NEW n \in Name,
             Consume(r, t, k, n)
      PROVE  Bearers'
  <2>1. \A u \in Token : /\ tokens'[u].by = IF u = t THEN k ELSE tokens[u].by
                         /\ tokens'[u].state = tokens[u].state
    BY <1>1 DEF Consume, EnrollmentTypeOK
  <2>2. tokens[t].state = "live" /\ tokens[t].by \in {NoKey, k}
    BY <1>1 DEF Consume, Consumable
  <2>3. \A s \in Request :
          requests'[s] = IF s = r THEN Work("read", "enroll", k, n, t, {}) ELSE requests[s]
    BY <1>1 DEF Consume, Become, EnrollmentTypeOK
  <2>4. letIn' = letIn /\ letIn \subseteq Token \X PeerKey
    BY <1>1 DEF Consume, EnrollmentTypeOK
  <2>5. \A s \in Request : Bearer(requests[s])'
    BY <2>1, <2>2, <2>3 DEF Bearers, Bearer, Work
  <2>6. \A g \in letIn' : tokens'[g[1]].by = g[2]
    BY <2>1, <2>2, <2>4 DEF Bearers
  <2> QED
    BY <2>1, <2>2, <2>5, <2>6 DEF Bearers
<1>2. ASSUME NEW r \in Request, RequestStep(r), UNCHANGED tokens,
             requests'[r].kind # "enroll" \/ SameRequest(requests'[r], requests[r]),
             \A g \in letIn' : g \in letIn \/ tokens[g[1]].by = g[2]
      PROVE  Bearers'
  <2>1. Bearer(requests[r])'
    BY <1>2 DEF Bearers, Bearer, SameRequest
  <2>2. \A s \in Request \ {r} : Bearer(requests[s])'
    BY <1>2, RequestMoves DEF Bearers, Bearer
  <2> QED
    BY <1>2, <2>1, <2>2 DEF Bearers
<1>3. ASSUME NEW r \in Request, NEW i \in Id, BeginRemoval(r, i)
      PROVE  Bearers'
  <2>1. requests'[r] = Work("read", "remove", rows[i], i, NoKey, {})
    BY <1>3 DEF BeginRemoval, Become, EnrollmentTypeOK
  <2>2. requests'[r].kind # "enroll"
    BY <2>1 DEF Work
  <2> QED
    BY <1>2, <1>3, <2>2 DEF BeginRemoval, RequestStep
<1>4. ASSUME NEW r \in Request, ReadConfig(r) \/ WriteConfig(r)
      PROVE  Bearers'
  <2>1. SameRequest(requests'[r], requests[r])
    BY <1>4 DEF ReadConfig, WriteConfig, Advance, Become, EnrollmentTypeOK, Onward, Work,
                SameRequest
  <2> QED
    BY <1>2, <1>4, <2>1 DEF ReadConfig, WriteConfig, RequestStep
<1>5. ASSUME NEW r \in Request, RenameConfig(r)
      PROVE  Bearers'
  <2>1. requests'[r].kind # "enroll" \/ SameRequest(requests'[r], requests[r])
    BY <1>5 DEF RenameConfig, Advance, Become, EnrollmentTypeOK, Onward, Done, Work,
                SameRequest
  <2>2. \A g \in letIn' : g \in letIn \/ tokens[g[1]].by = g[2]
    BY <1>5 DEF RenameConfig, Bearers, Bearer
  <2> QED
    BY <1>2, <1>5, <2>1, <2>2 DEF RenameConfig, RequestStep
<1>6. ASSUME NEW r \in Request, EnrollRow(r) \/ DeregisterRow(r)
      PROVE  Bearers'
  <2>1. requests'[r].kind # "enroll"
    BY <1>6 DEF EnrollRow, DeregisterRow, Become, EnrollmentTypeOK, Done, Work
  <2> QED
    BY <1>2, <1>6, <2>1 DEF EnrollRow, DeregisterRow, RequestStep
<1>7. ASSUME UNCHANGED letIn,
             \A t \in Token : /\ tokens'[t].by = tokens[t].by
                              /\ tokens'[t].state = "none" => tokens[t].state = "none",
             UNCHANGED requests \/ \A r \in Request : requests'[r] = Done
      PROVE  Bearers'
  <2>1. \A r \in Request : Bearer(requests[r])'
    BY <1>7 DEF Bearers, Bearer, Done, Work
  <2> QED
    BY <1>7, <2>1 DEF Bearers, EnrollmentTypeOK
<1>8. ASSUME NEW t \in Token, Mint(t) \/ Expire(t)
      PROVE  Bearers'
  <2>1. \A u \in Token : /\ tokens'[u].by = tokens[u].by
                         /\ tokens'[u].state = "none" => tokens[u].state = "none"
    BY <1>8 DEF Mint, Expire, EnrollmentTypeOK
  <2> QED
    BY <1>7, <1>8, <2>1 DEF Mint, Expire
<1>9. CASE \E k \in PeerKey : AcceptKey(k) \/ \E n \in Name : SayHello(k, n)
  BY <1>7, <1>9 DEF AcceptKey, SayHello
<1>10. ASSUME NEW kept \in SUBSET Id, RestartAxis(kept)
       PROVE  Bearers'
  <2>1. \A u \in Token : /\ tokens'[u].by = tokens[u].by
                         /\ tokens'[u].state = "none" => tokens[u].state = "none"
    BY <1>10 DEF RestartAxis, Unminted, Bearers
  <2> QED
    BY <1>7, <1>10, <2>1 DEF RestartAxis
<1>11. CASE UNCHANGED enrollmentVars
  BY <1>7, <1>11 DEF enrollmentVars
<1> QED
  BY <1>1, <1>3, <1>4, <1>5, <1>6, <1>8, <1>9, <1>10, <1>11, EnrollmentSteps DEF RequestStep

(* The rows. *)
LEMMA OneRowStep ==
  ASSUME EnrollmentTypeOK, OneRowPerKey, [EnrollmentNext]_enrollmentVars
  PROVE  OneRowPerKey'
<1>1. ASSUME NEW r \in Request, RequestStep(r)
      PROVE  OneRowPerKey'
  <2>1. CASE UNCHANGED rows
    BY <2>1 DEF OneRowPerKey
  <2>2. CASE EnrollRow(r)
    BY <2>2 DEF EnrollRow, Enrolled, OneRowPerKey
  <2>3. CASE DeregisterRow(r)
    BY <2>3 DEF DeregisterRow, EnrollmentTypeOK, OneRowPerKey
  <2> QED
    BY <1>1, <2>1, <2>2, <2>3 DEF RequestStep, Consume, BeginRemoval, ReadConfig, WriteConfig,
                                  RenameConfig, rowVars
<1>2. ASSUME NEW k \in PeerKey, NEW n \in Name, SayHello(k, n)
      PROVE  OneRowPerKey'
  <2>1. PICK old \in IF RowsOf(k) = {} THEN {n} ELSE RowsOf(k) :
          rows' = [rows EXCEPT ![old] = NoKey, ![n] = k]
    BY <1>2 DEF SayHello
  <2>2. old \in Id /\ \A i \in Id : rows[i] = k => i = old
    BY <2>1 DEF RowsOf, Id, OneRowPerKey
  <2> QED
    BY <2>1, <2>2 DEF EnrollmentTypeOK, OneRowPerKey, Id
<1>3. ASSUME NEW kept \in SUBSET Id, RestartAxis(kept)
      PROVE  OneRowPerKey'
  BY <1>3 DEF RestartAxis, Reseeded, OneRowPerKey
<1>4. CASE UNCHANGED rows
  BY <1>4 DEF OneRowPerKey
<1> QED
  BY <1>1, <1>2, <1>3, <1>4, EnrollmentSteps DEF Mint, Expire, AcceptKey, enrollmentVars, rowVars

(* The allowlist. *)
LEMMA UndisturbedStep ==
  ASSUME EnrollmentTypeOK, Bearers, Undisturbed, [EnrollmentNext]_enrollmentVars
  PROVE  Undisturbed'
<1> DEFINE Sound == allowed = expected /\ \A q \in Changing : Exclusive(q)
<1> SUFFICES ASSUME ~overlapped' PROVE Sound'
  BY DEF Undisturbed
<1>1. ASSUME UNCHANGED <<allowed, expected, scratch, overlapped>>,
             \A s \in Request : s \in Changing' => requests'[s] = requests[s]
      PROVE  Sound'
  <2>1. Sound
    BY <1>1 DEF Undisturbed
  <2>2. \A s \in Changing' : s \in Changing
    BY <1>1 DEF Changing
  <2>3. ASSUME NEW s \in Changing' PROVE Exclusive(s)'
    <3>1. requests'[s] = requests[s] /\ Exclusive(s)
      BY <1>1, <2>1, <2>2, <2>3 DEF Changing
    <3>2. \A q \in Changing' : q = s
      BY <2>2, <3>1 DEF Exclusive
    <3> QED
      BY <1>1, <3>1, <3>2 DEF Exclusive
  <2> QED
    BY <1>1, <2>1, <2>3
<1>2. ASSUME NEW r \in Request, NEW q, q.at = "read", Become(r, q),
             UNCHANGED <<allowed, expected>>, overlapped' = (overlapped \/ Changing # {})
      PROVE  Sound'
  <2>1. Sound /\ Changing = {}
    BY <1>2 DEF Undisturbed
  <2>2. \A s \in Request : requests'[s] = IF s = r THEN q ELSE requests[s]
    BY <1>2 DEF Become, EnrollmentTypeOK
  <2>3. \A s \in Changing' : s = r
    BY <2>1, <2>2 DEF Changing
  <2> QED
    BY <1>2, <2>1, <2>2, <2>3 DEF Exclusive
<1>3. ASSUME NEW r \in Request, NEW q \in Works, r \in Changing, Become(r, q), UNCHANGED overlapped
      PROVE  /\ allowed = expected /\ Exclusive(r)
             /\ \A s \in Changing' : s = r
             /\ requests'[r] = q
  <2>1. Sound
    BY <1>3 DEF Undisturbed
  <2>2. \A s \in Request : requests'[s] = IF s = r THEN q ELSE requests[s]
    BY <1>3 DEF Become, EnrollmentTypeOK
  <2> QED
    BY <1>3, <2>1, <2>2 DEF Changing, Exclusive
<1>4. ASSUME NEW r \in Request
      PROVE  /\ requests[r].read \subseteq PeerKey
             /\ \A at \in {"read", "write", "rename", "rows"}, read \in SUBSET PeerKey :
                  /\ Onward(requests[r], at, read) \in Works
                  /\ Onward(requests[r], at, read).at = at
                  /\ Onward(requests[r], at, read).read = read
                  /\ \A keys : Wanted(Onward(requests[r], at, read), keys)
                                = Wanted(requests[r], keys)
  BY DEF EnrollmentTypeOK, Onward, Work, Works, Wanted
<1>5. ASSUME NEW r \in Request, ReadConfig(r)
      PROVE  Sound'
  <2>1. PICK a \in {"rows", "write"} : Become(r, Onward(requests[r], a, allowed))
    BY <1>5 DEF ReadConfig
  <2> DEFINE q == Onward(requests[r], a, allowed)
  <2>2. q \in Works /\ q.at = a /\ q.read = allowed
    BY <1>4 DEF EnrollmentTypeOK
  <2>3. r \in Changing /\ UNCHANGED <<overlapped, allowed, expected>>
    BY <1>5 DEF ReadConfig, Changing, fileVars
  <2> HIDE DEF q
  <2>4. /\ allowed = expected /\ \A s \in Changing' : s = r
        /\ requests'[r] = q
    BY <1>3, <2>1, <2>2, <2>3 DEF q
  <2> QED
    BY <2>2, <2>3, <2>4 DEF Exclusive
<1>6. ASSUME NEW r \in Request, WriteConfig(r)
      PROVE  Sound'
  <2> DEFINE q == Onward(requests[r], "rename", requests[r].read)
  <2>1. Become(r, q) /\ r \in Changing /\ UNCHANGED <<overlapped, allowed, expected>>
    BY <1>6 DEF WriteConfig, Advance, Changing
  <2>2. /\ q \in Works /\ q.at = "rename" /\ q.read = requests[r].read
        /\ scratch' = {Wanted(q, q.read)}
    <3>1. requests[r].read \in SUBSET PeerKey
      BY <1>4
    <3>2. /\ q \in Works /\ q.at = "rename" /\ q.read = requests[r].read
          /\ Wanted(q, q.read) = Wanted(requests[r], requests[r].read)
      BY <3>1 DEF EnrollmentTypeOK, Onward, Work, Works, Wanted
    <3> QED
      BY <1>6, <3>2 DEF WriteConfig
  <2> HIDE DEF q
  <2>3. /\ allowed = expected /\ Exclusive(r) /\ \A s \in Changing' : s = r
        /\ requests'[r] = q
    BY <1>3, <2>1, <2>2
  <2>4. q.read = allowed
    BY <1>6, <2>2, <2>3 DEF WriteConfig, Exclusive
  <2> QED
    BY <2>1, <2>2, <2>3, <2>4 DEF Exclusive
<1>7. ASSUME NEW r \in Request, RenameConfig(r)
      PROVE  Sound'
  <2>1. r \in Changing /\ UNCHANGED overlapped
    BY <1>7 DEF RenameConfig, Changing
  <2>2. /\ allowed = expected /\ requests[r].read = allowed
        /\ scratch = {Wanted(requests[r], allowed)}
    BY <1>7, <2>1 DEF RenameConfig, Undisturbed, Exclusive
  <2> DEFINE q == Onward(requests[r], "rows", requests[r].read)
  <2>3. /\ Become(r, q) /\ allowed' = UNION scratch
        /\ expected' = IF requests[r].kind = "enroll" THEN expected \cup {requests[r].key}
                                                      ELSE expected \ {requests[r].key}
    BY <1>7, <2>2 DEF RenameConfig, Advance
  <2>4. q \in Works /\ q.at = "rows"
    <3>1. requests[r].read \in SUBSET PeerKey
      BY <1>4
    <3> QED
      BY <3>1 DEF EnrollmentTypeOK, Onward, Work, Works
  <2> HIDE DEF q
  <2>5. (\A s \in Changing' : s = r) /\ requests'[r] = q
    BY <1>3, <2>1, <2>3, <2>4
  <2>6. Changing' = {}
    BY <2>4, <2>5 DEF Changing
  <2>7. UNION {Wanted(requests[r], allowed)} = Wanted(requests[r], allowed)
    OBVIOUS
  <2>8. allowed' = expected'
    BY <2>2, <2>3, <2>7 DEF Wanted
  <2> QED
    BY <2>6, <2>8
<1>8. ASSUME NEW r \in Request, EnrollRow(r) \/ DeregisterRow(r)
      PROVE  Sound'
  <2>1. requests'[r].at = "done"
    BY <1>8 DEF EnrollRow, DeregisterRow, Become, Done, Work, EnrollmentTypeOK
  <2>2. \A s \in Request : s \in Changing' => requests'[s] = requests[s]
    BY <1>8, <2>1, RequestMoves DEF Changing, RequestStep
  <2> QED
    BY <1>1, <1>8, <2>2 DEF EnrollRow, DeregisterRow, fileVars
<1>9. ASSUME NEW r \in Request, NEW t \in Token, NEW k \in PeerKey, NEW n \in Name,
             Consume(r, t, k, n)
      PROVE  Sound'
  <2>1. Work("read", "enroll", k, n, t, {}).at = "read"
    BY DEF Work
  <2> QED
    BY <1>2, <1>9, <2>1 DEF Consume, fileVars
<1>10. ASSUME NEW r \in Request, NEW i \in Id, BeginRemoval(r, i)
       PROVE  Sound'
  <2>1. Work("read", "remove", rows[i], i, NoKey, {}).at = "read"
    BY DEF Work
  <2> QED
    BY <1>2, <1>10, <2>1 DEF BeginRemoval, fileVars
<1>11. ASSUME NEW kept \in SUBSET Id, RestartAxis(kept)
       PROVE  Sound'
  <2>1. Changing' = {}
    BY <1>11 DEF RestartAxis, Changing, Done, Work
  <2> QED
    BY <1>1, <1>11, <2>1 DEF RestartAxis, fileVars
<1>12. ASSUME UNCHANGED <<allowed, scratch, requests, expected, overlapped>>
       PROVE  Sound'
  BY <1>1, <1>12
<1>13. (\E t \in Token : Mint(t) \/ Expire(t)) => Sound'
  BY <1>12 DEF Mint, Expire, fileVars
<1>14. (\E k \in PeerKey : AcceptKey(k) \/ \E n \in Name : SayHello(k, n)) => Sound'
  BY <1>12 DEF AcceptKey, SayHello, fileVars
<1>15. UNCHANGED enrollmentVars => Sound'
  BY <1>12 DEF enrollmentVars
<1> QED
  BY <1>5, <1>6, <1>7, <1>8, <1>9, <1>10, <1>11, <1>13, <1>14, <1>15, EnrollmentSteps
     DEF RequestStep

LEMMA EnrollmentStarts == EnrollmentInit => EnrollmentInv
<1> SUFFICES ASSUME EnrollmentInit PROVE EnrollmentInv
  OBVIOUS
<1>1. EnrollmentTypeOK
  BY DEF EnrollmentInit, EnrollmentTypeOK, Unminted, Done, Work
<1>2. \A r \in Request : requests[r].kind = "-" /\ requests[r].at = "done"
  BY DEF EnrollmentInit, Done, Work
<1>3. Bearers /\ Undisturbed
  BY <1>2 DEF EnrollmentInit, Bearers, Bearer, Unminted, Undisturbed, Changing
<1>4. OneRowPerKey
  BY DEF EnrollmentInit, OneRowPerKey
<1> QED
  BY <1>1, <1>3, <1>4 DEF EnrollmentInv

(* Every variable keeps its type, a token belongs to one key, an undisturbed
   request works on the file as it is, and a key has one row. *)
THEOREM EnrollmentCorrect == EnrollmentSpec => []EnrollmentInv
<1>1. EnrollmentInv /\ [EnrollmentNext]_enrollmentVars => EnrollmentInv'
  BY EnrollmentTyped, BearersStep, UndisturbedStep, OneRowStep DEF EnrollmentInv
<1> QED
  BY <1>1, EnrollmentStarts, PTL DEF EnrollmentSpec

(* The registry never holds two rows of one key. *)
THEOREM KeysHaveOneRow == EnrollmentSpec => []OneRowPerKey
<1>1. EnrollmentInv => OneRowPerKey
  BY DEF EnrollmentInv
<1> QED
  BY <1>1, EnrollmentCorrect, PTL

(* The allowlist is what was enrolled and not removed since, unless requests
   overlapped, and a token lets one key in. *)
THEOREM AllowlistExact == EnrollmentSpec => []AllowlistIsExact
<1>1. EnrollmentInv => AllowlistIsExact
  BY DEF EnrollmentInv, Bearers, Undisturbed, AllowlistIsExact
<1> QED
  BY <1>1, EnrollmentCorrect, PTL

-----------------------------------------------------------------------------
(***************************************************************************)
(* Edge routes.                                                            *)
(***************************************************************************)
Routes(ids) == [ids -> Route \cup {NoRoute}]
Asking(c, s) == request[c] # Free /\ request[c].id = s

(* A request has changed what its place says. *)
Steady(c, s) ==
  /\ request[c].at \in {"upsert", "remove"} => table[s] = desired[s]
  /\ request[c].at = "insert" => desired[s] = request[c].route
  /\ request[c].at = "drop" => desired[s] = NoRoute
Followed(s) ==
  /\ \A c, d \in Caller : Asking(c, s) /\ Asking(d, s) => c = d
  /\ \A c \in Caller : Asking(c, s) => Steady(c, s)
  /\ (\A c \in Caller : ~Asking(c, s)) => table[s] = desired[s]

EdgeInv == EdgeTypeOK /\ \A s \in ProxySlug \ contested : Followed(s)

EndpointAsks == [at : {"upsert", "insert", "remove", "drop"}, id : ProxySlug,
                 route : Route \cup {NoRoute}]
ArtifactAsks == [at : {"write", "publish", "withdraw"}, id : Artifact, route : Route]

LEMMA RequestsTyped ==
  EdgeTypeOK => request \in [Caller -> {Free} \cup EndpointAsks \cup ArtifactAsks]
BY DEF EdgeTypeOK, EndpointAsks, ArtifactAsks

LEMMA ExchangeTyped ==
  ASSUME EdgeTypeOK, NEW routes \in Routes(EdgeId), NEW ok \in BOOLEAN, Exchange(routes, ok)
  PROVE  caddy' \in Routes(EdgeId) /\ faults' \in Nat
BY DEF Exchange, EdgeTypeOK, Routes

LEMMA ChangeTyped ==
  ASSUME EdgeTypeOK, NEW id \in EdgeId, NEW route \in Route \cup {NoRoute}, NEW ok \in BOOLEAN,
         Change(id, route, ok)
  PROVE  /\ desired' \in Routes(EdgeId) /\ caddy' \in Routes(EdgeId) /\ faults' \in Nat
         /\ up' = up
         /\ \A s \in EdgeId \ {id} : desired'[s] = desired[s]
         /\ desired'[id] = IF ok THEN route ELSE desired[id]
<1>1. [desired EXCEPT ![id] = route] \in Routes(EdgeId) /\ desired \in Routes(EdgeId)
  BY DEF EdgeTypeOK, Routes
<1> QED
  BY <1>1, ExchangeTyped DEF Change, Routes

\* One caller moves.
Turn(c) ==
  \/ \E s \in ProxySlug : DeleteEndpoint(c, s) \/ \E r \in Route : CreateEndpoint(c, s, r)
  \/ \E a \in Artifact, r \in Route : Publish(c, a, r)
  \/ Handle(c)

LEMMA EdgeSteps ==
  ASSUME [EdgeNext]_edgeVars
  PROVE  \/ \E c \in Caller : Turn(c)
         \/ Converge \/ StopCaddy \/ StartCaddy \/ ForgetRoutes
         \/ UNCHANGED edgeVars
BY DEF EdgeNext, Turn

LEMMA BeginTyped ==
  ASSUME EdgeTypeOK, NEW c \in Caller, NEW id \in EdgeId,
         NEW q \in EndpointAsks \cup ArtifactAsks, Begin(c, id, q)
  PROVE  /\ request' \in [Caller -> {Free} \cup EndpointAsks \cup ArtifactAsks]
         /\ \A d \in Caller \ {c} : request'[d] = request[d]
         /\ request'[c] = q /\ request[c] = Free
         /\ contested' \subseteq EdgeId /\ calls' \in Nat
BY RequestsTyped DEF Begin, EdgeTypeOK

LEMMA StepTyped ==
  ASSUME EdgeTypeOK, NEW c \in Caller, request[c] # Free,
         NEW at \in {"upsert", "insert", "remove", "drop", "write", "publish", "withdraw"},
         Asks(at, request[c].id, request[c].route) \in EndpointAsks \cup ArtifactAsks,
         Proceed(c, at) \/ Answer(c)
  PROVE  /\ request' \in [Caller -> {Free} \cup EndpointAsks \cup ArtifactAsks]
         /\ \A d \in Caller \ {c} : request'[d] = request[d]
         /\ \/ Answer(c) /\ request'[c] = Free
            \/ Proceed(c, at) /\ request'[c] = Asks(at, request[c].id, request[c].route)
BY RequestsTyped DEF Proceed, Answer

LEMMA EdgeTyped ==
  ASSUME EdgeTypeOK, [EdgeNext]_edgeVars
  PROVE  EdgeTypeOK'
<1> DEFINE Requested == [Caller -> {Free} \cup EndpointAsks \cup ArtifactAsks]
<1>1. request \in Requested
  BY RequestsTyped
<1>2. ASSUME NEW c \in Caller, NEW s \in ProxySlug,
             DeleteEndpoint(c, s) \/ \E r \in Route : CreateEndpoint(c, s, r)
      PROVE  EdgeTypeOK'
  <2>1. PICK q \in EndpointAsks : Begin(c, s, q)
    BY <1>2 DEF DeleteEndpoint, CreateEndpoint, Asks, EndpointAsks
  <2>2. request' \in Requested /\ contested' \subseteq EdgeId /\ calls' \in Nat
    BY <2>1, BeginTyped DEF EdgeId
  <2> QED
    BY <1>2, <2>2 DEF DeleteEndpoint, CreateEndpoint, EdgeTypeOK, caddyVars, EndpointAsks,
                      ArtifactAsks
<1>3. ASSUME NEW c \in Caller, NEW a \in Artifact, NEW r \in Route, Publish(c, a, r)
      PROVE  EdgeTypeOK'
  <2>1. Asks("write", a, r) \in ArtifactAsks /\ Begin(c, a, Asks("write", a, r))
    BY <1>3 DEF Publish, Asks, ArtifactAsks
  <2>2. request' \in Requested /\ contested' \subseteq EdgeId /\ calls' \in Nat
    BY <2>1, BeginTyped DEF EdgeId
  <2> QED
    BY <1>3, <2>2 DEF Publish, EdgeTypeOK, caddyVars, EndpointAsks, ArtifactAsks
<1>4. ASSUME NEW c \in Caller, Handle(c)
      PROVE  EdgeTypeOK'
  <2>1. request' \in Requested
    <3>1. request[c] \in EndpointAsks \cup ArtifactAsks
      BY <1>1, <1>4 DEF Handle, Upsert, Insert, RemoveRoute, Drop, WriteFile, PublishRoute, Withdraw,
                        Free
    <3>2. CASE request[c] \in EndpointAsks
      <4>1. Answer(c) \/ Proceed(c, "insert") \/ Proceed(c, "drop")
        BY <1>4, <3>2 DEF Handle, Upsert, Insert, RemoveRoute, Drop, WriteFile, PublishRoute,
                          Withdraw, EndpointAsks
      <4>2. \A at \in {"insert", "drop"} : Asks(at, request[c].id, request[c].route) \in EndpointAsks
        BY <3>2 DEF Asks, EndpointAsks
      <4> QED
        BY <1>1, <4>1, <4>2 DEF Answer, Proceed
    <3>3. CASE request[c] \in ArtifactAsks
      <4>1. Answer(c) \/ Proceed(c, "publish") \/ Proceed(c, "withdraw")
        BY <1>4, <3>3 DEF Handle, Upsert, Insert, RemoveRoute, Drop, WriteFile, PublishRoute,
                          Withdraw, ArtifactAsks
      <4>2. \A at \in {"publish", "withdraw"} :
              Asks(at, request[c].id, request[c].route) \in ArtifactAsks
        BY <3>3 DEF Asks, ArtifactAsks
      <4> QED
        BY <1>1, <4>1, <4>2 DEF Answer, Proceed
    <3> QED
      BY <3>1, <3>2, <3>3
  <2>2. /\ request[c].at \in {"upsert", "insert", "remove", "drop"} =>
             request[c].id \in ProxySlug /\ request[c].route \in Route \cup {NoRoute}
        /\ request[c].at \in {"write", "publish", "withdraw"} =>
             request[c].id \in Artifact /\ request[c].route \in Route
    BY <1>1 DEF EndpointAsks, ArtifactAsks, Free
  <2>3. CASE Upsert(c) \/ RemoveRoute(c) \/ PublishRoute(c)
    <3>1. /\ desired' \in Routes(EdgeId) /\ caddy' \in Routes(EdgeId) /\ faults' \in Nat
          /\ up' = up
      <4>1. CASE UNCHANGED <<desired, caddyVars, faults>>
        BY <4>1 DEF EdgeTypeOK, Routes, caddyVars
      <4>2. ASSUME NEW ok \in BOOLEAN, NEW r \in Route \cup {NoRoute}, request[c].id \in EdgeId,
                   Change(request[c].id, r, ok)
            PROVE  /\ desired' \in Routes(EdgeId) /\ caddy' \in Routes(EdgeId)
                   /\ faults' \in Nat /\ up' = up
        BY <4>2, ChangeTyped
      <4> QED
        BY <2>2, <2>3, <4>1, <4>2 DEF Upsert, RemoveRoute, PublishRoute, EdgeId
    <3> QED
      BY <2>1, <2>3, <3>1 DEF Upsert, RemoveRoute, PublishRoute, EdgeTypeOK, Routes, EndpointAsks,
                              ArtifactAsks
  <2>4. CASE Insert(c) \/ Drop(c) \/ WriteFile(c) \/ Withdraw(c)
    <3>1. table' \in Routes(ProxySlug) /\ published' \in Routes(Artifact)
      BY <2>2, <2>4 DEF Insert, Drop, WriteFile, Withdraw, EdgeTypeOK, Routes
    <3> QED
      BY <2>1, <2>4, <3>1 DEF Insert, Drop, WriteFile, Withdraw, EdgeTypeOK, Routes, EndpointAsks,
                              ArtifactAsks, caddyVars, counts
  <2> QED
    BY <1>4, <2>3, <2>4 DEF Handle
<1>5. CASE Converge
  <2>1. CASE ReadRoutes
    BY <2>1 DEF ReadRoutes, EdgeTypeOK, caddyVars, counts
  <2>2. CASE ApplyRoutes
    <3>1. sweep.routes \in Routes(EdgeId)
      BY <2>2 DEF ApplyRoutes, EdgeTypeOK, Routes
    <3>2. caddy' \in Routes(EdgeId) /\ faults' \in Nat
      BY <2>2, <3>1, ExchangeTyped DEF ApplyRoutes
    <3> QED
      BY <2>2, <3>2 DEF ApplyRoutes, EdgeTypeOK, Routes
  <2> QED
    BY <1>5, <2>1, <2>2 DEF Converge
<1>6. CASE StopCaddy \/ StartCaddy
  <2>1. NoRoutes \in Routes(EdgeId)
    BY DEF Routes, NoRoutes
  <2>2. CASE StopCaddy
    <3>1. up' \in BOOLEAN
      BY <2>2 DEF StopCaddy
    <3>2. faults' \in Nat /\ caddy' \in Routes(EdgeId)
      BY <2>1, <2>2 DEF StopCaddy, EdgeTypeOK
    <3> QED
      BY <2>2, <3>1, <3>2, Zenon DEF StopCaddy, EdgeTypeOK, Routes
  <2>3. CASE StartCaddy
    BY <2>3 DEF StartCaddy, EdgeTypeOK, counts
  <2> QED
    BY <1>6, <2>2, <2>3
<1>7. CASE ForgetRoutes
  BY <1>7 DEF ForgetRoutes, EdgeTypeOK, NoRoutes, caddyVars
<1>8. CASE UNCHANGED edgeVars
  BY <1>8 DEF edgeVars, EdgeTypeOK, caddyVars, counts
<1>9. ASSUME NEW c \in Caller, Turn(c) PROVE EdgeTypeOK'
  BY <1>2, <1>3, <1>4, <1>9 DEF Turn
<1> QED
  BY <1>5, <1>6, <1>7, <1>8, <1>9, EdgeSteps

(* A request that is about another route, or about none, moves. *)
LEMMA FollowedElsewhere ==
  ASSUME NEW s \in ProxySlug, Followed(s), UNCHANGED <<table[s], desired[s]>>,
         \A d \in Caller : Asking(d, s)' <=> Asking(d, s),
         \A d \in Caller : Asking(d, s) => request'[d] = request[d]
  PROVE  Followed(s)'
BY DEF Followed, Steady

(* The only request that is about a route moves. *)
LEMMA FollowedOwn ==
  ASSUME NEW s \in ProxySlug, NEW c \in Caller,
         \A d \in Caller \ {c} : request'[d] = request[d] /\ ~Asking(d, s),
         Asking(c, s)' => Steady(c, s)',
         ~Asking(c, s)' => table'[s] = desired'[s]
  PROVE  Followed(s)'
BY DEF Followed, Asking

LEMMA FollowedHandle ==
  ASSUME EdgeInv, NEW c \in Caller, Handle(c), NEW s \in ProxySlug \ contested
  PROVE  Followed(s)'
<1>1. EdgeTypeOK /\ Followed(s)
  BY DEF EdgeInv
<1>2. \A d \in Caller \ {c} : request'[d] = request[d]
  BY <1>1, RequestsTyped DEF Handle, Upsert, Insert, RemoveRoute, Drop, WriteFile, PublishRoute,
     Withdraw, Answer, Proceed
<1>3. /\ request[c] # Free /\ request[c].id \in EdgeId
      /\ request[c].at \in {"upsert", "insert", "remove", "drop"} =>
           request[c].id \in ProxySlug /\ request[c].route \in Route \cup {NoRoute}
      /\ request[c].at \in {"write", "publish", "withdraw"} =>
           request[c].id \in Artifact /\ request[c].route \in Route
  BY <1>1, RequestsTyped DEF Handle, Upsert, Insert, RemoveRoute, Drop, WriteFile, PublishRoute,
     Withdraw, EndpointAsks, ArtifactAsks, Free, EdgeId
<1>4. request'[c] = Free \/ request'[c].id = request[c].id
  BY <1>1, <1>3, RequestsTyped DEF Handle, Upsert, Insert, RemoveRoute, Drop, WriteFile, PublishRoute,
     Withdraw, Answer, Proceed, Asking, Asks, Free, EdgeTypeOK
<1>5. ASSUME NEW ok \in BOOLEAN, NEW r \in Route \cup {NoRoute}, Change(request[c].id, r, ok)
      PROVE  /\ \A i \in EdgeId \ {request[c].id} : desired'[i] = desired[i]
             /\ desired'[request[c].id] = IF ok THEN r ELSE desired[request[c].id]
  BY <1>1, <1>3, <1>5, ChangeTyped
<1>6. CASE request[c].id # s
  <2>1. desired'[s] = desired[s] /\ table'[s] = table[s]
    <3>1. s \in EdgeId \ {request[c].id}
      BY <1>6 DEF EdgeId
    <3>2. table'[s] = table[s]
      BY <1>1, <1>3, <1>6 DEF Handle, Upsert, Insert, RemoveRoute, Drop, WriteFile, PublishRoute,
         Withdraw, EdgeTypeOK
    <3>3. CASE Upsert(c) \/ RemoveRoute(c) \/ PublishRoute(c)
      BY <1>3, <1>5, <3>1, <3>2, <3>3 DEF Upsert, RemoveRoute, PublishRoute
    <3>4. CASE Insert(c) \/ Drop(c) \/ WriteFile(c) \/ Withdraw(c)
      BY <3>2, <3>4 DEF Insert, Drop, WriteFile, Withdraw
    <3> QED
      BY <3>3, <3>4 DEF Handle
  <2>2. ~Asking(c, s) /\ ~Asking(c, s)'
    BY <1>4, <1>6 DEF Asking
  <2> QED
    BY <1>1, <1>2, <2>1, <2>2, FollowedElsewhere DEF Asking
<1>7. CASE request[c].id = s
  <2>1. Asking(c, s) /\ Steady(c, s) /\ \A d \in Caller \ {c} : ~Asking(d, s)
    BY <1>1, <1>3, <1>7 DEF Asking, Followed
  <2>2. request[c].at \in {"upsert", "insert", "remove", "drop"}
    BY <1>3, <1>7 DEF Handle, Upsert, Insert, RemoveRoute, Drop, WriteFile, PublishRoute, Withdraw
  <2>3. /\ Asking(c, s)' => Steady(c, s)'
        /\ ~Asking(c, s)' => table'[s] = desired'[s]
    <3>1. request \in [Caller -> {Free} \cup EndpointAsks \cup ArtifactAsks]
      BY <1>1, RequestsTyped
    <3>2. CASE Upsert(c)
      <4>1. PICK ok \in BOOLEAN : /\ Change(request[c].id, request[c].route, ok)
                                  /\ IF ok THEN Proceed(c, "insert") ELSE Answer(c)
        BY <3>2 DEF Upsert
      <4>2. /\ desired'[s] = IF ok THEN request[c].route ELSE desired[s]
            /\ table' = table /\ table[s] = desired[s]
        BY <1>3, <1>5, <1>7, <2>1, <2>2, <3>2, <4>1 DEF Upsert, Steady
      <4>3. request'[c] = IF ok THEN Asks("insert", s, request[c].route) ELSE Free
        BY <1>7, <3>1, <4>1 DEF Proceed, Answer
      <4> QED
        BY <4>2, <4>3 DEF Asking, Steady, Asks, Free
    <3>3. CASE Insert(c)
      <4>1. request'[c] = Free
        BY <3>1, <3>3 DEF Insert, Answer
      <4>2. table'[s] = request[c].route /\ desired'[s] = request[c].route
        BY <1>1, <1>7, <2>1, <3>3 DEF Insert, Steady, EdgeTypeOK
      <4> QED
        BY <4>1, <4>2 DEF Asking
    <3>4. CASE RemoveRoute(c)
      <4>1. table' = table /\ table[s] = desired[s]
        BY <2>1, <3>4 DEF RemoveRoute, Steady
      <4>2. \/ desired'[s] = NoRoute /\ Proceed(c, "drop")
            \/ desired'[s] = desired[s] /\ Answer(c)
        BY <1>5, <1>7, <3>4 DEF RemoveRoute
      <4>3. \/ desired'[s] = NoRoute /\ request'[c] = Asks("drop", s, request[c].route)
            \/ desired'[s] = desired[s] /\ request'[c] = Free
        BY <1>7, <3>1, <4>2 DEF Proceed, Answer
      <4> QED
        BY <4>1, <4>3 DEF Asking, Steady, Asks, Free
    <3>5. CASE Drop(c)
      <4>1. request'[c] = Free
        BY <3>1, <3>5 DEF Drop, Answer
      <4>2. table'[s] = NoRoute /\ desired'[s] = NoRoute
        BY <1>1, <1>7, <2>1, <3>5 DEF Drop, Steady, EdgeTypeOK
      <4> QED
        BY <4>1, <4>2 DEF Asking
    <3> QED
      BY <2>2, <3>2, <3>3, <3>4, <3>5 DEF Handle, WriteFile, PublishRoute, Withdraw
  <2> QED
    BY <1>2, <2>1, <2>3, FollowedOwn
<1> QED
  BY <1>6, <1>7

LEMMA FollowedBegin ==
  ASSUME EdgeInv, NEW c \in Caller, NEW id \in EdgeId,
         NEW q \in EndpointAsks \cup ArtifactAsks, q.id = id,
         id \in ProxySlug => q.at \in {"upsert", "remove"},
         Begin(c, id, q), UNCHANGED <<desired, table>>,
         NEW s \in ProxySlug \ contested'
  PROVE  Followed(s)'
<1>1. EdgeTypeOK /\ s \notin contested
  BY DEF EdgeInv, Begin
<1>2. Followed(s)
  BY <1>1 DEF EdgeInv
<1>3. /\ \A d \in Caller \ {c} : request'[d] = request[d]
      /\ request'[c] = q /\ request[c] = Free
  BY <1>1, BeginTyped
<1>4. q # Free
  BY DEF EndpointAsks, ArtifactAsks, Free
<1>5. CASE id # s
  BY <1>2, <1>3, <1>5, FollowedElsewhere DEF Asking
<1>6. CASE id = s
  <2>1. \A d \in Caller : ~Asking(d, s)
    BY <1>3, <1>6 DEF Begin, Others, Asking
  <2>2. table[s] = desired[s]
    BY <1>2, <2>1 DEF Followed
  <2> QED
    BY <1>3, <1>4, <1>6, <2>1, <2>2, FollowedOwn DEF Asking, Steady
<1> QED
  BY <1>5, <1>6

LEMMA FollowedStep ==
  ASSUME EdgeInv, [EdgeNext]_edgeVars, NEW s \in ProxySlug \ contested'
  PROVE  Followed(s)'
<1>1. ASSUME NEW c \in Caller, Handle(c) PROVE Followed(s)'
  <2>1. contested' = contested
    BY <1>1 DEF Handle, Upsert, Insert, RemoveRoute, Drop, WriteFile, PublishRoute, Withdraw
  <2> QED
    BY <1>1, <2>1, FollowedHandle
<1>2. ASSUME NEW c \in Caller, NEW t \in ProxySlug, DeleteEndpoint(c, t)
      PROVE  Followed(s)'
  <2>1. Asks("remove", t, NoRoute) \in EndpointAsks /\ t \in EdgeId
    BY DEF Asks, EndpointAsks, EdgeId
  <2> QED
    BY <1>2, <2>1, FollowedBegin DEF DeleteEndpoint, Asks
<1>3. ASSUME NEW c \in Caller, NEW t \in ProxySlug, NEW r \in Route, CreateEndpoint(c, t, r)
      PROVE  Followed(s)'
  <2>1. Asks("upsert", t, r) \in EndpointAsks /\ t \in EdgeId
    BY DEF Asks, EndpointAsks, EdgeId
  <2> QED
    BY <1>3, <2>1, FollowedBegin DEF CreateEndpoint, Asks
<1>4. ASSUME NEW c \in Caller, NEW a \in Artifact, NEW r \in Route, Publish(c, a, r)
      PROVE  Followed(s)'
  <2>1. Asks("write", a, r) \in ArtifactAsks /\ a \in EdgeId /\ a \notin ProxySlug
    BY DEF Asks, ArtifactAsks, EdgeId
  <2> QED
    BY <1>4, <2>1, FollowedBegin DEF Publish, Asks
<1>5. ASSUME UNCHANGED <<desired, table, request, contested>>
      PROVE  Followed(s)'
  BY <1>5 DEF EdgeInv, Followed, Asking, Steady
<1>6. CASE Converge \/ StopCaddy \/ StartCaddy \/ UNCHANGED edgeVars
  BY <1>5, <1>6 DEF Converge, ReadRoutes, ApplyRoutes, StopCaddy, StartCaddy, edgeVars
<1>7. CASE ForgetRoutes
  BY <1>7 DEF ForgetRoutes, Followed, Asking, NoRoutes, EdgeId
<1> QED
  BY <1>1, <1>2, <1>3, <1>4, <1>6, <1>7, EdgeSteps DEF Turn

LEMMA EdgeStarts == EdgeInit => EdgeInv
BY DEF EdgeInit, EdgeInv, EdgeTypeOK, Followed, Asking, NoRoutes, EdgeId

(* Every variable keeps its type, and a slug with one request at a time has in
   the routes and in the table what the request has got to. *)
THEOREM EdgeCorrect == EdgeSpec => []EdgeInv
<1>1. EdgeInv /\ [EdgeNext]_edgeVars => EdgeInv'
  BY EdgeTyped, FollowedStep DEF EdgeInv
<1> QED
  BY <1>1, EdgeStarts, PTL DEF EdgeSpec

(* The proxy table and the desired routes agree on a slug after every answer. *)
THEOREM TableFollows == EdgeSpec => []TableFollowsEdge
<1>1. EdgeInv => TableFollowsEdge
  BY DEF EdgeInv, Followed, Asking, TableFollowsEdge
<1> QED
  BY <1>1, EdgeCorrect, PTL

-----------------------------------------------------------------------------
(***************************************************************************)
(* Sign-in mode.                                                           *)
(***************************************************************************)
(* The mode is written once, by whoever has created the file. *)
WrittenOnce ==
  /\ \A w \in Chooser \cup {"axis"} : choosing[w] # "-" =>
       modeFile = "torn" /\ \A v \in Chooser \cup {"axis"} : choosing[v] # "-" => v = w
  /\ boot = "choosing" => choosing["axis"] = loaded
  /\ boot \in {"loaded", "bootstrapped", "up"} => modeFile = loaded

(* What a boot has read leads to the authority that was first served under. *)
Rooted ==
  /\ boot # "down" /\ claimed => "local" \in accounts
  /\ first = "open" => modeFile = "single-user"
  /\ first \in {"local", "sidecar"} => modeFile = "authenticated"
  /\ first = "local" => "local" \in accounts /\ (boot # "down" => claimed)
  /\ first = "sidecar" /\ ~reclaimed => "local" \notin accounts
  /\ boot = "up" => first # "none"

SignInInv == SignInTypeOK /\ WrittenOnce /\ Rooted /\ AuthorityKept

LEMMA SignInStep ==
  ASSUME SignInInv, [SignInNext]_signInVars
  PROVE  SignInInv'
<1> USE DEF SignInInv, SignInTypeOK, WrittenOnce, Rooted, AuthorityKept, Mode
<1>1. ASSUME NEW c \in Chooser, NEW mode \in Mode, Choose(c, mode)
      PROVE  SignInInv'
  BY <1>1 DEF Choose, Create
<1>2. ASSUME NEW c \in Chooser, Written(c)
      PROVE  SignInInv'
  BY <1>2 DEF Written
<1>3. ASSUME NEW c \in Chooser, ChooserDies(c)
      PROVE  SignInInv'
  BY <1>3 DEF ChooserDies
<1>4. CASE Start
  <2>1. starts' \in 0..MaxStarts
    BY <1>4 DEF Start
  <2>2. SignInTypeOK'
    <3>1. claimed' \in BOOLEAN
      <4>1. claimed' = ("local" \in accounts)
        BY <1>4 DEF Start
      <4>2. CASE "local" \in accounts
        BY ONLY <4>1, <4>2
      <4>3. CASE "local" \notin accounts
        BY ONLY <4>1, <4>3
      <4> QED
        BY <4>2, <4>3
    <3>2. boot' = "read" /\ UNCHANGED <<modeFile, accounts, socket, loaded, authority, choosing,
                                        first, reclaimed>>
      BY <1>4 DEF Start
    <3> QED
      BY ONLY SignInTypeOK, <2>1, <3>1, <3>2 DEF SignInTypeOK, Mode
  <2>3. WrittenOnce'
    BY <1>4 DEF Start
  <2>4. Rooted'
    BY <1>4 DEF Start
  <2> QED
    BY <1>4, <2>2, <2>3, <2>4 DEF Start
<1>5. CASE LoadMode
  BY <1>5 DEF LoadMode, Create, Fails
<1>6. CASE ChooseFails
  BY <1>6 DEF ChooseFails, Fails
<1>7. CASE ModeWritten
  BY <1>7 DEF ModeWritten
<1>8. CASE Serve
  BY <1>8 DEF Serve, Authority
<1>9. CASE Stop
  BY <1>9 DEF Stop
<1>10. CASE RegisterUser
  BY <1>10 DEF RegisterUser
<1>11. CASE Sidecar
  BY <1>11 DEF Sidecar
<1>12. ASSUME NEW given \in BOOLEAN, Bootstrap(given)
       PROVE  SignInInv'
  BY <1>12 DEF Bootstrap
<1>13. CASE UNCHANGED signInVars
  BY <1>13 DEF signInVars
<1> QED
  BY <1>1, <1>2, <1>3, <1>4, <1>5, <1>6, <1>7, <1>8, <1>9, <1>10, <1>11, <1>12, <1>13
     DEF SignInNext

(* Axis serves under the authority it has first served under, or not at all. *)
THEOREM AuthorityStays == SignInSpec => []AuthorityKept
<1>1. SignInInit => SignInInv
  <2> SUFFICES ASSUME SignInInit PROVE SignInInv
    OBVIOUS
  <2>1. SignInTypeOK
    <3>1. starts \in 0..MaxStarts
      BY DEF SignInInit
    <3>2. accounts \subseteq {"local", "sidecar"}
      BY DEF SignInInit
    <3> QED
      BY <3>1, <3>2, Zenon DEF SignInInit, SignInTypeOK, Mode
  <2>2. WrittenOnce /\ Rooted /\ AuthorityKept
    BY DEF SignInInit, WrittenOnce, Rooted, AuthorityKept
  <2> QED
    BY <2>1, <2>2 DEF SignInInv
<1>2. SignInInv => AuthorityKept
  BY DEF SignInInv
<1> QED
  BY <1>1, <1>2, SignInStep, PTL DEF SignInSpec


-----------------------------------------------------------------------------
(***************************************************************************)
(* Packages.                                                               *)
(***************************************************************************)
Bound == [Capability -> Package \cup {Core, NoRecord}]

(* Of the providers of a capability that are active at most one has no     *)
(* binding for it, and the capability that is built in has none; the active *)
(* packages are finitely many, because each was activated.                 *)
Sound(held) ==
  /\ IsFiniteSet(Active(held))
  /\ \A c \in Capability : \A i, j \in Offers(held, c) : i = j
  /\ Offers(held, BuiltIn) = {}
Single(entries) == \A k \in Key : \A x, y \in entries[k] : x = y
Good(v) == v \in Registry /\ Sound(v.held) /\ Single(v.entries)

(* The events that handlers append. *)
Proper(e) ==
  /\ e.type \in {"installed", "granted", "activated", "deactivated", "removed", "declared"}
  /\ e.type # "declared" => e.id \in Package
  /\ e.type = "installed" => e.manifest \in Manifest /\ e.bound \in Bound
  /\ e.type = "granted" => e.granted \subseteq Needs
  /\ e.type = "activated" => e.at \in 1..MaxTime
  /\ e.type = "declared" => e.of \in Declared /\ e.is \in Declaration \cup {NoRecord}
Batch(es) ==
  /\ Len(es) \in {1, 2} /\ Proper(es[1])
  /\ Len(es) = 2 => Proper(es[2])

PackagesInv ==
  /\ Good(stored) /\ Good(shown)
  /\ putting = [p \in Putter |-> putting[p]]
  /\ \A p \in Putter : putting[p] # NoRecord => Batch(putting[p])

LEMMA BeforeOrders ==
  ASSUME NEW held, NEW i \in Package, NEW j \in Package, NEW k \in Package,
         held[i].at \in Nat, held[j].at \in Nat, held[k].at \in Nat
  PROVE  /\ ~(Before(held, i, j) /\ Before(held, j, i))
         /\ i = j \/ Before(held, i, j) \/ Before(held, j, i)
         /\ Before(held, i, j) /\ Before(held, j, k) => Before(held, i, k)
BY PackagesAssumption DEF Before

(* At most one of a set is its first, and at most one its latest. *)
LEMMA OneExtreme ==
  ASSUME NEW held, NEW S \in SUBSET Package, \A i \in S : held[i].at \in Nat
  PROVE  /\ \A i, j \in First(held, S) : i = j
         /\ \A i, j \in Latest(held, S) : i = j
BY BeforeOrders DEF First, Latest

(* A finite set of packages that is not empty has a latest one. *)
LEMMA LatestExists ==
  ASSUME NEW held, NEW S \in SUBSET Package, \A i \in S : held[i].at \in Nat,
         IsFiniteSet(S), S # {}
  PROVE  Latest(held, S) # {}
<1> DEFINE T == {U \in SUBSET S : U # {} /\ Latest(held, U) = {}}
<1>1. SUFFICES ASSUME T # {} PROVE FALSE
  OBVIOUS
<1>2. IsWellFoundedOn(StrictSubsetOrdering(S), SUBSET S)
  BY FS_StrictSubsetOrderingWellFounded, FS_FiniteSubsetsOfFinite
<1>3. T \subseteq SUBSET S
  OBVIOUS
<1>4. PICK U \in T : \A V \in T : <<V, U>> \notin StrictSubsetOrdering(S)
  <2> HIDE DEF T
  <2> QED BY <1>1, <1>2, <1>3, WFMin
<1>5. U \subseteq S /\ U # {} /\ Latest(held, U) = {}
  OBVIOUS
<1>6. PICK x \in U : TRUE
  BY <1>5
<1>7. CASE U \ {x} = {}
  BY <1>5, <1>6, <1>7 DEF Latest
<1>8. CASE U \ {x} # {}
  <2>1. <<U \ {x}, U>> \in StrictSubsetOrdering(S)
    BY <1>5, <1>6 DEF StrictSubsetOrdering
  <2>2. U \ {x} \notin T
    BY <1>4, <2>1
  <2>3. PICK y \in U \ {x} : \A j \in (U \ {x}) \ {y} : Before(held, j, y)
    BY <1>5, <1>8, <2>2 DEF Latest
  <2>4. x \in Package /\ y \in Package /\ held[x].at \in Nat /\ held[y].at \in Nat /\ x # y
    BY <1>5, <1>6, <2>3
  <2>5. CASE Before(held, x, y)
    <3>1. \A j \in U \ {y} : Before(held, j, y)
      BY <2>3, <2>5
    <3>2. QED BY <1>5, <2>3, <3>1 DEF Latest
  <2>6. CASE Before(held, y, x)
    <3>1. \A j \in U \ {x} : Before(held, j, x)
      <4>1. TAKE j \in U \ {x}
      <4>2. j \in Package /\ held[j].at \in Nat
        BY <1>5
      <4>3. QED BY <2>3, <2>4, <2>6, <4>2, BeforeOrders
    <3>2. QED BY <1>5, <1>6, <3>1 DEF Latest
  <2>7. QED BY <2>4, <2>5, <2>6, BeforeOrders
<1>9. QED BY <1>7, <1>8

(* The records by package.                                                 *)
Held == [Package -> Records \cup {NoRecord}]

LEMMA RecordTyped ==
  ASSUME NEW m \in Manifest, NEW b \in Bound, NEW g \in SUBSET Needs, NEW a \in BOOLEAN,
         NEW t \in 0..MaxTime
  PROVE  Record(m, b, g, a, t) \in Records
BY DEF Record, Records, Bound

LEMMA HeldTyped ==
  ASSUME NEW held \in Held, NEW i \in Package, held[i] # NoRecord
  PROVE  /\ held[i].manifest \in Manifest /\ held[i].bound \in Bound
         /\ held[i].granted \in SUBSET Needs /\ held[i].active \in BOOLEAN
         /\ held[i].at \in 0..MaxTime
BY DEF Held, Records, Bound

(* What offers less than something sound is sound.                         *)
LEMMA FewerOffers ==
  ASSUME NEW held, NEW less, Sound(held),
         Active(less) \subseteq Active(held),
         \A c \in Capability : Offers(less, c) \subseteq Offers(held, c)
  PROVE  Sound(less)
<1>1. IsFiniteSet(Active(less))
  BY FS_Subset DEF Sound
<1>2. Offers(less, BuiltIn) = {}
  BY PackagesAssumption DEF Sound
<1>3. \A c \in Capability : \A i, j \in Offers(less, c) : i = j
  BY DEF Sound
<1> QED BY <1>1, <1>2, <1>3 DEF Sound

(* The record of one package is replaced by one that is not active, or by   *)
(* none, or by one that says the same.                                     *)
LEMMA SoundWith ==
  ASSUME NEW held \in Held, Sound(held), NEW i \in Package, NEW r \in Records \cup {NoRecord},
         r # NoRecord /\ r.active =>
           held[i] # NoRecord /\ held[i].active
             /\ r.manifest = held[i].manifest /\ r.bound = held[i].bound
  PROVE  /\ [held EXCEPT ![i] = r] \in Held
         /\ Sound([held EXCEPT ![i] = r])
<1> DEFINE less == [held EXCEPT ![i] = r]
<1>1. less \in Held /\ less[i] = r /\ \A j \in Package \ {i} : less[j] = held[j]
  BY DEF Held
<1> HIDE DEF less
<1>2. Active(less) \subseteq Active(held)
  BY <1>1 DEF Active
<1>3. ASSUME NEW c \in Capability, NEW j \in Offers(less, c)
      PROVE  j \in Offers(held, c)
  <2>1. j \in Active(less) /\ j \in Active(held) /\ j \in Package
    BY <1>2, <1>3 DEF Offers, Active
  <2>2. held[j].manifest = less[j].manifest /\ held[j].bound = less[j].bound
    BY <1>1, <2>1 DEF Active
  <2>3. QED BY <1>3, <2>1, <2>2 DEF Offers, Provides
<1>4. Sound(less)
  BY <1>2, <1>3, FewerOffers
<1> QED BY <1>1, <1>4 DEF less

(* An activation that is valid makes no second offer.                      *)
LEMMA SoundActivation ==
  ASSUME NEW held \in Held, Sound(held), NEW i \in Package, ValidActivation(held, i),
         NEW more \in Held,
         more[i].manifest = held[i].manifest, more[i].bound = held[i].bound,
         \A j \in Package \ {i} : more[j] = held[j]
  PROVE  Sound(more)
<1>1. held[i] # NoRecord /\ held[i].manifest \in Manifest /\ held[i].bound \in Bound
  BY HeldTyped DEF ValidActivation
<1>2. Active(more) \subseteq Active(held) \cup {i}
  BY DEF Active
<1>3. IsFiniteSet(Active(more))
  <2>1. IsFiniteSet(Active(held) \cup {i})
    BY FS_AddElement DEF Sound
  <2>2. QED BY <1>2, <2>1, FS_Subset
<1>4. ASSUME NEW c \in Capability
      PROVE  Offers(more, c) \ {i} \subseteq Offers(held, c)
  <2>1. SUFFICES ASSUME NEW j \in Offers(more, c) \ {i} PROVE j \in Offers(held, c)
    OBVIOUS
  <2>2. j \in Package \ {i} /\ more[j] = held[j]
    BY DEF Offers, Active
  <2>3. QED BY <2>1, <2>2 DEF Offers, Active, Provides
<1>5. ASSUME NEW c \in Capability, i \in Offers(more, c)
      PROVE  c # BuiltIn /\ Offers(held, c) \subseteq {i}
  <2>1. c \in held[i].manifest.provides /\ held[i].bound[c] = NoRecord
    BY <1>5 DEF Offers, Provides
  <2>2. \A o \in Owners(held, c) : o = i \/ o = NoRecord
    <3>1. Agrees(i, NoRecord, Owners(held, c))
      BY <2>1 DEF ValidActivation
    <3>2. i # NoRecord
      BY PackagesAssumption
    <3>3. QED BY <3>1, <3>2 DEF Agrees
  <2>3. Claims(held, c) = {}
    <3>1. SUFFICES ASSUME Claims(held, c) # {} PROVE FALSE
      OBVIOUS
    <3>2. Claims(held, c) \in SUBSET Package /\ Claims(held, c) \subseteq Active(held)
      BY DEF Claims, Active
    <3>3. ASSUME NEW j \in Claims(held, c) PROVE held[j].at \in Nat
      <4>1. j \in Package /\ held[j] # NoRecord
        BY <3>2 DEF Active
      <4>2. held[j].at \in 0..MaxTime
        BY <4>1, HeldTyped
      <4>3. QED BY <4>2, PackagesAssumption
    <3>4. IsFiniteSet(Claims(held, c))
      BY <3>2, FS_Subset DEF Sound
    <3>5. PICK j \in Latest(held, Claims(held, c)) : TRUE
      BY <3>1, <3>2, <3>3, <3>4, LatestExists
    <3>6. j \in Owners(held, c) /\ j \in Claims(held, c)
      BY <3>1, <3>5 DEF Owners, Latest
    <3>7. held[j].bound[c] = j /\ j \in Package
      BY <3>6, <3>2 DEF Claims
    <3>8. j # NoRecord
      BY <3>7, PackagesAssumption
    <3>9. j = i
      BY <2>2, <3>6, <3>8
    <3>10. QED BY <2>1, <3>7, <3>8, <3>9
  <2>4. c # BuiltIn
    <3>1. SUFFICES ASSUME c = BuiltIn PROVE FALSE
      OBVIOUS
    <3>2. Core \in Owners(held, c)
      BY <2>3, <3>1 DEF Owners
    <3>3. QED BY <2>2, <3>2, PackagesAssumption
  <2>5. ASSUME NEW j \in Offers(held, c), j # i PROVE FALSE
    <3>1. Offers(held, c) = {j}
      BY <2>5 DEF Sound
    <3>2. First(held, Offers(held, c)) = {j}
      BY <3>1 DEF First
    <3>3. j \in Owners(held, c)
      BY <2>3, <2>4, <3>2 DEF Owners
    <3>4. j \in Package
      BY <2>5 DEF Offers, Active
    <3>5. QED BY <2>2, <2>5, <3>3, <3>4, PackagesAssumption
  <2>6. QED BY <2>4, <2>5
<1>6. Offers(more, BuiltIn) = {}
  <2>1. i \notin Offers(more, BuiltIn)
    BY <1>5, PackagesAssumption
  <2>2. QED BY <1>4, <2>1, PackagesAssumption DEF Sound
<1>7. ASSUME NEW c \in Capability, NEW a \in Offers(more, c), NEW b \in Offers(more, c)
      PROVE  a = b
  <2>1. CASE i \in Offers(more, c)
    BY <1>4, <1>5, <1>7, <2>1
  <2>2. CASE i \notin Offers(more, c)
    BY <1>4, <1>7, <2>2 DEF Sound
  <2>3. QED BY <2>1, <2>2
<1> QED BY <1>3, <1>6, <1>7 DEF Sound

(* Rebuilt entries are registry entries, one for each key at most.         *)
LEMMA EntriesTyped ==
  ASSUME NEW held \in Held
  PROVE  /\ Entries(held) \in [Key -> SUBSET [of : Package, manifest : Manifest]]
         /\ Single(Entries(held))
<1>1. ASSUME NEW k \in Key
      PROVE  /\ Chosen(held, k) \in SUBSET Active(held)
             /\ \A i, j \in Chosen(held, k) : i = j
  <2> DEFINE W == Winners(held, k)  P == Plain(held, k)
  <2>1. W \in SUBSET Active(held) /\ P \in SUBSET Active(held)
    BY DEF Winners, Plain, Contributes
  <2>2. \A i \in Active(held) : i \in Package /\ held[i].at \in Nat
    <3>1. SUFFICES ASSUME NEW i \in Active(held) PROVE i \in Package /\ held[i].at \in Nat
      OBVIOUS
    <3>2. i \in Package /\ held[i] # NoRecord
      BY DEF Active
    <3>3. held[i].at \in 0..MaxTime
      BY <3>2, HeldTyped
    <3>4. QED BY <3>2, <3>3, PackagesAssumption
  <2>3. /\ \A i, j \in Latest(held, W) : i = j
        /\ \A i, j \in First(held, P) : i = j
    <3> HIDE DEF W, P
    <3>1. W \in SUBSET Package /\ P \in SUBSET Package
      BY <2>1, <2>2
    <3>2. QED BY <2>1, <2>2, <3>1, OneExtreme
  <2>4. Chosen(held, k) = Latest(held, W) \/ Chosen(held, k) = First(held, P)
    BY DEF Chosen
  <2>5. Latest(held, W) \subseteq W /\ First(held, P) \subseteq P
    BY DEF Latest, First
  <2> HIDE DEF W, P
  <2>6. QED BY <2>1, <2>3, <2>4, <2>5
<1>2. ASSUME NEW k \in Key
      PROVE  Entries(held)[k] \in SUBSET [of : Package, manifest : Manifest]
  <2>1. ASSUME NEW i \in Chosen(held, k)
        PROVE  [of |-> i, manifest |-> held[i].manifest] \in [of : Package, manifest : Manifest]
    <3>1. i \in Package /\ held[i] # NoRecord
      BY <1>1 DEF Active
    <3>2. QED BY <3>1, HeldTyped
  <2>2. QED BY <2>1 DEF Entries
<1>3. ASSUME NEW k \in Key, NEW x \in Entries(held)[k], NEW y \in Entries(held)[k]
      PROVE  x = y
  BY <1>1, <1>3 DEF Entries
<1>4. Entries(held) = [k \in Key |-> Entries(held)[k]]
  BY DEF Entries
<1> QED BY <1>2, <1>3, <1>4 DEF Single

LEMMA ViewFields ==
  ASSUME NEW held, NEW entries, NEW decl
  PROVE  /\ View(held, entries, decl).held = held
         /\ View(held, entries, decl).entries = entries
         /\ View(held, entries, decl).decl = decl
BY DEF View

LEMMA GoodView ==
  ASSUME NEW held \in Held, Sound(held),
         NEW entries \in [Key -> SUBSET [of : Package, manifest : Manifest]], Single(entries),
         NEW decl \in [Declared -> Declaration \cup {NoRecord}]
  PROVE  Good(View(held, entries, decl))
<1>1. View(held, entries, decl) \in Registry
  BY DEF View, Registry, Held
<1> QED BY <1>1, ViewFields DEF Good

LEMMA GoodFields ==
  ASSUME NEW v, Good(v)
  PROVE  /\ v.held \in Held /\ Sound(v.held)
         /\ v.entries \in [Key -> SUBSET [of : Package, manifest : Manifest]]
         /\ Single(v.entries)
         /\ v.decl \in [Declared -> Declaration \cup {NoRecord}]
BY DEF Good, Registry, Held

LEMMA HoldingGood ==
  ASSUME NEW v, Good(v), NEW held \in Held, Sound(held)
  PROVE  Good(Holding(v, held)) /\ Good(Rebuilt(v, held))
BY GoodFields, GoodView, EntriesTyped DEF Holding, Rebuilt

LEMMA InstalledGood ==
  ASSUME NEW v, Good(v), NEW e, Proper(e), e.type = "installed"
  PROVE  Good(Installed(v, e))
<1> DEFINE r == Record(e.manifest, e.bound, {}, FALSE, 0)
<1>1. r \in Records
  <2>1. e.manifest \in Manifest /\ e.bound \in Bound /\ 0 \in 0..MaxTime
    BY PackagesAssumption DEF Proper
  <2>2. QED BY <2>1 DEF Record, Records, Bound
<1>2. r.active = FALSE
  BY DEF Record
<1> HIDE DEF r
<1>3. With(v, e.id, r) \in Held /\ Sound(With(v, e.id, r))
  BY <1>1, <1>2, SoundWith, GoodFields DEF With, Proper
<1>4. Good(Holding(v, With(v, e.id, r)))
  BY <1>3, HoldingGood
<1> QED BY <1>4 DEF Installed, r

LEMMA GrantedGood ==
  ASSUME NEW v, Good(v), NEW e, Proper(e), e.type = "granted"
  PROVE  Good(Granted(v, e))
<1>1. CASE v.held[e.id] = NoRecord
  BY <1>1 DEF Granted
<1>2. CASE v.held[e.id] # NoRecord
  <2> DEFINE old == v.held[e.id]
             r == Record(old.manifest, old.bound, e.granted, old.active, old.at)
  <2>1. e.id \in Package /\ e.granted \in SUBSET Needs
    BY DEF Proper
  <2>2. r \in Records
    BY <1>2, <2>1, GoodFields, HeldTyped, RecordTyped
  <2>3. r.active = old.active /\ r.manifest = old.manifest /\ r.bound = old.bound
    BY DEF Record
  <2>4. Granted(v, e) = Holding(v, With(v, e.id, r))
    BY <1>2 DEF Granted
  <2> HIDE DEF r
  <2>5. With(v, e.id, r) \in Held /\ Sound(With(v, e.id, r))
    BY <1>2, <2>1, <2>2, <2>3, SoundWith, GoodFields DEF With
  <2>6. QED BY <2>4, <2>5, HoldingGood
<1> QED BY <1>1, <1>2

LEMMA SwitchedTyped ==
  ASSUME NEW v, Good(v), NEW i \in Package, v.held[i] # NoRecord, NEW at \in 0..MaxTime
  PROVE  /\ \E r \in Records :
              /\ Switched(v, i, TRUE, at) = With(v, i, r)
              /\ r.manifest = v.held[i].manifest /\ r.bound = v.held[i].bound
         /\ \E r \in Records :
              Switched(v, i, FALSE, at) = With(v, i, r) /\ r.active = FALSE
<1> DEFINE old == v.held[i]
           on  == Record(old.manifest, old.bound, old.granted, TRUE, at)
           off == Record(old.manifest, old.bound, old.granted, FALSE, at)
<1>1. /\ old.manifest \in Manifest /\ old.bound \in Bound
      /\ old.granted \in SUBSET Needs
  BY GoodFields, HeldTyped
<1>2. on \in Records /\ off \in Records
  BY <1>1 DEF Record, Records, Bound
<1>3. on.manifest = old.manifest /\ on.bound = old.bound
  BY DEF Record
<1>4. off.active = FALSE
  BY DEF Record
<1>5. Switched(v, i, TRUE, at) = With(v, i, on)
  BY DEF Switched
<1>6. Switched(v, i, FALSE, at) = With(v, i, off)
  BY DEF Switched
<1> HIDE DEF on, off
<1> QED BY <1>2, <1>3, <1>4, <1>5, <1>6

LEMMA ActivatedGood ==
  ASSUME NEW v, Good(v), NEW e, Proper(e), e.type = "activated",
         ValidActivation(v.held, e.id)
  PROVE  Good(Rebuilt(v, Switched(v, e.id, TRUE, e.at)))
<1>1. e.id \in Package /\ e.at \in 0..MaxTime /\ v.held[e.id] # NoRecord
  BY PackagesAssumption DEF Proper, ValidActivation
<1>2. PICK r \in Records :
        /\ Switched(v, e.id, TRUE, e.at) = With(v, e.id, r)
        /\ r.manifest = v.held[e.id].manifest /\ r.bound = v.held[e.id].bound
  BY <1>1, SwitchedTyped
<1> DEFINE more == With(v, e.id, r)
<1>3. v.held \in Held /\ Sound(v.held)
  BY GoodFields
<1>4. more \in Held /\ more[e.id] = r /\ \A j \in Package \ {e.id} : more[j] = v.held[j]
  BY <1>1, <1>2, <1>3 DEF With, Held
<1> HIDE DEF more
<1>5. Sound(more)
  BY <1>1, <1>2, <1>3, <1>4, SoundActivation
<1> QED BY <1>2, <1>4, <1>5, HoldingGood DEF more

LEMMA DeactivatedGood ==
  ASSUME NEW v, Good(v), NEW e, Proper(e), e.type = "deactivated"
  PROVE  Good(Deactivated(v, e))
<1>1. v.held \in Held /\ Sound(v.held) /\ e.id \in Package
  BY GoodFields DEF Proper
<1>2. CASE v.held[e.id] = NoRecord
  BY <1>1, <1>2, HoldingGood DEF Deactivated
<1>3. CASE v.held[e.id] # NoRecord
  <2>1. PICK r \in Records :
          Switched(v, e.id, FALSE, 0) = With(v, e.id, r) /\ r.active = FALSE
    <3>1. 0 \in 0..MaxTime
      BY PackagesAssumption
    <3>2. QED BY <1>1, <1>3, <3>1, SwitchedTyped
  <2>2. With(v, e.id, r) \in Held /\ Sound(With(v, e.id, r))
    BY <1>1, <2>1, SoundWith DEF With
  <2>3. QED BY <1>3, <2>1, <2>2, HoldingGood DEF Deactivated
<1> QED BY <1>2, <1>3

LEMMA RemovedGood ==
  ASSUME NEW v, Good(v), NEW e, Proper(e), e.type = "removed"
  PROVE  Good(Removed(v, e))
<1>1. With(v, e.id, NoRecord) \in Held /\ Sound(With(v, e.id, NoRecord))
  BY SoundWith, GoodFields DEF With, Proper
<1> QED BY <1>1, HoldingGood DEF Removed

LEMMA ProjectGood ==
  ASSUME NEW v, Good(v), NEW e, Proper(e)
  PROVE  Good(Project(v, e))
<1>1. CASE e.type = "installed"
  BY <1>1, InstalledGood DEF Project
<1>2. CASE e.type = "granted"
  BY <1>2, GrantedGood DEF Project
<1>3. CASE e.type = "activated"
  BY <1>3, ActivatedGood DEF Project, Activated
<1>4. CASE e.type = "deactivated"
  BY <1>4, DeactivatedGood DEF Project
<1>5. CASE e.type = "removed"
  BY <1>5, RemovedGood DEF Project
<1>6. CASE e.type = "declared"
  <2>1. [v.decl EXCEPT ![e.of] = e.is] \in [Declared -> Declaration \cup {NoRecord}]
    BY <1>6, GoodFields DEF Proper
  <2>2. Good(View(v.held, v.entries, [v.decl EXCEPT ![e.of] = e.is]))
    BY <2>1, GoodFields, GoodView
  <2>3. QED BY <1>6, <2>2 DEF Project
<1> QED BY <1>1, <1>2, <1>3, <1>4, <1>5, <1>6 DEF Proper

LEMMA ProjectAllGood ==
  ASSUME NEW v, Good(v), NEW es, Batch(es)
  PROVE  Good(ProjectAll(v, es))
<1>1. CASE Len(es) = 1
  BY <1>1, ProjectGood DEF Batch, ProjectAll
<1>2. CASE Len(es) = 2
  <2>1. Good(Project(v, es[1]))
    BY ProjectGood DEF Batch
  <2>2. Good(Project(Project(v, es[1]), es[2]))
    BY <1>2, <2>1, ProjectGood DEF Batch
  <2>3. QED BY <1>2, <2>2 DEF ProjectAll
<1> QED BY <1>1, <1>2 DEF Batch

LEMMA CommitKeeps ==
  ASSUME PackagesInv, NEW e, Proper(e), Commit(e)
  PROVE  PackagesInv'
<1>1. Good(Project(stored, e)) /\ Good(Project(shown, e))
  BY ProjectGood DEF PackagesInv
<1>2. stored' = Project(stored, e) /\ shown' = Project(shown, e) /\ putting' = putting
  BY DEF Commit
<1>3. Good(stored)' /\ Good(shown)'
  BY <1>1, <1>2
<1> QED BY <1>2, <1>3 DEF PackagesInv

LEMMA AppendFirstKeeps ==
  ASSUME PackagesInv, NEW p \in Putter, NEW es, Batch(es), AppendFirst(p, es)
  PROVE  PackagesInv'
<1>1. Good(ProjectAll(stored, es)) /\ Good(shown)
  BY ProjectAllGood DEF PackagesInv
<1>2. stored' = ProjectAll(stored, es) /\ shown' = shown
  BY DEF AppendFirst
<1>3. Good(stored)' /\ Good(shown)'
  BY <1>1, <1>2
<1>4. putting' = [putting EXCEPT ![p] = es]
  BY DEF AppendFirst
<1>5. /\ putting' = [q \in Putter |-> putting'[q]]
      /\ \A q \in Putter : putting'[q] # NoRecord => Batch(putting'[q])
  BY <1>4 DEF PackagesInv
<1> QED BY <1>3, <1>5 DEF PackagesInv

(* What each handler appends is proper. *)
LEMMA HandlerKeeps ==
  ASSUME PackagesInv, NEW i \in Package
  PROVE  /\ \A m \in Manifest, b \in Bound : Install(i, m, b) => PackagesInv'
         /\ \A caps \in SUBSET Needs : Grant(i, caps) => PackagesInv'
         /\ \A t \in 1..MaxTime : Activate(i, t) => PackagesInv'
         /\ Deactivate(i) \/ RemovePackage(i) => PackagesInv'
<1>1. ASSUME NEW m \in Manifest, NEW b \in Bound, Install(i, m, b) PROVE PackagesInv'
  <2> DEFINE e == [type |-> "installed", id |-> i, manifest |-> m, bound |-> b]
  <2>1. Proper(e) /\ Commit(e)
    BY <1>1 DEF Proper, Install
  <2> HIDE DEF e
  <2>2. QED BY <2>1, CommitKeeps
<1>2. ASSUME NEW caps \in SUBSET Needs, Grant(i, caps) PROVE PackagesInv'
  <2> DEFINE e == [type |-> "granted", id |-> i, granted |-> caps]
  <2>1. Proper(e) /\ Commit(e)
    BY <1>2 DEF Proper, Grant
  <2> HIDE DEF e
  <2>2. QED BY <2>1, CommitKeeps
<1>3. ASSUME NEW t \in 1..MaxTime, Activate(i, t) PROVE PackagesInv'
  <2> DEFINE e == [type |-> "activated", id |-> i, at |-> t]
  <2>1. Proper(e) /\ Commit(e)
    BY <1>3 DEF Proper, Activate
  <2> HIDE DEF e
  <2>2. QED BY <2>1, CommitKeeps
<1>4. ASSUME Deactivate(i) PROVE PackagesInv'
  <2> DEFINE e == [type |-> "deactivated", id |-> i]
  <2>1. Proper(e) /\ Commit(e)
    BY <1>4 DEF Proper, Deactivate
  <2> HIDE DEF e
  <2>2. QED BY <2>1, CommitKeeps
<1>5. ASSUME RemovePackage(i) PROVE PackagesInv'
  <2> DEFINE e == [type |-> "removed", id |-> i]
  <2>1. Proper(e) /\ Commit(e)
    BY <1>5 DEF Proper, RemovePackage
  <2> HIDE DEF e
  <2>2. QED BY <2>1, CommitKeeps
<1> QED BY <1>1, <1>2, <1>3, <1>4, <1>5

LEMMA PutKeeps ==
  ASSUME PackagesInv, NEW p \in Putter
  PROVE  /\ \A i \in Package, m \in Manifest, t \in 1..MaxTime : PutEntry(p, i, m, t) => PackagesInv'
         /\ \A d \in Declared, is \in Declaration \cup {NoRecord} :
              DeclareEntry(p, d, is) => PackagesInv'
         /\ \A d \in Declared : WithdrawEntry(p, d) => PackagesInv'
<1>1. ASSUME NEW i \in Package, NEW m \in Manifest, NEW t \in 1..MaxTime, PutEntry(p, i, m, t)
      PROVE  PackagesInv'
  <2> DEFINE e == [type |-> "installed", id |-> i, manifest |-> m, bound |-> Unbound]
             f == [type |-> "activated", id |-> i, at |-> t]
  <2>1. Unbound \in Bound
    BY DEF Unbound, Bound
  <2>2. Proper(e) /\ Proper(f)
    BY <2>1 DEF Proper
  <2>3. AppendFirst(p, <<e, f>>)
    BY <1>1 DEF PutEntry
  <2> HIDE DEF e, f
  <2>4. Batch(<<e, f>>)
    BY <2>2 DEF Batch
  <2>5. QED BY <2>3, <2>4, AppendFirstKeeps
<1>2. ASSUME NEW d \in Declared, NEW is \in Declaration \cup {NoRecord}, DeclareEntry(p, d, is)
      PROVE  PackagesInv'
  <2> DEFINE e == [type |-> "declared", of |-> d, is |-> is]
  <2>1. Proper(e) /\ AppendFirst(p, <<e>>)
    BY <1>2 DEF Proper, DeclareEntry
  <2> HIDE DEF e
  <2>2. Batch(<<e>>)
    BY <2>1 DEF Batch
  <2>3. QED BY <2>1, <2>2, AppendFirstKeeps
<1> QED BY <1>1, <1>2 DEF WithdrawEntry

LEMMA ApplyKeeps ==
  ASSUME PackagesInv, NEW p \in Putter, Apply(p)
  PROVE  PackagesInv'
<1>1. Good(ProjectAll(shown, putting[p]))
  BY ProjectAllGood DEF PackagesInv, Apply
<1>2. shown' = ProjectAll(shown, putting[p]) /\ stored' = stored
  BY DEF Apply
<1>3. Good(stored)' /\ Good(shown)'
  BY <1>1, <1>2 DEF PackagesInv
<1>4. putting' = [putting EXCEPT ![p] = NoRecord]
  BY DEF Apply
<1>5. /\ putting' = [q \in Putter |-> putting'[q]]
      /\ \A q \in Putter : putting'[q] # NoRecord => Batch(putting'[q])
  BY <1>4 DEF PackagesInv
<1> QED BY <1>3, <1>5 DEF PackagesInv

LEMMA PackagesInitInv == PackagesInit => PackagesInv
<1> SUFFICES ASSUME PackagesInit PROVE PackagesInv
  OBVIOUS
<1> DEFINE held == [i \in Package |-> NoRecord]
<1>1. held \in Held /\ Active(held) = {}
  BY DEF Held, Active
<1> HIDE DEF held
<1>2. Sound(held)
  BY <1>1, FS_EmptySet DEF Sound, Offers
<1>3. Single([k \in Key |-> {}])
  BY DEF Single
<1>4. Good(Nothing)
  BY <1>1, <1>2, <1>3, GoodView DEF Nothing, held
<1>5. /\ putting = [q \in Putter |-> putting[q]]
      /\ \A q \in Putter : putting[q] = NoRecord
  BY DEF PackagesInit
<1> QED BY <1>4, <1>5 DEF PackagesInit, PackagesInv

LEMMA PackagesStep == PackagesInv /\ [PackagesNext]_packageVars => PackagesInv'
<1> SUFFICES ASSUME PackagesInv, [PackagesNext]_packageVars PROVE PackagesInv'
  OBVIOUS
<1>1. ASSUME NEW i \in Package, NEW m \in Manifest, NEW b \in Bound, Install(i, m, b)
      PROVE  PackagesInv'
  BY <1>1, HandlerKeeps
<1>2. ASSUME NEW i \in Package, NEW caps \in SUBSET Needs, Grant(i, caps) PROVE PackagesInv'
  BY <1>2, HandlerKeeps
<1>3. ASSUME NEW i \in Package, NEW t \in 1..MaxTime, Activate(i, t) PROVE PackagesInv'
  BY <1>3, HandlerKeeps
<1>4. ASSUME NEW i \in Package, Deactivate(i) \/ RemovePackage(i) PROVE PackagesInv'
  BY <1>4, HandlerKeeps
<1>5. ASSUME NEW p \in Putter, NEW i \in Package, NEW m \in Manifest, NEW t \in 1..MaxTime,
             PutEntry(p, i, m, t)
      PROVE  PackagesInv'
  BY <1>5, PutKeeps
<1>6. ASSUME NEW p \in Putter, NEW d \in Declared,
             WithdrawEntry(p, d) \/ \E is \in Declaration : DeclareEntry(p, d, is)
      PROVE  PackagesInv'
  BY <1>6, PutKeeps
<1>7. ASSUME NEW p \in Putter, Apply(p) PROVE PackagesInv'
  BY <1>7, ApplyKeeps
<1>8. CASE Restart
  <2>1. shown' = stored /\ stored' = stored /\ putting' = [p \in Putter |-> NoRecord]
    BY <1>8 DEF Restart
  <2>2. Good(stored)' /\ Good(shown)'
    BY <2>1 DEF PackagesInv
  <2>3. QED BY <2>1, <2>2 DEF PackagesInv
<1>9. CASE UNCHANGED packageVars
  BY <1>9 DEF PackagesInv, packageVars
<1> QED BY <1>1, <1>2, <1>3, <1>4, <1>5, <1>6, <1>7, <1>8, <1>9 DEF PackagesNext, Bound

(* At most one element: at most one in number.                             *)
LEMMA AtMostOne ==
  ASSUME NEW S, \A x, y \in S : x = y
  PROVE  Cardinality(S) <= 1 /\ Cardinality(S) \in Nat
<1>1. CASE S = {}
  <2>1. Cardinality(S) = 0
    BY <1>1, FS_EmptySet
  <2>2. QED BY <2>1
<1>2. CASE S # {}
  <2>1. PICK x \in S : TRUE
    BY <1>2
  <2>2. S = {x}
    BY <2>1
  <2>3. Cardinality({x}) = 1
    BY FS_Singleton
  <2>4. QED BY <2>2, <2>3
<1> QED BY <1>1, <1>2

LEMMA GoodSays ==
  ASSUME PackagesInv
  PROVE  PackagesTypeOK /\ NoRivals
<1>1. {stored, shown} \subseteq Registry
  BY DEF PackagesInv, Good
<1>2. \A k \in Key : Cardinality(shown.entries[k]) <= 1
  <2>1. TAKE k \in Key
  <2>2. \A x, y \in shown.entries[k] : x = y
    BY DEF PackagesInv, Good, Single
  <2>3. QED BY <2>2, AtMostOne
<1>3. ASSUME NEW v \in {shown, stored}, NEW c \in Capability
      PROVE  Cardinality(Offers(v.held, c)) <= (IF c = BuiltIn THEN 0 ELSE 1)
  <2>1. Sound(v.held)
    BY DEF PackagesInv, Good
  <2>2. CASE c = BuiltIn
    <3>1. Offers(v.held, c) = {}
      BY <2>1, <2>2 DEF Sound
    <3>2. Cardinality({}) = 0
      BY FS_EmptySet
    <3>3. QED BY <2>2, <3>1, <3>2
  <2>3. CASE c # BuiltIn
    <3>1. \A i, j \in Offers(v.held, c) : i = j
      BY <2>1 DEF Sound
    <3>2. Cardinality(Offers(v.held, c)) <= 1
      BY <3>1, AtMostOne
    <3>3. QED BY <2>3, <3>2
  <2>4. QED BY <2>2, <2>3
<1> QED BY <1>1, <1>2, <1>3 DEF PackagesTypeOK, NoRivals

(* Both copies of the registry are typed, and rebuild_entries never leaves *)
(* two definitions of one adapter entry.                                   *)
THEOREM PackagesCorrect == PackagesSpec => []PackagesTypeOK
<1>1. PackagesSpec => []PackagesInv
  BY PackagesInitInv, PackagesStep, PTL DEF PackagesSpec
<1>2. PackagesInv => PackagesTypeOK
  BY GoodSays
<1> QED BY <1>1, <1>2, PTL

(* In every view and after every replay of the log, an active provider of a *)
(* capability that has no binding for it is the only such one, and there is *)
(* none of the capability that the core provides: validate_activation, when *)
(* an event is applied, is enough although put_registry_entry appends       *)
(* without the lock and without looking.                                   *)
THEOREM ProvidersAreAlone == PackagesSpec => []NoRivals
<1>1. PackagesSpec => []PackagesInv
  BY PackagesInitInv, PackagesStep, PTL DEF PackagesSpec
<1>2. PackagesInv => NoRivals
  BY GoodSays
<1> QED BY <1>1, <1>2, PTL

-----------------------------------------------------------------------------
USE VaultAssumption, AdapterAssumption

(***************************************************************************)
(* Vaults.                                                                 *)
(***************************************************************************)
(* A handler that has begun has a request, one that fills a note has its   *)
(* text, and one that removes a note was asked to.                         *)
Begun ==
  \A w \in Writer :
    /\ step[w] # "idle" => asked[w] \in Requests
    /\ step[w] = "fill" => asked[w].text \in Text
    /\ step[w] \in {"find", "remove"} => asked[w].do = "delete"

(* Nothing but creations, in a vault whose set-up has not failed: a note   *)
(* that a handler has opened is its own, until it has written it and after. *)
OnlyCreations == ~wiped /\ \A w \in Writer : step[w] # "idle" => Creates(w)
Holds(w) == step[w] \in {"fill", "snapshot", "ok"}
Owned ==
  OnlyCreations =>
    \A w \in Writer : Holds(w) =>
      /\ file[asked[w].target] =
           IF step[w] = "fill" THEN Truncated ELSE Addressed(asked[w].text)
      /\ \A v \in Writer : Holds(v) /\ asked[v].target = asked[w].target => v = w

VaultsInv == VaultsTypeOK /\ Begun /\ Owned

LEMMA RequestTyped ==
  ASSUME NEW r \in Requests
  PROVE  /\ r.do \in {"write", "delete"} /\ r.path \in NotePath /\ r.target \in NotePath
         /\ r.text \in Text \cup {NoNote} /\ r.create \in BOOLEAN /\ r.cid \in Text \cup {NoNote}
<1> DEFINE A == {WriteRequest(p, q, t, TRUE, NoNote) : p, q \in NotePath, t \in Text \cup {NoNote}}
           B == {WriteRequest(p, q, t, FALSE, e) : p, q \in NotePath, t, e \in Text \cup {NoNote}}
           C == {NoteRequest("delete", p, p, NoNote, FALSE, NoNote) : p \in NotePath}
<1>1. CASE r \in A
  <2>1. PICK p \in NotePath, q \in NotePath, t \in Text \cup {NoNote} :
          r = WriteRequest(p, q, t, TRUE, NoNote)
    BY <1>1 DEF WriteRequest, NoteRequest
  <2>2. QED BY <2>1 DEF WriteRequest, NoteRequest
<1>2. CASE r \in B
  <2>1. PICK p \in NotePath, q \in NotePath, t \in Text \cup {NoNote}, e \in Text \cup {NoNote} :
          r = WriteRequest(p, q, t, FALSE, e)
    BY <1>2 DEF WriteRequest, NoteRequest
  <2>2. QED BY <2>1 DEF WriteRequest, NoteRequest
<1>3. CASE r \in C
  <2>1. PICK p \in NotePath : r = NoteRequest("delete", p, p, NoNote, FALSE, NoNote)
    BY <1>3
  <2>2. QED BY <2>1 DEF NoteRequest
<1>4. r \in A \/ r \in B \/ r \in C
  BY DEF Requests, WriteRequest, NoteRequest
<1> HIDE DEF A, B, C
<1> QED BY <1>1, <1>2, <1>3, <1>4

LEMMA NotesTyped ==
  /\ \A t \in Text : Addressed(t) \in Notes /\ Addressed(t) # NoNote
  /\ Truncated \in Notes /\ Truncated # NoNote
BY DEF Notes

LEMMA VaultsInitInv == VaultsInit => VaultsInv
<1> SUFFICES ASSUME VaultsInit PROVE VaultsInv
  OBVIOUS
<1>1. VaultsTypeOK
  BY DEF VaultsInit, VaultsTypeOK
<1>2. \A w \in Writer : step[w] = "idle"
  BY DEF VaultsInit
<1> QED BY <1>1, <1>2 DEF VaultsInv, Begun, Owned, Holds

LEMMA VaultBeginTyped ==
  ASSUME VaultsInv, NEW w \in Writer, BeginNote(w)
  PROVE  VaultsTypeOK' /\ Begun'
<1>1. PICK r \in Requests :
        /\ asked' = [asked EXCEPT ![w] = r]
        /\ step' = [step EXCEPT ![w] = IF r.do = "delete" THEN "find" ELSE "base"]
  BY DEF BeginNote
<1>2. was' \in [Writer -> [NotePath -> Notes \cup {NoNote}] \cup {NoNote}]
  BY DEF BeginNote, VaultsInv, VaultsTypeOK
<1>3. VaultsTypeOK'
  BY <1>1, <1>2 DEF BeginNote, VaultsInv, VaultsTypeOK
<1>4. \A v \in Writer \ {w} : asked'[v] = asked[v] /\ step'[v] = step[v]
  BY <1>1 DEF VaultsInv, VaultsTypeOK
<1>5. /\ asked'[w] = r /\ step'[w] # "fill"
      /\ step'[w] \in {"find", "remove"} => r.do = "delete"
  BY <1>1 DEF VaultsInv, VaultsTypeOK
<1>6. Begun'
  BY <1>4, <1>5 DEF VaultsInv, Begun
<1> QED BY <1>3, <1>6

(* A step of a handler: where it goes, and what it makes of the file.      *)
LEMMA VaultStepTyped ==
  ASSUME VaultsInv, NEW w \in Writer, CheckBase(w) \/ CheckFree(w) \/ MoveNote(w) \/ WriteStep(w)
  PROVE  /\ VaultsTypeOK' /\ Begun'
         /\ step[w] # "idle" /\ step'[w] # "idle" /\ asked' = asked /\ wiped' = wiped
         /\ \A v \in Writer \ {w} : step'[v] = step[v]
<1>1. step[w] # "idle" /\ asked' = asked /\ wiped' = wiped /\ vault' = vault /\ was' = was
  BY DEF CheckBase, CheckFree, MoveNote, WriteStep, OpenNote, FillNote, Snapshot, DeleteNote,
         Steps, IoError
<1>2. asked[w] \in Requests
  BY <1>1 DEF VaultsInv, Begun
<1>3. \E to \in {"free", "move", "write", "fill", "remove", "snapshot", "ok", "refused"} :
        /\ step' = [step EXCEPT ![w] = to]
        /\ to = "fill" => asked[w].text # NoNote
        /\ to = "remove" => step[w] = "find"
  BY DEF CheckBase, CheckFree, MoveNote, WriteStep, OpenNote, FillNote, Snapshot, DeleteNote,
         Steps, IoError
<1>4. step' \in [Writer -> {"idle", "base", "free", "move", "write", "fill", "find", "remove",
                          "snapshot", "ok", "refused"}]
  BY <1>3 DEF VaultsInv, VaultsTypeOK
<1>5. /\ step'[w] # "idle"
      /\ step'[w] = "fill" => asked[w].text # NoNote
      /\ step'[w] \in {"find", "remove"} => step[w] = "find"
      /\ \A v \in Writer \ {w} : step'[v] = step[v]
  BY <1>3 DEF VaultsInv, VaultsTypeOK
<1>6. broken' \subseteq Writer
  BY DEF CheckBase, CheckFree, MoveNote, WriteStep, OpenNote, FillNote, Snapshot, DeleteNote,
         Steps, IoError, VaultsInv, VaultsTypeOK
<1>7. file' \in [NotePath -> Notes \cup {NoNote}]
  <2>1. asked[w].path \in NotePath /\ asked[w].target \in NotePath
    BY <1>2, RequestTyped
  <2>2. file \in [NotePath -> Notes \cup {NoNote}]
    BY DEF VaultsInv, VaultsTypeOK
  <2>3. CASE CheckBase(w) \/ CheckFree(w)
    BY <2>2, <2>3 DEF CheckBase, CheckFree
  <2>4. CASE MoveNote(w)
    BY <2>1, <2>2, <2>4 DEF MoveNote
  <2>5. CASE OpenNote(w)
    BY <2>1, <2>2, <2>5, NotesTyped DEF OpenNote
  <2>6. CASE FillNote(w)
    <3>1. step[w] = "fill"
      BY <2>6 DEF FillNote, Steps, IoError
    <3>2. Addressed(asked[w].text) \in Notes
      BY <3>1, NotesTyped DEF VaultsInv, Begun
    <3>3. QED BY <2>1, <2>2, <2>6, <3>2 DEF FillNote
  <2>7. CASE Snapshot(w)
    BY <2>1, <2>2, <2>7 DEF Snapshot
  <2>8. CASE DeleteNote(w)
    BY <2>1, <2>2, <2>8 DEF DeleteNote
  <2>9. QED BY <2>3, <2>4, <2>5, <2>6, <2>7, <2>8 DEF WriteStep
<1>8. VaultsTypeOK'
  BY <1>1, <1>4, <1>6, <1>7 DEF VaultsInv, VaultsTypeOK
<1>9. Begun'
  <2>1. asked[w].text \in Text \cup {NoNote}
    BY <1>2, RequestTyped
  <2>2. QED BY <1>1, <1>2, <1>5, <2>1 DEF VaultsInv, Begun
<1> QED BY <1>1, <1>5, <1>8, <1>9

LEMMA BeginOwned ==
  ASSUME VaultsInv, NEW w \in Writer, BeginNote(w)
  PROVE  Owned'
<1>1. PICK r \in Requests :
        /\ asked' = [asked EXCEPT ![w] = r]
        /\ step' = [step EXCEPT ![w] = IF r.do = "delete" THEN "find" ELSE "base"]
  BY DEF BeginNote
<1>2. step[w] = "idle" /\ file' = file /\ wiped' = wiped
  BY DEF BeginNote
<1>3. /\ \A v \in Writer \ {w} : asked'[v] = asked[v] /\ step'[v] = step[v]
      /\ step'[w] \in {"find", "base"}
  BY <1>1 DEF VaultsInv, VaultsTypeOK
<1>4. SUFFICES ASSUME OnlyCreations' PROVE Owned'
  BY DEF Owned
<1>5. OnlyCreations
  BY <1>2, <1>3, <1>4 DEF OnlyCreations, Creates, Moves
<1>6. \A v \in Writer : Holds(v)' => v # w /\ Holds(v)
  BY <1>3 DEF Holds
<1> QED BY <1>2, <1>3, <1>5, <1>6 DEF VaultsInv, Owned

(* A creation that opens its note finds none, one that has written it keeps *)
(* it, and one that fails gives it up.                                     *)
LEMMA StepOwned ==
  ASSUME VaultsInv, NEW w \in Writer, CheckBase(w) \/ CheckFree(w) \/ MoveNote(w) \/ WriteStep(w)
  PROVE  Owned'
<1>1. /\ step[w] # "idle" /\ asked' = asked /\ wiped' = wiped
      /\ \A v \in Writer \ {w} : step'[v] = step[v]
      /\ VaultsTypeOK'
  BY VaultStepTyped
<1>2. SUFFICES ASSUME OnlyCreations' PROVE Owned'
  BY DEF Owned
<1>3. OnlyCreations
  <2>1. \A v \in Writer : step[v] # "idle" => step'[v] # "idle"
    BY <1>1, VaultStepTyped
  <2>2. QED BY <1>1, <1>2, <2>1 DEF OnlyCreations, Creates, Moves
<1>4. Creates(w) /\ asked[w] \in Requests /\ step[w] \notin {"find", "remove"}
  BY <1>1, <1>3 DEF OnlyCreations, VaultsInv, Begun, Creates
<1> DEFINE p == asked[w].target
<1>5. /\ p \in NotePath /\ asked[w].text \in Text /\ asked[w].do = "write" /\ asked[w].create
      /\ asked[w].path = p
  BY <1>4, RequestTyped DEF Creates, Moves
<1>6. \A v \in Writer : Holds(v) => file[asked[v].target] # NoNote
  <2>1. \A v \in Writer : Holds(v) /\ step[v] # "fill" => Addressed(asked[v].text) # NoNote
    BY <1>3, NotesTyped, RequestTyped DEF Holds, OnlyCreations, Creates, VaultsInv, Begun
  <2>2. QED BY <1>3, <2>1, NotesTyped DEF VaultsInv, Owned
<1>7. \A q \in NotePath \ {p} : file'[q] = file[q]
  BY <1>5 DEF CheckBase, CheckFree, MoveNote, Moves, WriteStep, OpenNote, FillNote, Snapshot,
     DeleteNote, VaultsInv, VaultsTypeOK
<1>8. CASE ~Holds(w)' /\ Holds(w)
  <2>1. \A v \in Writer : Holds(v) /\ asked[v].target = p => v = w
    BY <1>3, <1>8 DEF VaultsInv, Owned
  <2>2. \A v \in Writer : Holds(v)' => v # w /\ Holds(v) /\ asked[v].target # p
    BY <1>1, <1>8, <2>1 DEF Holds
  <2>3. \A v \in Writer : Holds(v) => asked[v].target \in NotePath
    BY RequestTyped DEF VaultsInv, Begun, Holds
  <2>4. QED BY <1>1, <1>3, <1>7, <2>2, <2>3 DEF VaultsInv, Owned
<1>9. CASE ~Holds(w)' /\ ~Holds(w)
  <2>1. file' = file
    BY <1>4, <1>5, <1>9 DEF CheckBase, CheckFree, MoveNote, Moves, WriteStep, OpenNote, FillNote,
       Snapshot, DeleteNote, Steps, IoError, Holds, VaultsInv, VaultsTypeOK
  <2>2. \A v \in Writer : Holds(v)' => v # w /\ Holds(v)
    BY <1>1, <1>9 DEF Holds
  <2>3. QED BY <1>1, <1>3, <2>1, <2>2 DEF VaultsInv, Owned
<1>10. CASE Holds(w)' /\ Holds(w)
  <2>1. file'[p] = IF step'[w] = "fill" THEN Truncated ELSE Addressed(asked[w].text)
    <3>1. file[p] # NoNote
      BY <1>6, <1>10
    <3>2. CASE FillNote(w)
      BY <1>5, <1>10, <3>1, <3>2 DEF FillNote, Steps, IoError, Exists, Holds, VaultsInv, VaultsTypeOK
    <3>3. CASE Snapshot(w)
      <4>1. step[w] = "snapshot"
        BY <3>3 DEF Snapshot, Steps, IoError
      <4>2. file[p] = Addressed(asked[w].text)
        BY <1>3, <1>10, <4>1 DEF VaultsInv, Owned
      <4>3. step'[w] # "refused"
        BY <1>10 DEF Holds
      <4>4. file' = file /\ step'[w] = "ok"
        BY <3>1, <3>3, <4>3 DEF Snapshot, Steps, IoError, Exists, VaultsInv, VaultsTypeOK
      <4>5. QED BY <4>2, <4>4
    <3>4. QED BY <1>5, <1>10, <3>2, <3>3 DEF CheckBase, CheckFree, MoveNote, WriteStep, OpenNote,
              DeleteNote, Steps, Holds
  <2>2. \A v \in Writer : Holds(v) /\ asked[v].target = p => v = w
    BY <1>3, <1>10 DEF VaultsInv, Owned
  <2>3. \A v \in Writer \ {w} : Holds(v)' => Holds(v) /\ asked[v].target # p /\ asked[v].target \in NotePath
    BY <1>1, <2>2, RequestTyped DEF Holds, VaultsInv, Begun
  <2>4. QED BY <1>1, <1>3, <1>7, <2>1, <2>3 DEF VaultsInv, Owned
<1>11. CASE Holds(w)' /\ ~Holds(w)
  <2>1. OpenNote(w)
    BY <1>4, <1>5, <1>11 DEF CheckBase, CheckFree, MoveNote, WriteStep, OpenNote, FillNote, Snapshot,
       DeleteNote, Steps, IoError, Holds, VaultsInv, VaultsTypeOK
  <2>2. file[p] = NoNote /\ step'[w] = "fill" /\ file'[p] = Truncated
    BY <1>5, <1>11, <2>1 DEF OpenNote, Opens, Exists, Steps, Holds, VaultsInv, VaultsTypeOK
  <2>3. \A v \in Writer \ {w} : Holds(v)' => Holds(v) /\ asked[v].target # p /\ asked[v].target \in NotePath
    BY <1>1, <1>6, <2>2, RequestTyped DEF Holds, VaultsInv, Begun
  <2>4. QED BY <1>1, <1>3, <1>7, <2>2, <2>3 DEF VaultsInv, Owned
<1> QED BY <1>8, <1>9, <1>10, <1>11

LEMMA VaultsStep == VaultsInv /\ [VaultsNext]_vaultVars => VaultsInv'
<1> SUFFICES ASSUME VaultsInv, [VaultsNext]_vaultVars PROVE VaultsInv'
  OBVIOUS
<1>1. CASE CreateVault
  <2>1. asked' = asked /\ step' = step /\ (wiped' \/ (file' = file /\ wiped' = wiped))
    BY <1>1 DEF CreateVault
  <2>2. VaultsTypeOK'
    BY <1>1 DEF CreateVault, VaultsInv, VaultsTypeOK
  <2>3. Begun'
    BY <2>1 DEF VaultsInv, Begun
  <2>4. Owned'
    BY <2>1 DEF VaultsInv, Owned, OnlyCreations, Creates, Moves, Holds
  <2>5. QED BY <2>2, <2>3, <2>4 DEF VaultsInv
<1>2. ASSUME NEW w \in Writer, BeginNote(w) PROVE VaultsInv'
  BY <1>2, VaultBeginTyped, BeginOwned DEF VaultsInv
<1>3. ASSUME NEW w \in Writer, CheckBase(w) \/ CheckFree(w) \/ MoveNote(w) \/ WriteStep(w)
      PROVE  VaultsInv'
  BY <1>3, VaultStepTyped, StepOwned DEF VaultsInv
<1>4. CASE UNCHANGED vaultVars
  BY <1>4 DEF VaultsInv, VaultsTypeOK, Begun, Owned, OnlyCreations, Creates, Moves, Holds, vaultVars
<1> QED BY <1>1, <1>2, <1>3, <1>4 DEF VaultsNext

(* The variables of a vault have their types.                              *)
THEOREM VaultsCorrect == VaultsSpec => []VaultsTypeOK
<1>1. VaultsInv => VaultsTypeOK
  BY DEF VaultsInv
<1> QED BY <1>1, VaultsInitInv, VaultsStep, PTL DEF VaultsSpec

(* Of any number of creations that race for a path at most one is answered *)
(* with success, and the note is the one it asked for, whatever failed and *)
(* was taken back beside it: create_new is the only thing that keeps       *)
(* handlers apart, and what takes a failed creation back removes nothing    *)
(* but its own file.                                                       *)
THEOREM CreationsAreExact == VaultsSpec => []CreatesAreExact
<1>1. VaultsInv => CreatesAreExact
  BY DEF VaultsInv, Owned, OnlyCreations, CreatesAreExact, Created, Holds
<1> QED BY <1>1, VaultsInitInv, VaultsStep, PTL DEF VaultsSpec

(***************************************************************************)
(* Refusals.  A handler that nothing has overlapped runs alone, and what   *)
(* it finds is what it has left since it began: its checks come before its *)
(* first change, except that it opens the note after a rename.             *)
(***************************************************************************)
OnlyRuns(w) == \A v \in Writer : step[v] \notin {"idle", "ok", "refused"} => v = w

SinceBegun(w) ==
  /\ step[w] \in {"base", "free", "move", "find", "remove"} => file = was[w]
  /\ step[w] \in {"move", "write", "fill", "snapshot"} /\ asked[w].create =>
       was[w][asked[w].path] = NoNote /\ was[w][asked[w].target] = NoNote
  /\ step[w] = "write" =>
       file = was[w] \/ (file[asked[w].target] # NoNote /\ ~asked[w].create)
  /\ step[w] = "fill" => file[asked[w].target] = Truncated
  /\ step[w] = "snapshot" /\ asked[w].do = "write" => file[asked[w].target] # NoNote
  /\ step[w] \in {"fill", "snapshot"} /\ Creates(w) =>
       \A p \in NotePath : p # asked[w].target => file[p] = was[w][p]

Apart ==
  \A w \in Writer :
    /\ step[w] = "idle" => was[w] = NoNote
    /\ step[w] \notin {"idle", "ok", "refused"} /\ was[w] # NoNote =>
         OnlyRuns(w) /\ (~wiped => SinceBegun(w))

ApartInv == VaultsInv /\ Apart

LEMMA Deletes ==
  ASSUME NEW r \in Requests, r.do = "delete"
  PROVE  ~r.create
BY DEF Requests, WriteRequest, NoteRequest

LEMMA BeginApart ==
  ASSUME ApartInv, NEW w \in Writer, BeginNote(w)
  PROVE  Apart'
<1>1. PICK r \in Requests :
        /\ asked' = [asked EXCEPT ![w] = r]
        /\ step' = [step EXCEPT ![w] = IF r.do = "delete" THEN "find" ELSE "base"]
  BY DEF BeginNote
<1>2. step[w] = "idle" /\ file' = file /\ wiped' = wiped
  BY DEF BeginNote
<1>3. /\ \A v \in Writer \ {w} : asked'[v] = asked[v] /\ step'[v] = step[v]
      /\ step'[w] \in {"find", "base"}
  BY <1>1 DEF ApartInv, VaultsInv, VaultsTypeOK
<1>4. was[w] = NoNote /\ was \in [Writer -> [NotePath -> Notes \cup {NoNote}] \cup {NoNote}]
  BY <1>2 DEF ApartInv, Apart, VaultsInv, VaultsTypeOK
<1>5. CASE Running = {}
  <2>1. was' = [was EXCEPT ![w] = file]
    BY <1>5 DEF BeginNote
  <2>2. \A v \in Writer \ {w} : was'[v] = was[v] /\ step[v] \in {"idle", "ok", "refused"}
    BY <1>4, <1>5, <2>1 DEF Running
  <2>3. was'[w] = file'
    BY <1>2, <1>4, <2>1
  <2>4. SinceBegun(w)'
    BY <1>3, <2>3 DEF SinceBegun
  <2>5. OnlyRuns(w)'
    BY <1>3, <2>2 DEF OnlyRuns
  <2>6. QED BY <1>3, <2>2, <2>4, <2>5 DEF ApartInv, Apart
<1>6. CASE Running # {}
  <2>1. was' = [v \in Writer |-> IF v \in Running THEN NoNote ELSE was[v]]
    BY <1>6 DEF BeginNote
  <2>2. \A v \in Writer : step'[v] \notin {"idle", "ok", "refused"} => was'[v] = NoNote
    BY <1>3, <1>4, <2>1 DEF Running
  <2>3. \A v \in Writer : step'[v] = "idle" => was'[v] = NoNote
    BY <1>3, <2>1 DEF ApartInv, Apart
  <2>4. QED BY <2>2, <2>3 DEF Apart
<1> QED BY <1>5, <1>6

(* A handler that goes on, and one that is refused.                        *)
LEMMA StepApart ==
  ASSUME ApartInv, NEW w \in Writer, was[w] # NoNote, ~wiped,
         CheckBase(w) \/ CheckFree(w) \/ MoveNote(w) \/ WriteStep(w)
  PROVE  /\ step'[w] \notin {"ok", "refused"} => SinceBegun(w)'
         /\ step'[w] = "refused" /\ (w \notin broken' \/ Creates(w)) => file' = was[w]
<1>1. /\ VaultsInv /\ step[w] \notin {"idle", "ok", "refused"} /\ asked' = asked /\ was' = was
  BY VaultStepTyped DEF ApartInv, CheckBase, CheckFree, MoveNote, WriteStep, OpenNote, FillNote,
     Snapshot, DeleteNote, Steps, IoError
<1>2. SinceBegun(w)
  BY <1>1 DEF ApartInv, Apart
<1>3. PICK r \in Requests : r = asked[w]
  BY <1>1 DEF VaultsInv, Begun
<1>4. /\ r.do \in {"write", "delete"} /\ r.path \in NotePath /\ r.target \in NotePath
      /\ r.text \in Text \cup {NoNote} /\ r.create \in BOOLEAN
  BY RequestTyped
<1>5. /\ file \in [NotePath -> Notes \cup {NoNote}] /\ was[w] \in [NotePath -> Notes \cup {NoNote}]
      /\ step \in [Writer -> {"idle", "base", "free", "move", "write", "fill", "find", "remove",
                          "snapshot", "ok", "refused"}]
      /\ file' \in [NotePath -> Notes \cup {NoNote}]
  BY <1>1, VaultStepTyped DEF VaultsInv, VaultsTypeOK
<1>6. CASE CheckBase(w)
  <2>1. step[w] = "base" /\ step'[w] \in {"free", "refused"} /\ file' = file
    BY <1>5, <1>6 DEF CheckBase, Steps
  <2>2. QED BY <1>1, <1>2, <2>1 DEF SinceBegun
<1>7. CASE CheckFree(w)
  <2>1. /\ step[w] = "free" /\ step'[w] \in {"move", "refused"} /\ file' = file
        /\ step'[w] = "move" /\ r.create => file[r.path] = NoNote /\ file[r.target] = NoNote
    BY <1>3, <1>5, <1>7 DEF CheckFree, Steps, Exists
  <2>2. file = was[w]
    BY <1>2, <2>1 DEF SinceBegun
  <2>3. QED BY <1>1, <1>3, <2>1, <2>2 DEF SinceBegun
<1>8. CASE MoveNote(w)
  <2>1. step[w] = "move" /\ step'[w] = "write"
    BY <1>5, <1>8 DEF MoveNote, Steps
  <2>2. /\ file = was[w]
        /\ r.create => was[w][r.path] = NoNote /\ was[w][r.target] = NoNote
    BY <1>2, <1>3, <2>1 DEF SinceBegun
  <2>3. \/ file' = file
        \/ file[r.path] # NoNote /\ r.path # r.target /\ file'[r.target] = file[r.path]
    BY <1>3, <1>4, <1>5, <1>8 DEF MoveNote, Moves, Exists
  <2>4. file' = was[w] \/ (file'[r.target] # NoNote /\ ~r.create)
    BY <2>2, <2>3
  <2>5. QED BY <1>1, <1>3, <2>1, <2>2, <2>4 DEF SinceBegun
<1>9. CASE OpenNote(w)
  <2>1. step[w] = "write" /\ broken' = broken
    BY <1>9 DEF OpenNote
  <2>2. /\ file = was[w] \/ (file[r.target] # NoNote /\ ~r.create)
        /\ r.create => was[w][r.path] = NoNote /\ was[w][r.target] = NoNote
    BY <1>2, <1>3, <2>1 DEF SinceBegun
  <2>3. CASE step'[w] = "refused"
    <3>1. file' = file /\ (file[r.target] = NoNote \/ r.create)
      BY <1>3, <1>5, <1>9, <2>3 DEF OpenNote, Opens, Exists, Steps
    <3>2. QED BY <2>2, <2>3, <3>1
  <2>4. CASE step'[w] = "snapshot"
    <3>1. file' = file /\ file[r.target] # NoNote /\ r.text = NoNote
      BY <1>3, <1>5, <1>9, <2>4 DEF OpenNote, Exists, Steps
    <3>2. ~Creates(w)'
      BY <1>1, <1>3, <3>1 DEF Creates
    <3>3. QED BY <1>1, <1>3, <2>2, <2>4, <3>1, <3>2 DEF SinceBegun
  <2>5. CASE step'[w] = "fill"
    <3>1. file' = [file EXCEPT ![r.target] = Truncated]
      BY <1>3, <1>5, <1>9, <2>5 DEF OpenNote, Steps
    <3>2. file'[r.target] = Truncated /\ \A p \in NotePath : p # r.target => file'[p] = file[p]
      BY <1>4, <1>5, <3>1
    <3>3. Creates(w)' => r.create
      BY <1>1, <1>3 DEF Creates
    <3>4. QED BY <1>1, <1>3, <2>2, <2>5, <3>2, <3>3 DEF SinceBegun
  <2>6. step'[w] \in {"refused", "snapshot", "fill"}
    BY <1>5, <1>9 DEF OpenNote, Steps
  <2>7. QED BY <2>3, <2>4, <2>5, <2>6
<1>10. CASE FillNote(w)
  <2>1. step[w] = "fill"
    BY <1>10 DEF FillNote, Steps, IoError
  <2>2. /\ file[r.target] = Truncated
        /\ r.create => was[w][r.path] = NoNote /\ was[w][r.target] = NoNote
        /\ Creates(w) => \A p \in NotePath : p # r.target => file[p] = was[w][p]
    BY <1>2, <1>3, <2>1 DEF SinceBegun
  <2>3. Truncated # NoNote /\ (r.text \in Text => Addressed(r.text) # NoNote) /\ r.text \in Text
    BY <1>1, <1>3, <2>1, NotesTyped DEF VaultsInv, Begun
  <2>4. Creates(w)' <=> Creates(w)
    BY <1>1 DEF Creates, Moves
  <2>5. CASE step'[w] = "snapshot"
    <3>1. file' = [file EXCEPT ![r.target] = Addressed(r.text)]
      BY <1>3, <1>5, <1>10, <2>2, <2>3, <2>5 DEF FillNote, IoError, Steps, Exists
    <3>2. file'[r.target] # NoNote /\ \A p \in NotePath : p # r.target => file'[p] = file[p]
      BY <1>4, <1>5, <2>3, <3>1
    <3>3. QED BY <1>1, <1>3, <2>2, <2>4, <2>5, <3>2 DEF SinceBegun
  <2>6. CASE step'[w] = "refused"
    <3>1. w \in broken' /\ file' = IF r.create THEN [file EXCEPT ![r.target] = NoNote] ELSE file
      BY <1>3, <1>5, <1>10, <2>6 DEF FillNote, IoError, Steps
    <3>2. SUFFICES ASSUME Creates(w) PROVE file' = was[w]
      BY <2>6, <3>1
    <3>3. r.create
      BY <1>3, <3>2 DEF Creates
    <3>4. \A p \in NotePath : file'[p] = was[w][p]
      BY <1>4, <1>5, <2>2, <3>1, <3>2, <3>3
    <3>5. QED BY <1>5, <3>4
  <2>7. step'[w] \in {"snapshot", "refused"}
    BY <1>5, <1>10 DEF FillNote, IoError, Steps
  <2>8. QED BY <2>5, <2>6, <2>7
<1>11. CASE Snapshot(w)
  <2>1. step[w] = "snapshot" /\ step'[w] \in {"ok", "refused"}
    BY <1>5, <1>11 DEF Snapshot, Steps, IoError
  <2>2. /\ r.do = "write" => file[r.target] # NoNote
        /\ r.create => was[w][r.path] = NoNote /\ was[w][r.target] = NoNote
        /\ Creates(w) => \A p \in NotePath : p # r.target => file[p] = was[w][p]
    BY <1>2, <1>3, <2>1 DEF SinceBegun
  <2>3. SUFFICES ASSUME step'[w] = "refused", w \notin broken' \/ Creates(w) PROVE file' = was[w]
    BY <2>1
  <2>4. w \in broken' /\ file' = IF r.create THEN [file EXCEPT ![r.target] = NoNote] ELSE file
    BY <1>3, <1>4, <1>5, <1>11, <2>2, <2>3 DEF Snapshot, Steps, IoError, Exists
  <2>5. r.create /\ Creates(w)
    BY <1>3, <2>3, <2>4 DEF Creates
  <2>6. \A p \in NotePath : file'[p] = was[w][p]
    BY <1>4, <1>5, <2>2, <2>4, <2>5
  <2>7. QED BY <1>5, <2>6
<1>12. CASE DeleteNote(w)
  <2>1. step[w] \in {"find", "remove"} /\ file = was[w]
    BY <1>2, <1>12 DEF DeleteNote, Steps, SinceBegun
  <2>2. r.do = "delete"
    BY <1>1, <1>3, <2>1 DEF VaultsInv, Begun
  <2>3. CASE step'[w] = "refused"
    <3>1. file' = file \/ (file[r.path] = NoNote /\ file' = [file EXCEPT ![r.path] = NoNote])
      BY <1>3, <1>5, <1>12, <2>3 DEF DeleteNote, Steps, Exists
    <3>2. file' = file
      BY <1>4, <1>5, <3>1
    <3>3. QED BY <2>1, <2>3, <3>2
  <2>4. CASE step'[w] = "remove"
    <3>1. file' = file
      BY <1>5, <1>12, <2>4 DEF DeleteNote, Steps
    <3>2. QED BY <1>1, <2>1, <2>4, <3>1 DEF SinceBegun
  <2>5. CASE step'[w] = "snapshot"
    <3>1. ~r.create
      BY <2>2, Deletes
    <3>2. ~Creates(w)'
      BY <1>1, <1>3, <2>2 DEF Creates
    <3>3. QED BY <1>1, <1>3, <2>2, <2>5, <3>1, <3>2 DEF SinceBegun
  <2>6. step'[w] \in {"refused", "remove", "snapshot"}
    BY <1>5, <1>12 DEF DeleteNote, Steps
  <2>7. QED BY <2>3, <2>4, <2>5, <2>6
<1> QED BY <1>6, <1>7, <1>8, <1>9, <1>10, <1>11, <1>12 DEF WriteStep

LEMMA ApartStep == ApartInv /\ [VaultsNext]_vaultVars => ApartInv'
<1>1. ASSUME ApartInv, NEW w \in Writer, CheckBase(w) \/ CheckFree(w) \/ MoveNote(w) \/ WriteStep(w)
      PROVE  Apart'
  <2>1. /\ step[w] \notin {"idle", "ok", "refused"} /\ asked' = asked /\ wiped' = wiped /\ was' = was
        /\ step'[w] # "idle" /\ \A v \in Writer \ {w} : step'[v] = step[v]
    BY <1>1, VaultStepTyped DEF ApartInv, CheckBase, CheckFree, MoveNote, WriteStep, OpenNote, FillNote,
       Snapshot, DeleteNote, Steps, IoError
  <2>2. \A v \in Writer \ {w} : step[v] \notin {"idle", "ok", "refused"} => was[v] = NoNote
    BY <1>1, <2>1 DEF ApartInv, Apart, OnlyRuns
  <2>3. was[w] # NoNote => OnlyRuns(w) /\ OnlyRuns(w)'
    BY <1>1, <2>1 DEF ApartInv, Apart, OnlyRuns
  <2>4. was[w] # NoNote /\ ~wiped /\ step'[w] \notin {"ok", "refused"} => SinceBegun(w)'
    BY <1>1, StepApart
  <2>5. \A v \in Writer : step'[v] = "idle" => was'[v] = NoNote
    BY <1>1, <2>1 DEF ApartInv, Apart
  <2>6. QED BY <2>1, <2>2, <2>3, <2>4, <2>5 DEF Apart
<1>2. ASSUME ApartInv, CreateVault
      PROVE  Apart'
  <2>1. /\ asked' = asked /\ step' = step /\ was' = was
        /\ wiped' \/ (file' = file /\ wiped' = wiped)
    BY <1>2 DEF CreateVault
  <2>2. QED BY <1>2, <2>1 DEF ApartInv, Apart, OnlyRuns, SinceBegun, Creates, Moves
<1>3. ASSUME ApartInv, UNCHANGED vaultVars
      PROVE  Apart'
  BY <1>3 DEF vaultVars, ApartInv, Apart, OnlyRuns, SinceBegun, Creates, Moves
<1> QED BY <1>1, <1>2, <1>3, BeginApart, VaultsStep DEF ApartInv, VaultsNext

LEMMA ApartStart == VaultsInit => ApartInv
BY VaultsInitInv DEF VaultsInit, ApartInv, Apart

(* A request that a check has refused, or a creation that has failed at any *)
(* of its calls, leaves every note as it was, when no other handler has     *)
(* overlapped it: checks come before changes, and what the failed creation  *)
(* takes back is all it had done.                                          *)
THEOREM RefusalsAreUnseen == VaultsSpec => RefusedIsUnseen
<1>1. ApartInv /\ [VaultsNext]_vaultVars => [RefusalUnseen]_vaultVars
  <2>1. SUFFICES ASSUME ApartInv, VaultsNext PROVE RefusalUnseen
    BY DEF vaultVars
  <2>2. SUFFICES ASSUME NEW w \in Writer, was[w] # NoNote, step[w] # "refused", step'[w] = "refused",
                        w \notin broken' \/ Creates(w), ~wiped
                 PROVE  file' = was[w]
    BY DEF RefusalUnseen
  <2>3. CASE CreateVault
    BY <2>2, <2>3 DEF CreateVault
  <2>4. ASSUME NEW v \in Writer, BeginNote(v)
        PROVE  FALSE
    <3>1. step'[w] = step[w] \/ step'[w] \in {"find", "base"}
      BY <2>1, <2>4 DEF BeginNote, ApartInv, VaultsInv, VaultsTypeOK
    <3>2. QED BY <2>2, <3>1
  <2>5. ASSUME NEW v \in Writer, CheckBase(v) \/ CheckFree(v) \/ MoveNote(v) \/ WriteStep(v)
        PROVE  file' = was[w]
    <3>1. v = w
      BY <2>1, <2>2, <2>5, VaultStepTyped DEF ApartInv
    <3>2. QED BY <2>1, <2>2, <2>5, <3>1, StepApart
  <2>6. QED BY <2>1, <2>3, <2>4, <2>5 DEF VaultsNext
<1> QED BY <1>1, ApartStart, ApartStep, PTL DEF VaultsSpec, RefusedIsUnseen

-----------------------------------------------------------------------------
(***************************************************************************)
(* Set-ups.                                                                *)
(***************************************************************************)
(* What a prompt has read and merged and will write holds what is declared *)
(* now: a declaration changes only between the prompts.                    *)
Carried ==
  \A p \in Poster :
    /\ post[p].at \in {"writeConfig", "fillConfig"} =>
         \A s \in Usable(Server) :
           post[p].content[s] # <<>> /\ Last(post[p].content[s]) = registry[s]
    /\ post[p].at \in {"writeSettings", "fillSettings"} =>
         \A h \in Usable(Hook) :
           \E g \in Usable(Hook) :
             EventOf[g] = EventOf[h] /\ post[p].content[EventOf[h]] = <<g, registry[g]>>

(* Each part is there, or a prompt has still to put it there.              *)
Ahead(places) == \E p \in Poster : post[p].at \in places
McpPlaces == {"mcp", "fillMcp"}
ConfigPlaces == {"readConfig", "writeConfig", "fillConfig"}
SkillPlaces == McpPlaces \cup ConfigPlaces \cup {"skills"}
HookPlaces == SkillPlaces \cup {"hooks", "writeSettings", "fillSettings"}
McpPart    == agent = "claude" => Ahead(McpPlaces) \/ MCPThere
ConfigPart == agent = "codex" => Ahead(ConfigPlaces) \/ MCPThere
SkillPart  == Ahead(SkillPlaces) \/ SkillsThere
HookPart   == agent = "claude" => Ahead(HookPlaces) \/ HooksThere

AdaptersInv ==
  /\ AdaptersTypeOK /\ Carried
  /\ current => McpPart /\ ConfigPart /\ SkillPart /\ HookPart

LEMMA UsableTyped ==
  ASSUME AdaptersTypeOK
  PROVE  /\ \A s \in Usable(Server) : s \in Server /\ s \in Slug /\ registry[s] \in Definition
         /\ \A s \in Usable(Skill) : s \in Skill /\ s \in Slug /\ registry[s] \in Definition
         /\ \A s \in Usable(Hook) : s \in Hook /\ s \in Slug /\ registry[s] \in Definition
BY DEF Usable, AdaptersTypeOK, Slug

LEMMA AppendedLast ==
  ASSUME NEW c \in Seq(Definition), NEW d \in Definition
  PROVE  c \o <<d>> \in Seq(Definition) /\ c \o <<d>> # <<>> /\ Last(c \o <<d>>) = d
<1>1. <<d>> \in Seq(Definition) /\ Len(<<d>>) = 1 /\ <<d>>[1] = d
  OBVIOUS
<1>2. c \o <<d>> \in Seq(Definition) /\ Len(c \o <<d>>) = Len(c) + 1
  BY <1>1, ConcatProperties
<1>3. Len(c) \in Nat
  BY LenProperties
<1>4. (c \o <<d>>)[Len(c) + 1] = d
  BY <1>1, <1>3, ConcatProperties
<1> QED BY <1>2, <1>3, <1>4, EmptySeq DEF Last

LEMMA SectionsTyped ==
  ASSUME AdaptersTypeOK
  PROVE  /\ Sections(config) \in [Server -> Seq(Definition)]
         /\ \A s \in Usable(Server) :
              Sections(config)[s] # <<>> /\ Last(Sections(config)[s]) = registry[s]
<1>1. ASSUME NEW s \in Usable(Server)
      PROVE  /\ Sections(config)[s] \in Seq(Definition)
             /\ Sections(config)[s] # <<>> /\ Last(Sections(config)[s]) = registry[s]
  <2>1. s \in Server /\ registry[s] \in Definition /\ config[s] \in Seq(Definition)
    BY UsableTyped DEF AdaptersTypeOK
  <2>2. Sections(config)[s] = config[s] \o <<registry[s]>>
    BY <2>1 DEF Sections
  <2>3. QED BY <2>1, <2>2, AppendedLast
<1>2. ASSUME NEW s \in Server, s \notin Usable(Server)
      PROVE  Sections(config)[s] \in Seq(Definition)
  <2>1. Sections(config)[s] = config[s] \o << >> /\ config[s] \in Seq(Definition)
    BY <1>2 DEF Sections, AdaptersTypeOK
  <2>2. QED BY <2>1, EmptySeq, ConcatProperties
<1>3. Sections(config) = [s \in Server |-> Sections(config)[s]]
  BY DEF Sections
<1>4. \A s \in Server : Sections(config)[s] \in Seq(Definition)
  BY <1>1, <1>2
<1> QED BY <1>1, <1>3, <1>4

LEMMA SettingsTyped == NoSettings \in Settings
BY DEF NoSettings, Settings

LEMMA PlacedTyped ==
  ASSUME AdaptersTypeOK, NEW done \in SUBSET Usable(Skill)
  PROVE  /\ Placed(done) \in [Skill -> Definition \cup {Absent}]
         /\ [skills EXCEPT ![agent] = Placed(done)] \in [Harness -> [Skill -> Definition \cup {Absent}]]
<1>1. Placed(done) \in [Skill -> Definition \cup {Absent}]
  BY UsableTyped DEF Placed, AdaptersTypeOK
<1> QED BY <1>1 DEF AdaptersTypeOK

(* The step that a prompt takes leaves the others where they are.          *)
LEMMA GotoMoves ==
  ASSUME AdaptersTypeOK, NEW p \in Poster, NEW q, Carries(q), post' = [post EXCEPT ![p] = q]
  PROVE  /\ post' = [v \in Poster |-> post'[v]] /\ \A v \in Poster : Carries(post'[v])
         /\ post'[p] = q /\ \A v \in Poster \ {p} : post'[v] = post[v]
BY DEF AdaptersTypeOK

LEMMA AdaptersInitInv == AdaptersInit => AdaptersInv
<1> SUFFICES ASSUME AdaptersInit PROVE AdaptersInv
  OBVIOUS
<1>1. Carries(Idle) /\ Idle.at = "idle"
  BY DEF Carries, Idle, Places
<1>2. post = [p \in Poster |-> post[p]] /\ \A p \in Poster : post[p] = Idle
  BY DEF AdaptersInit
<1>3. config \in [Server -> Seq(Definition)]
  BY EmptySeq DEF AdaptersInit
<1>4. AdaptersTypeOK
  BY <1>1, <1>2, <1>3, SettingsTyped DEF AdaptersInit, AdaptersTypeOK
<1>5. Carried
  BY <1>1, <1>2 DEF Carried
<1>6. ~current
  BY DEF AdaptersInit
<1> QED BY <1>4, <1>5, <1>6 DEF AdaptersInv

LEMMA ChangesKeep ==
  ASSUME AdaptersInv, Changed,
         \/ \E s \in Slug, d \in Definition \cup {Absent, Invalid} : Register(s, d)
         \/ \E slugs \in SUBSET Slug : Declare(slugs)
         \/ \E h \in Harness : Rebind(h)
  PROVE  AdaptersInv'
<1>1. \A p \in Poster : post[p].at = "idle"
  BY DEF Changed, Unlocked, Idle
<1>2. /\ registry' \in [Slug -> Definition \cup {Absent, Invalid}]
      /\ declared' \subseteq Slug /\ agent' \in Harness
  BY DEF Register, Declare, Rebind, AdaptersInv, AdaptersTypeOK
<1>3. /\ post' = post /\ posts' = posts /\ mcpJson' = mcpJson /\ config' = config
      /\ settings' = settings /\ skills' = skills
  BY DEF Changed, files
<1>4. current' = FALSE /\ changes' = changes + 1
  BY DEF Changed
<1>5. AdaptersTypeOK'
  <2>1. changes' \in Nat
    BY <1>4 DEF AdaptersInv, AdaptersTypeOK
  <2>2. current' \in BOOLEAN
    BY <1>4
  <2>3. post' = [p \in Poster |-> post'[p]] /\ \A p \in Poster : Carries(post'[p])
    BY <1>3 DEF AdaptersInv, AdaptersTypeOK
  <2>4. QED BY <1>2, <1>3, <2>1, <2>2, <2>3 DEF AdaptersInv, AdaptersTypeOK
<1>6. Carried'
  BY <1>1, <1>3 DEF Carried
<1> QED BY <1>4, <1>5, <1>6 DEF AdaptersInv

(* The steps of a prompt, by where it goes.                                *)
PromptStep(p) == Write(p) \/ Finish(p)

LEMMA StepMoves ==
  ASSUME AdaptersInv, NEW p \in Poster, PromptStep(p) \/ Materialize(p) \/ Fail(p)
  PROVE  \E q : Carries(q) /\ post' = [post EXCEPT ![p] = q]
<1> USE DEF AdaptersInv
<1>1. ASSUME NEW place \in Places \ {"writeConfig", "fillConfig", "writeSettings", "fillSettings"},
             Goto(p, place)
      PROVE  \E q : Carries(q) /\ post' = [post EXCEPT ![p] = q]
  <2>1. Carries([at |-> place])
    BY DEF Carries
  <2>2. QED BY <1>1, <2>1 DEF Goto
<1>2. ASSUME NEW place \in {"writeConfig", "fillConfig"}, NEW c \in [Server -> Seq(Definition)],
             GotoWith(p, place, c)
      PROVE  \E q : Carries(q) /\ post' = [post EXCEPT ![p] = q]
  <2>1. Carries([at |-> place, content |-> c])
    BY DEF Carries, Places
  <2>2. QED BY <1>2, <2>1 DEF GotoWith
<1>3. ASSUME NEW place \in {"writeSettings", "fillSettings"}, NEW c \in Settings,
             GotoWith(p, place, c)
      PROVE  \E q : Carries(q) /\ post' = [post EXCEPT ![p] = q]
  <2>1. Carries([at |-> place, content |-> c])
    BY DEF Carries, Places
  <2>2. QED BY <1>3, <2>1 DEF GotoWith
<1>4. CASE Fail(p) \/ Finish(p) \/ TruncateMcp(p) \/ SkipMcp(p) \/ FillMcp(p) \/ FillConfig(p)
           \/ PlaceSomeSkills(p) \/ SkipHooks(p) \/ FillSettings(p)
  <2>1. Goto(p, "idle") \/ Goto(p, "fillMcp") \/ Goto(p, "skills") \/ Goto(p, "notes")
    BY <1>4 DEF Fail, Finish, TruncateMcp, SkipMcp, FillMcp, FillConfig, PlaceSomeSkills,
       SkipHooks, FillSettings
  <2>2. QED BY <1>1, <2>1 DEF Places
<1>5. CASE Materialize(p)
  <2>1. FirstStep \in {"mcp", "readConfig", "skills"}
    BY DEF FirstStep
  <2>2. QED BY <1>1, <1>5, <2>1 DEF Materialize, Places
<1>6. CASE PlaceSkills(p)
  <2>1. AfterSkills \in {"hooks", "notes"}
    BY DEF AfterSkills
  <2>2. QED BY <1>1, <1>6, <2>1 DEF PlaceSkills, Places
<1>7. CASE ReadHarness(p)
  <2>1. Goto(p, "skills") \/ GotoWith(p, "writeConfig", Sections(config))
    BY <1>7 DEF ReadHarness
  <2>2. QED BY <1>1, <1>2, <2>1, SectionsTyped DEF Places
<1>8. CASE TruncateConfig(p)
  <2>1. post[p].content \in [Server -> Seq(Definition)]
    BY <1>8 DEF TruncateConfig, AdaptersTypeOK, Carries
  <2>2. QED BY <1>2, <1>8, <2>1 DEF TruncateConfig
<1>9. CASE ReadSettings(p)
  BY <1>3, <1>9 DEF ReadSettings
<1>10. CASE TruncateSettings(p)
  <2>1. post[p].content \in Settings
    BY <1>10 DEF TruncateSettings, AdaptersTypeOK, Carries
  <2>2. QED BY <1>3, <1>10, <2>1 DEF TruncateSettings
<1>11. QED BY <1>4, <1>5, <1>6, <1>7, <1>8, <1>9, <1>10 DEF PromptStep, Write

LEMMA WriteTyped ==
  ASSUME AdaptersInv, NEW p \in Poster, PromptStep(p) \/ Materialize(p) \/ Fail(p)
  PROVE  AdaptersTypeOK'
<1> USE DEF AdaptersInv
<1>1. registry' = registry /\ declared' = declared /\ agent' = agent /\ changes' = changes
  BY DEF PromptStep, Write, Finish, Materialize, Fail, Stays, setup, TruncateMcp, SkipMcp, FillMcp,
     ReadHarness, TruncateConfig, FillConfig, PlaceSkills, PlaceSomeSkills, ReadSettings,
     SkipHooks, TruncateSettings, FillSettings
<1>2. posts' \in Nat
  BY DEF PromptStep, Write, Finish, Materialize, Fail, Stays, setup, TruncateMcp, SkipMcp, FillMcp,
     ReadHarness, TruncateConfig, FillConfig, PlaceSkills, PlaceSomeSkills, ReadSettings,
     SkipHooks, TruncateSettings, FillSettings, AdaptersTypeOK
<1>3. current' \in BOOLEAN
  <2>1. CASE Materialize(p)
    BY <2>1 DEF Materialize
  <2>2. CASE current' = current \/ current' = FALSE
    BY <2>2 DEF AdaptersTypeOK
  <2>3. Materialize(p) \/ current' = current \/ current' = FALSE
    BY DEF PromptStep, Write, Finish, Fail, Stays, setup, TruncateMcp, SkipMcp, FillMcp,
       ReadHarness, TruncateConfig, FillConfig, PlaceSkills, PlaceSomeSkills, ReadSettings,
       SkipHooks, TruncateSettings, FillSettings
  <2>4. QED BY <2>1, <2>2, <2>3
<1>4. \E q : Carries(q) /\ post' = [post EXCEPT ![p] = q]
  BY StepMoves
<1>5. post' = [v \in Poster |-> post'[v]] /\ \A v \in Poster : Carries(post'[v])
  BY <1>4, GotoMoves
<1>6. mcpJson' \in [Server -> Definition \cup {Absent}]
  <2>1. CASE TruncateMcp(p)
    BY <2>1 DEF TruncateMcp
  <2>2. CASE FillMcp(p)
    BY <2>2, UsableTyped DEF FillMcp
  <2>3. TruncateMcp(p) \/ FillMcp(p) \/ mcpJson' = mcpJson
    BY DEF PromptStep, Write, Finish, Materialize, Fail, Stays, files, SkipMcp,
     ReadHarness, TruncateConfig, FillConfig, PlaceSkills, PlaceSomeSkills, ReadSettings,
     SkipHooks, TruncateSettings, FillSettings
  <2>4. QED BY <2>1, <2>2, <2>3 DEF AdaptersTypeOK
<1>7. config' \in [Server -> Seq(Definition)]
  <2>1. CASE TruncateConfig(p)
    BY <2>1, EmptySeq DEF TruncateConfig
  <2>2. CASE FillConfig(p)
    BY <2>2 DEF FillConfig, AdaptersTypeOK, Carries
  <2>3. TruncateConfig(p) \/ FillConfig(p) \/ config' = config
    BY DEF PromptStep, Write, Finish, Materialize, Fail, Stays, files, TruncateMcp, SkipMcp, FillMcp,
     ReadHarness, PlaceSkills, PlaceSomeSkills, ReadSettings,
     SkipHooks, TruncateSettings, FillSettings
  <2>4. QED BY <2>1, <2>2, <2>3 DEF AdaptersTypeOK
<1>8. settings' \in Settings
  <2>1. CASE TruncateSettings(p)
    BY <2>1, SettingsTyped DEF TruncateSettings
  <2>2. CASE FillSettings(p)
    BY <2>2 DEF FillSettings, AdaptersTypeOK, Carries
  <2>3. TruncateSettings(p) \/ FillSettings(p) \/ settings' = settings
    BY DEF PromptStep, Write, Finish, Materialize, Fail, Stays, files, TruncateMcp, SkipMcp, FillMcp,
     ReadHarness, TruncateConfig, FillConfig, PlaceSkills, PlaceSomeSkills, ReadSettings, SkipHooks
  <2>4. QED BY <2>1, <2>2, <2>3 DEF AdaptersTypeOK
<1>9. skills' \in [Harness -> [Skill -> Definition \cup {Absent}]]
  <2>1. CASE PlaceSkills(p)
    BY <2>1, PlacedTyped DEF PlaceSkills
  <2>2. CASE PlaceSomeSkills(p)
    BY <2>2, PlacedTyped DEF PlaceSomeSkills
  <2>3. PlaceSkills(p) \/ PlaceSomeSkills(p) \/ skills' = skills
    BY DEF PromptStep, Write, Finish, Materialize, Fail, Stays, files, TruncateMcp, SkipMcp, FillMcp,
     ReadHarness, TruncateConfig, FillConfig, ReadSettings,
     SkipHooks, TruncateSettings, FillSettings
  <2>4. QED BY <2>1, <2>2, <2>3 DEF AdaptersTypeOK
<1> QED BY <1>1, <1>2, <1>3, <1>5, <1>6, <1>7, <1>8, <1>9 DEF AdaptersTypeOK

LEMMA DeclaredStays ==
  ASSUME NEW p \in Poster, PromptStep(p) \/ Materialize(p) \/ Fail(p)
  PROVE  /\ registry' = registry /\ declared' = declared /\ agent' = agent
         /\ Usable(Server)' = Usable(Server) /\ Usable(Skill)' = Usable(Skill)
         /\ Usable(Hook)' = Usable(Hook)
<1>1. registry' = registry /\ declared' = declared /\ agent' = agent
  BY DEF Materialize, Fail, PromptStep, Write, Finish, Stays, files, setup, TruncateMcp, SkipMcp, FillMcp,
       ReadHarness, TruncateConfig, FillConfig, PlaceSkills, PlaceSomeSkills, ReadSettings,
       SkipHooks, TruncateSettings, FillSettings
<1> QED BY <1>1 DEF Usable

(* The place that a prompt goes to, and what it takes there.               *)
LEMMA PlaceMoves ==
  ASSUME AdaptersInv, NEW p \in Poster
  PROVE  /\ \A place : Goto(p, place) => post'[p].at = place
         /\ \A place, c : GotoWith(p, place, c) => post'[p].at = place /\ post'[p].content = c
         /\ PromptStep(p) \/ Materialize(p) \/ Fail(p) =>
              \A v \in Poster \ {p} : post'[v] = post[v]
<1>1. post = [v \in Poster |-> post[v]]
  BY DEF AdaptersInv, AdaptersTypeOK
<1>2. ASSUME NEW place, Goto(p, place)
      PROVE  post'[p].at = place
  BY <1>1, <1>2 DEF Goto
<1>3. ASSUME NEW place, NEW c, GotoWith(p, place, c)
      PROVE  post'[p].at = place /\ post'[p].content = c
  BY <1>1, <1>3 DEF GotoWith
<1>4. ASSUME PromptStep(p) \/ Materialize(p) \/ Fail(p)
      PROVE  \A v \in Poster \ {p} : post'[v] = post[v]
  <2>1. \E q : post' = [post EXCEPT ![p] = q]
    BY <1>4, StepMoves
  <2>2. QED BY <1>1, <2>1
<1> QED BY <1>2, <1>3, <1>4

LEMMA NextPlace ==
  ASSUME AdaptersInv, NEW p \in Poster
  PROVE  /\ Materialize(p) => post'[p].at = FirstStep
         /\ Fail(p) \/ PlaceSomeSkills(p) \/ Finish(p) => post'[p].at = "idle"
         /\ TruncateMcp(p) => post'[p].at = "fillMcp"
         /\ SkipMcp(p) \/ FillMcp(p) \/ FillConfig(p) => post'[p].at = "skills"
         /\ ReadHarness(p) => post'[p].at \in {"skills", "writeConfig"}
         /\ TruncateConfig(p) => post'[p].at = "fillConfig"
         /\ PlaceSkills(p) => post'[p].at = AfterSkills
         /\ ReadSettings(p) => post'[p].at = "writeSettings"
         /\ TruncateSettings(p) => post'[p].at = "fillSettings"
         /\ SkipHooks(p) \/ FillSettings(p) => post'[p].at = "notes"
<1>1. Materialize(p) => post'[p].at = FirstStep
  BY PlaceMoves DEF Materialize
<1>2. Fail(p) \/ PlaceSomeSkills(p) \/ Finish(p) => post'[p].at = "idle"
  BY PlaceMoves DEF Fail, PlaceSomeSkills, Finish
<1>3. TruncateMcp(p) => post'[p].at = "fillMcp"
  BY PlaceMoves DEF TruncateMcp
<1>4. SkipMcp(p) \/ FillMcp(p) \/ FillConfig(p) => post'[p].at = "skills"
  BY PlaceMoves DEF SkipMcp, FillMcp, FillConfig
<1>5. ReadHarness(p) => post'[p].at \in {"skills", "writeConfig"}
  BY PlaceMoves DEF ReadHarness
<1>6. TruncateConfig(p) => post'[p].at = "fillConfig"
  BY PlaceMoves DEF TruncateConfig
<1>7. PlaceSkills(p) => post'[p].at = AfterSkills
  BY PlaceMoves DEF PlaceSkills
<1>8. ReadSettings(p) => post'[p].at = "writeSettings"
  BY PlaceMoves DEF ReadSettings
<1>9. TruncateSettings(p) => post'[p].at = "fillSettings"
  BY PlaceMoves DEF TruncateSettings
<1>10. SkipHooks(p) \/ FillSettings(p) => post'[p].at = "notes"
  BY PlaceMoves DEF SkipHooks, FillSettings
<1> QED BY <1>1, <1>2, <1>3, <1>4, <1>5, <1>6, <1>7, <1>8, <1>9, <1>10

LEMMA CarriedStays ==
  ASSUME AdaptersInv, NEW p \in Poster, PromptStep(p) \/ Materialize(p) \/ Fail(p)
  PROVE  Carried'
<1>1. \A v \in Poster \ {p} : post'[v] = post[v]
  BY PlaceMoves
<1>2. ASSUME post'[p].at \in {"writeConfig", "fillConfig"}
      PROVE  \A s \in Usable(Server) :
               post'[p].content[s] # <<>> /\ Last(post'[p].content[s]) = registry[s]
  <2>1. CASE ReadHarness(p)
    <3>1. post'[p].content = Sections(config)
      BY <1>2, <2>1, PlaceMoves DEF ReadHarness
    <3>2. QED BY <3>1, SectionsTyped DEF AdaptersInv
  <2>2. CASE TruncateConfig(p)
    <3>1. post'[p].content = post[p].content /\ post[p].at = "writeConfig"
      BY <2>2, PlaceMoves DEF TruncateConfig
    <3>2. QED BY <3>1 DEF AdaptersInv, Carried
  <2>3. ReadHarness(p) \/ TruncateConfig(p)
    BY <1>2, NextPlace DEF FirstStep, AfterSkills, PromptStep, Write
  <2>4. QED BY <2>1, <2>2, <2>3
<1>3. ASSUME post'[p].at \in {"writeSettings", "fillSettings"}
      PROVE  \A h \in Usable(Hook) :
               \E g \in Usable(Hook) :
                 EventOf[g] = EventOf[h] /\ post'[p].content[EventOf[h]] = <<g, registry[g]>>
  <2>1. CASE ReadSettings(p)
    <3>1. PICK merged \in Settings :
            Merged(settings, merged) /\ GotoWith(p, "writeSettings", merged)
      BY <2>1 DEF ReadSettings
    <3>2. post'[p].content = merged
      BY <3>1, PlaceMoves
    <3>3. ASSUME NEW h \in Usable(Hook)
          PROVE  \E g \in Usable(Hook) :
                   EventOf[g] = EventOf[h] /\ merged[EventOf[h]] = <<g, registry[g]>>
      <4>1. EventOf[h] \in Event
        BY UsableTyped DEF AdaptersInv
      <4>2. \E g \in {g \in Usable(Hook) : EventOf[g] = EventOf[h]} :
              merged[EventOf[h]] = <<g, registry[g]>>
        BY <3>1, <4>1 DEF Merged
      <4>3. QED BY <4>2
    <3>4. QED BY <3>2, <3>3
  <2>2. CASE TruncateSettings(p)
    <3>1. post'[p].content = post[p].content /\ post[p].at = "writeSettings"
      BY <2>2, PlaceMoves DEF TruncateSettings
    <3>2. QED BY <3>1 DEF AdaptersInv, Carried
  <2>3. ReadSettings(p) \/ TruncateSettings(p)
    BY <1>3, NextPlace DEF FirstStep, AfterSkills, PromptStep, Write
  <2>4. QED BY <2>1, <2>2, <2>3
<1>4. /\ registry' = registry /\ Usable(Server)' = Usable(Server) /\ Usable(Hook)' = Usable(Hook)
  BY DeclaredStays
<1>5. \A v \in Poster : post'[v].at \in {"writeConfig", "fillConfig"} =>
        \A s \in Usable(Server)' :
          post'[v].content[s] # <<>> /\ Last(post'[v].content[s]) = registry'[s]
  BY <1>1, <1>2, <1>4 DEF AdaptersInv, Carried
<1>6. \A v \in Poster : post'[v].at \in {"writeSettings", "fillSettings"} =>
        \A h \in Usable(Hook)' :
          \E g \in Usable(Hook)' :
            EventOf[g] = EventOf[h] /\ post'[v].content[EventOf[h]] = <<g, registry'[g]>>
  <2> DEFINE In(content) ==
               \A h \in Usable(Hook) : \E g \in Usable(Hook) :
                 EventOf[g] = EventOf[h] /\ content[EventOf[h]] = <<g, registry[g]>>
  <2>1. SUFFICES ASSUME NEW v \in Poster, post'[v].at \in {"writeSettings", "fillSettings"}
                 PROVE  In(post'[v].content)
    BY <1>4
  <2>2. CASE v = p
    BY <1>3, <2>1, <2>2
  <2>3. CASE v # p
    <3>1. post'[v] = post[v]
      BY <1>1, <2>3
    <3>2. In(post[v].content)
      BY <2>1, <3>1 DEF AdaptersInv, Carried
    <3>3. QED BY <3>1, <3>2
  <2>4. QED BY <2>2, <2>3
<1> QED BY <1>5, <1>6 DEF Carried

(* A prompt that is not ahead of a part any more has done its step of it.  *)
LEMMA StillAhead ==
  ASSUME AdaptersInv, NEW p \in Poster, PromptStep(p) \/ Materialize(p) \/ Fail(p),
         NEW places, Ahead(places), ~Ahead(places)'
  PROVE  post[p].at \in places /\ post'[p].at \notin places
BY PlaceMoves DEF Ahead

LEMMA NotCurrent ==
  ASSUME NEW p \in Poster, PromptStep(p) \/ Materialize(p) \/ Fail(p), current'
  PROVE  /\ current \/ Materialize(p)
         /\ ~Fail(p) /\ ~PlaceSomeSkills(p)
BY DEF Materialize, Fail, PromptStep, Write, Finish, Stays, files, setup, TruncateMcp, SkipMcp, FillMcp,
       ReadHarness, TruncateConfig, FillConfig, PlaceSkills, PlaceSomeSkills, ReadSettings,
       SkipHooks, TruncateSettings, FillSettings

LEMMA McpPartStays ==
  ASSUME AdaptersInv, NEW p \in Poster, PromptStep(p) \/ Materialize(p), current'
  PROVE  McpPart'
<1> SUFFICES ASSUME agent' = "claude", ~Ahead(McpPlaces)' PROVE MCPThere'
  BY DEF McpPart
<1>1. agent = "claude" /\ registry' = registry /\ Usable(Server)' = Usable(Server)
  BY DeclaredStays
<1>2. ~Materialize(p)
  BY <1>1, NextPlace DEF FirstStep, Ahead, McpPlaces
<1>3. PromptStep(p) /\ (Ahead(McpPlaces) \/ MCPThere) /\ ~PlaceSomeSkills(p)
  BY <1>1, <1>2, NotCurrent DEF AdaptersInv, McpPart
<1>4. CASE FillMcp(p)
  BY <1>1, <1>4, UsableTyped DEF FillMcp, MCPThere, AdaptersInv
<1>5. CASE SkipMcp(p)
  BY <1>1, <1>5 DEF SkipMcp, MCPThere
<1>6. CASE ~FillMcp(p) /\ ~SkipMcp(p)
  <2>1. ~TruncateMcp(p)
    BY NextPlace DEF Ahead, McpPlaces
  <2>2. ~Ahead(McpPlaces)
    <3>1. SUFFICES ASSUME Ahead(McpPlaces) PROVE FALSE
      OBVIOUS
    <3>2. post[p].at \in McpPlaces
      BY <1>3, <3>1, StillAhead
    <3>3. QED BY <1>3, <1>6, <2>1, <3>2 DEF McpPlaces, PromptStep, Write, Finish, ReadHarness,
              TruncateConfig, FillConfig, PlaceSkills, ReadSettings, SkipHooks, TruncateSettings,
              FillSettings
  <2>3. mcpJson' = mcpJson
    BY <1>3, <1>6, <2>1 DEF PromptStep, Write, Finish, Stays, files, ReadHarness,
       TruncateConfig, FillConfig, PlaceSkills, ReadSettings, SkipHooks, TruncateSettings,
       FillSettings
  <2>4. QED BY <1>1, <1>3, <2>2, <2>3 DEF MCPThere
<1> QED BY <1>4, <1>5, <1>6

LEMMA ConfigPartStays ==
  ASSUME AdaptersInv, NEW p \in Poster, PromptStep(p) \/ Materialize(p), current'
  PROVE  ConfigPart'
<1> SUFFICES ASSUME agent' = "codex", ~Ahead(ConfigPlaces)' PROVE MCPThere'
  BY DEF ConfigPart
<1>1. agent = "codex" /\ registry' = registry /\ Usable(Server)' = Usable(Server)
  BY DeclaredStays
<1>2. ~Materialize(p)
  BY <1>1, NextPlace DEF FirstStep, Ahead, ConfigPlaces
<1>3. PromptStep(p) /\ (Ahead(ConfigPlaces) \/ MCPThere) /\ ~PlaceSomeSkills(p)
  BY <1>1, <1>2, NotCurrent DEF AdaptersInv, ConfigPart
<1>4. CASE FillConfig(p)
  <2>1. config' = post[p].content /\ post[p].at = "fillConfig"
    BY <1>4 DEF FillConfig
  <2>2. \A s \in Usable(Server) : config'[s] # <<>> /\ Last(config'[s]) = registry[s]
    BY <2>1 DEF AdaptersInv, Carried
  <2>3. QED BY <1>1, <2>2 DEF MCPThere
<1>5. CASE ReadHarness(p)
  <2>1. post'[p].at # "writeConfig"
    BY DEF Ahead, ConfigPlaces
  <2>2. Sections(config) = [s \in Server |-> <<>>]
    BY <1>5, <2>1, PlaceMoves DEF ReadHarness
  <2>3. Usable(Server) = {}
    <3>1. SUFFICES ASSUME NEW s \in Usable(Server) PROVE FALSE
      OBVIOUS
    <3>2. s \in Server /\ Sections(config)[s] # <<>>
      BY UsableTyped, SectionsTyped DEF AdaptersInv
    <3>3. QED BY <2>2, <3>2
  <2>4. QED BY <1>1, <2>3 DEF MCPThere
<1>6. CASE ~FillConfig(p) /\ ~ReadHarness(p)
  <2>1. ~TruncateConfig(p)
    BY NextPlace DEF Ahead, ConfigPlaces
  <2>2. ~Ahead(ConfigPlaces)
    <3>1. SUFFICES ASSUME Ahead(ConfigPlaces) PROVE FALSE
      OBVIOUS
    <3>2. post[p].at \in ConfigPlaces
      BY <1>3, <3>1, StillAhead
    <3>3. QED BY <1>3, <1>6, <2>1, <3>2 DEF ConfigPlaces, PromptStep, Write, Finish, TruncateMcp,
              SkipMcp, FillMcp, PlaceSkills, ReadSettings, SkipHooks, TruncateSettings, FillSettings
  <2>3. config' = config
    BY <1>3, <1>6, <2>1 DEF PromptStep, Write, Finish, Stays, files, TruncateMcp, SkipMcp,
       FillMcp, PlaceSkills, ReadSettings, SkipHooks, TruncateSettings, FillSettings
  <2>4. QED BY <1>1, <1>3, <2>2, <2>3 DEF MCPThere
<1> QED BY <1>4, <1>5, <1>6

LEMMA SkillPartStays ==
  ASSUME AdaptersInv, NEW p \in Poster, PromptStep(p) \/ Materialize(p), current'
  PROVE  SkillPart'
<1> SUFFICES ASSUME ~Ahead(SkillPlaces)' PROVE SkillsThere'
  BY DEF SkillPart
<1>1. agent' = agent /\ registry' = registry /\ Usable(Skill)' = Usable(Skill)
  BY DeclaredStays
<1>2. ~Materialize(p)
  BY NextPlace DEF FirstStep, Ahead, SkillPlaces, McpPlaces, ConfigPlaces
<1>3. PromptStep(p) /\ (Ahead(SkillPlaces) \/ SkillsThere) /\ ~PlaceSomeSkills(p)
  BY <1>2, NotCurrent DEF AdaptersInv, SkillPart
<1>4. CASE PlaceSkills(p)
  <2>1. skills'[agent] = Placed(Usable(Skill))
    BY <1>4 DEF PlaceSkills, AdaptersInv, AdaptersTypeOK
  <2>2. ASSUME NEW s \in Usable(Skill)
        PROVE  IF agent = "hermes" THEN skills'[agent][s] # Absent
                                   ELSE skills'[agent][s] = registry[s]
    <3>1. s \in Skill /\ registry[s] # Absent
      BY UsableTyped DEF AdaptersInv
    <3>2. QED BY <2>1, <3>1 DEF Placed
  <2>3. QED BY <1>1, <2>2 DEF SkillsThere
<1>5. CASE ~PlaceSkills(p)
  <2>1. ~Ahead(SkillPlaces)
    <3>1. SUFFICES ASSUME Ahead(SkillPlaces) PROVE FALSE
      OBVIOUS
    <3>2. post[p].at \in SkillPlaces /\ post'[p].at \notin SkillPlaces
      BY <1>3, <3>1, StillAhead
    <3>3. \/ Finish(p) \/ ReadSettings(p) \/ SkipHooks(p) \/ TruncateSettings(p) \/ FillSettings(p)
      BY <1>3, <1>5, <3>2, NextPlace DEF SkillPlaces, McpPlaces, ConfigPlaces, PromptStep, Write
    <3>4. QED BY <3>2, <3>3 DEF SkillPlaces, McpPlaces, ConfigPlaces, Finish, ReadSettings, SkipHooks,
              TruncateSettings, FillSettings
  <2>2. skills' = skills
    BY <1>3, <1>5 DEF PromptStep, Write, Finish, Stays, files, TruncateMcp, SkipMcp, FillMcp,
       ReadHarness, TruncateConfig, FillConfig, ReadSettings, SkipHooks, TruncateSettings,
       FillSettings
  <2>3. QED BY <1>1, <1>3, <2>1, <2>2 DEF SkillsThere
<1> QED BY <1>4, <1>5

LEMMA HookPartStays ==
  ASSUME AdaptersInv, NEW p \in Poster, PromptStep(p) \/ Materialize(p), current'
  PROVE  HookPart'
<1> SUFFICES ASSUME agent' = "claude", ~Ahead(HookPlaces)' PROVE HooksThere'
  BY DEF HookPart
<1> USE DEF HookPlaces, SkillPlaces, McpPlaces, ConfigPlaces
<1>1. agent = "claude" /\ registry' = registry /\ Usable(Hook)' = Usable(Hook)
  BY DeclaredStays
<1>2. ~Materialize(p)
  BY NextPlace DEF FirstStep, Ahead
<1>3. PromptStep(p) /\ (Ahead(HookPlaces) \/ HooksThere) /\ ~PlaceSomeSkills(p)
  BY <1>1, <1>2, NotCurrent DEF AdaptersInv, HookPart
<1>4. CASE FillSettings(p)
  <2>1. settings' = post[p].content /\ post[p].at = "fillSettings"
    BY <1>4 DEF FillSettings
  <2>2. \A h \in Usable(Hook) : \E g \in Usable(Hook) :
          EventOf[g] = EventOf[h] /\ settings'[EventOf[h]] = <<g, registry[g]>>
    BY <2>1 DEF AdaptersInv, Carried
  <2>3. QED BY <1>1, <2>2 DEF HooksThere
<1>5. CASE SkipHooks(p)
  <2>1. Usable(Hook) = {}
    <3>1. SUFFICES ASSUME NEW h \in Usable(Hook) PROVE FALSE
      OBVIOUS
    <3>2. registry[h] # Absent /\ h \in declared \cap Hook
      BY UsableTyped DEF AdaptersInv, Usable
    <3>3. QED BY <1>5, <3>2 DEF SkipHooks, Resolved
  <2>2. QED BY <1>1, <2>1 DEF HooksThere
<1>6. CASE ~FillSettings(p) /\ ~SkipHooks(p)
  <2>1. ~TruncateSettings(p)
    BY NextPlace DEF Ahead
  <2>2. ~Ahead(HookPlaces)
    <3>1. SUFFICES ASSUME Ahead(HookPlaces) PROVE FALSE
      OBVIOUS
    <3>2. post[p].at \in HookPlaces /\ post'[p].at \notin HookPlaces
      BY <1>3, <3>1, StillAhead
    <3>3. Finish(p) \/ (PlaceSkills(p) /\ AfterSkills = "hooks")
      BY <1>1, <1>3, <1>6, <3>2, NextPlace DEF PromptStep, Write, AfterSkills
    <3>4. QED BY <3>2, <3>3, NextPlace DEF Finish
  <2>3. settings' = settings
    BY <1>3, <1>6, <2>1 DEF PromptStep, Write, Finish, Stays, files, TruncateMcp, SkipMcp, FillMcp,
       ReadHarness, TruncateConfig, FillConfig, PlaceSkills, ReadSettings
  <2>4. QED BY <1>1, <1>3, <2>2, <2>3 DEF HooksThere
<1> QED BY <1>4, <1>5, <1>6

LEMMA AdaptersStep == AdaptersInv /\ [AdaptersNext]_adapterVars => AdaptersInv'
<1> SUFFICES ASSUME AdaptersInv, [AdaptersNext]_adapterVars PROVE AdaptersInv'
  OBVIOUS
<1>1. CASE \/ \E s \in Slug, d \in Definition \cup {Absent, Invalid} : Register(s, d)
           \/ \E slugs \in SUBSET Slug : Declare(slugs)
           \/ \E h \in Harness : Rebind(h)
  <2>1. Changed
    BY <1>1 DEF Register, Declare, Rebind
  <2>2. QED BY <1>1, <2>1, ChangesKeep
<1>2. ASSUME NEW p \in Poster, PromptStep(p) \/ Materialize(p) PROVE AdaptersInv'
  <2>1. AdaptersTypeOK' /\ Carried'
    BY <1>2, WriteTyped, CarriedStays
  <2>2. current' => McpPart' /\ ConfigPart' /\ SkillPart' /\ HookPart'
    BY <1>2, McpPartStays, ConfigPartStays, SkillPartStays, HookPartStays
  <2>3. QED BY <2>1, <2>2 DEF AdaptersInv
<1>3. ASSUME NEW p \in Poster, Fail(p) PROVE AdaptersInv'
  <2>1. AdaptersTypeOK' /\ Carried'
    BY <1>3, WriteTyped, CarriedStays
  <2>2. ~current'
    BY <1>3 DEF Fail
  <2>3. QED BY <2>1, <2>2 DEF AdaptersInv
<1>4. CASE UNCHANGED adapterVars
  BY <1>4 DEF AdaptersInv, AdaptersTypeOK, Carried, McpPart, ConfigPart, SkillPart, HookPart,
     MCPThere, SkillsThere, HooksThere, Ahead, Usable, adapterVars, setup, files
<1> QED BY <1>1, <1>2, <1>3, <1>4 DEF AdaptersNext, PromptStep

(* The variables of a set-up have their types: what a prompt has read is   *)
(* the shape of the file that it writes.                                   *)
THEOREM AdaptersCorrect == AdaptersSpec => []AdaptersTypeOK
<1>1. AdaptersInv => AdaptersTypeOK
  BY DEF AdaptersInv
<1> QED BY <1>1, AdaptersInitInv, AdaptersStep, PTL DEF AdaptersSpec

(* When every prompt that wrote the files of a session at the same time is *)
(* done, and none has failed, the files hold what is declared: the order in *)
(* which materialize truncates, fills and copies may be mixed with that of *)
(* any number of others.                                                   *)
THEOREM SetupArrives == AdaptersSpec => []DeclaredIsThere
<1>1. AdaptersInv => DeclaredIsThere
  <2>1. SUFFICES ASSUME AdaptersInv, Unlocked, current
                 PROVE  MCPThere /\ SkillsThere /\ HooksThere
    BY DEF DeclaredIsThere
  <2>2. \A p \in Poster : post[p].at = "idle"
    BY <2>1 DEF Unlocked, Idle
  <2>3. /\ ~Ahead(McpPlaces) /\ ~Ahead(ConfigPlaces) /\ ~Ahead(SkillPlaces) /\ ~Ahead(HookPlaces)
    BY <2>2 DEF Ahead, McpPlaces, ConfigPlaces, SkillPlaces, HookPlaces
  <2>4. McpPart /\ ConfigPart /\ SkillPart /\ HookPart
    BY <2>1 DEF AdaptersInv
  <2>5. QED BY <2>3, <2>4 DEF McpPart, ConfigPart, SkillPart, HookPart, MCPThere, HooksThere
<1> QED BY <1>1, AdaptersInitInv, AdaptersStep, PTL DEF AdaptersSpec

=============================================================================
