------------------------------ MODULE ClientStream ------------------------------
(***************************************************************************)
(* The delta stream of /ws: handlers change the views under their lock,    *)
(* release it and then broadcast what they have changed; every client of   *)
(* an organization has a bounded channel of the broadcasts, a set of       *)
(* subscriptions, and a login that is checked again from time to time.     *)
(*                                                                         *)
(* Abstracted: what a message says, typing presence, and the installation- *)
(* wide clients, which see the same frames without the filter.  The client *)
(* is external: it adds a session that it is told of and changes one that  *)
(* it shows.                                                               *)
(***************************************************************************)
EXTENDS Integers, FiniteSets, Sequences

CONSTANTS
  Client, Handler,
  Organization, Chat,    \* organizations, sessions
  Title, NoTitle,        \* titles of a session; none: the session does not exist
  Held,                  \* frames that a channel holds
  MaxBroadcasts          \* bound: frames that are broadcast

ASSUME ClientStreamAssumption ==
  Held \in Nat \ {0} /\ MaxBroadcasts \in Nat /\ NoTitle \notin Title

VARIABLES
  owner, title,   \* the views: [Chat -> Organization], [Chat -> Title or NoTitle]
  doing,          \* [Handler -> the frames it has yet to broadcast]
  broadcasts,     \* every frame that was broadcast
  valid,          \* [Client -> whether its login and membership are]
  socket, member, \* [Client -> "closed", "greeted" or "open"], and for whom
  subs,           \* [Client -> its subscriptions]
  next, lagged,   \* [Client -> what it reads next of its channel, whether it lost some]
  shown, heard,   \* [Client -> the titles it shows, the sessions it was told of]
  fresh,          \* history: sessions created since the channel was opened
  tangled         \* history: sessions changed by two handlers at a time

viewVars == <<owner, title, doing, broadcasts, tangled>>
socketVars == <<socket, member, subs, next, lagged, shown, heard, fresh>>
streamVars == <<viewVars, socketVars, valid>>

NoSubscriptions == [all |-> TRUE, of |-> {}]

Exists(s) == title[s] # NoTitle
Patching(s) == {h \in Handler : \E k \in DOMAIN doing[h] : doing[h][k].of = s}

-----------------------------------------------------------------------------
(***************************************************************************)
(* Handlers.                                                               *)
(***************************************************************************)
Change(h, s, frames) ==
  /\ doing[h] = <<>>
  /\ doing' = [doing EXCEPT ![h] = frames]
  /\ tangled' = IF Patching(s) = {} THEN tangled ELSE tangled \cup {s}
  /\ UNCHANGED <<broadcasts, socketVars, valid>>

\* POST /api/sessions
CreateChat(h, s, o, t) ==
  /\ ~Exists(s)
  /\ owner' = [owner EXCEPT ![s] = o] /\ title' = [title EXCEPT ![s] = t]
  /\ Change(h, s, << [kind |-> "added", of |-> s, org |-> o, is |-> t] >>)

\* PATCH /api/sessions/{id}
PatchChat(h, s, t) ==
  /\ Exists(s)
  /\ title' = [title EXCEPT ![s] = t] /\ UNCHANGED owner
  /\ Change(h, s, << [kind |-> "updated", of |-> s, org |-> NoTitle, is |-> t] >>)

\* A message is stored, and shown before the title that is taken from it.
AppendMessage(h, s, t) ==
  /\ Exists(s)
  /\ title' = [title EXCEPT ![s] = t] /\ UNCHANGED owner
  /\ Change(h, s, << [kind |-> "message", of |-> s, org |-> NoTitle, is |-> NoTitle],
                     [kind |-> "updated", of |-> s, org |-> NoTitle, is |-> t] >>)

Broadcast(h) ==
  /\ doing[h] # <<>> /\ Len(broadcasts) < MaxBroadcasts
  /\ broadcasts' = Append(broadcasts, Head(doing[h]))
  /\ doing' = [doing EXCEPT ![h] = Tail(@)]
  /\ UNCHANGED <<owner, title, tangled, socketVars, valid>>

-----------------------------------------------------------------------------
(***************************************************************************)
(* Sockets.                                                                *)
(***************************************************************************)
Open(c) == socket[c] = "open"
Becomes(c, state, o, n, S) ==
  /\ socket' = [socket EXCEPT ![c] = state] /\ member' = [member EXCEPT ![c] = o]
  /\ next' = [next EXCEPT ![c] = n] /\ lagged' = [lagged EXCEPT ![c] = FALSE]
  /\ subs' = [subs EXCEPT ![c] = NoSubscriptions] /\ fresh' = [fresh EXCEPT ![c] = S]
  /\ shown' = [shown EXCEPT ![c] = [s \in Chat |-> NoTitle]] /\ heard' = [heard EXCEPT ![c] = {}]
  /\ UNCHANGED <<viewVars, valid>>

\* authorize_ws and the greeting, which counts what there is
Greet(c, o) == socket[c] = "closed" /\ valid[c] /\ Becomes(c, "greeted", o, 0, {})

\* only now is the channel of the socket opened
Attach(c) ==
  /\ socket[c] = "greeted"
  /\ Becomes(c, "open", member[c], Len(broadcasts) + 1, {s \in Chat : ~Exists(s)})

\* should_deliver
ListLevel == {"added", "updated"}
\* Fault: an update is taken for one of the frames of a session.
DeliverableScoped(f, to) == f.kind = "added" \/ to.all \/ f.of \in to.of
Deliverable(f, to) == f.kind \in ListLevel \/ to.all \/ f.of \in to.of

\* frame_belongs_to_organization
Belongs(f, o) == IF f.kind = "added" THEN f.org = o ELSE Exists(f.of) /\ owner[f.of] = o

Shows(titles, f) ==
  IF f.kind = "added" \/ (f.kind = "updated" /\ titles[f.of] # NoTitle)
  THEN [titles EXCEPT ![f.of] = f.is]
  ELSE titles

Forward(c) ==
  /\ Open(c) /\ next[c] <= Len(broadcasts) /\ next[c] + Held > Len(broadcasts)
  /\ next' = [next EXCEPT ![c] = @ + 1]
  /\ LET f == broadcasts[next[c]]
     IN  IF Deliverable(f, subs[c]) /\ Belongs(f, member[c])
         THEN /\ shown' = [shown EXCEPT ![c] = Shows(@, f)]
              /\ heard' = [heard EXCEPT ![c] = @ \cup {f.of}]
         ELSE UNCHANGED <<shown, heard>>
  /\ UNCHANGED <<viewVars, valid, socket, member, subs, lagged, fresh>>

\* Lagged: the channel goes on with the oldest frame that it holds.
Lag(c) ==
  /\ Open(c) /\ next[c] + Held <= Len(broadcasts)
  /\ next' = [next EXCEPT ![c] = Len(broadcasts) - Held + 1]
  /\ lagged' = [lagged EXCEPT ![c] = TRUE]
  /\ UNCHANGED <<viewVars, valid, socket, member, subs, shown, heard, fresh>>

\* subscribe and unsubscribe; unsubscribing from all is the firehose again
Scoped(c, to) ==
  /\ Open(c) /\ subs' = [subs EXCEPT ![c] = to]
  /\ UNCHANGED <<viewVars, valid, socket, member, next, lagged, shown, heard, fresh>>
Subscribes(c, S) == Scoped(c, [all |-> FALSE, of |-> subs[c].of \cup S])
Unsubscribes(c, S) ==
  LET left == subs[c].of \ S
  IN  Scoped(c, IF S = {} \/ subs[c].all \/ left = {} THEN NoSubscriptions
                ELSE [all |-> FALSE, of |-> left])

LogOff(c) ==
  /\ valid[c] /\ valid' = [valid EXCEPT ![c] = FALSE]
  /\ UNCHANGED <<viewVars, socketVars>>
\* membership_check finds the login gone; a client also closes its socket
CloseSocket(c) == socket[c] # "closed" /\ Becomes(c, "closed", NoTitle, 0, {})

-----------------------------------------------------------------------------
StreamInit ==
  /\ owner \in [Chat -> {CHOOSE o \in Organization : TRUE}]
  /\ title = [s \in Chat |-> NoTitle]
  /\ doing = [h \in Handler |-> <<>>]
  /\ broadcasts = <<>>
  /\ socket = [c \in Client |-> "closed"] /\ member = [c \in Client |-> NoTitle]
  /\ subs = [c \in Client |-> NoSubscriptions]
  /\ next = [c \in Client |-> 0] /\ lagged = [c \in Client |-> FALSE]
  /\ shown = [c \in Client |-> [s \in Chat |-> NoTitle]]
  /\ heard = [c \in Client |-> {}] /\ fresh = [c \in Client |-> {}]
  /\ valid = [c \in Client |-> TRUE]
  /\ tangled = {}

StreamNext ==
  \/ \E h \in Handler :
       \/ \E s \in Chat, t \in Title :
            \/ PatchChat(h, s, t) \/ AppendMessage(h, s, t)
            \/ \E o \in Organization : CreateChat(h, s, o, t)
       \/ Broadcast(h)
  \/ \E c \in Client :
       \/ \E o \in Organization : Greet(c, o)
       \/ Attach(c) \/ Forward(c) \/ Lag(c) \/ LogOff(c) \/ CloseSocket(c)
       \/ \E S \in SUBSET Chat : Subscribes(c, S) \/ Unsubscribes(c, S)

StreamSpec == StreamInit /\ [][StreamNext]_streamVars

-----------------------------------------------------------------------------
(***************************************************************************)
(* Properties.                                                             *)
(***************************************************************************)
(* A client that has read its channel to the end shows every session of    *)
(* its organization that was created since its channel was opened, under   *)
(* its present title, and has heard of no other organization's, whatever   *)
(* it has subscribed to, unless its channel overflowed or two handlers     *)
(* changed the session at a time: frames are not broadcast in the order in *)
(* which the views were changed.                                           *)
ClientIsCurrent ==
  \A c \in Client : Open(c) =>
    /\ \A s \in heard[c] : owner[s] = member[c]
    /\ next[c] > Len(broadcasts) /\ ~lagged[c] =>
         \A s \in fresh[c] \ tangled :
           Exists(s) /\ owner[s] = member[c] /\ Patching(s) = {} => shown[c][s] = title[s]

=============================================================================
