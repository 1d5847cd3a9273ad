----------------------------- MODULE Sessions_proofs -----------------------------
(***************************************************************************)
(* Proofs about what clients and readers of a foreign database see of the  *)
(* sessions, ClientStream and StateDb, and about what sessions may do,     *)
(* SessionCapabilities.                                                    *)
(***************************************************************************)
EXTENDS ClientStream, StateDb, SessionCapabilities, FiniteSetTheorems, SequenceTheorems,
        WellFoundedInduction, TLAPS

USE ClientStreamAssumption

-----------------------------------------------------------------------------
(***************************************************************************)
(* ClientStream.                                                           *)
(***************************************************************************)
Frame ==
  [kind : {"added"}, of : Chat, org : Organization, is : Title]
    \cup [kind : {"updated"}, of : Chat, org : {NoTitle}, is : Title]
    \cup [kind : {"message"}, of : Chat, org : {NoTitle}, is : {NoTitle}]

StreamTypeOK ==
  /\ title \in [Chat -> Title \cup {NoTitle}] /\ DOMAIN owner = Chat
  /\ broadcasts \in Seq(Frame) /\ doing \in [Handler -> Seq(Frame)]
  /\ tangled \subseteq Chat /\ valid \in [Client -> BOOLEAN]
  /\ socket \in [Client -> {"closed", "greeted", "open"}]
  /\ DOMAIN member = Client /\ DOMAIN subs = Client
  /\ next \in [Client -> Nat] /\ lagged \in [Client -> BOOLEAN]
  /\ shown \in [Client -> [Chat -> Title \cup {NoTitle}]]
  /\ heard \in [Client -> SUBSET Chat] /\ fresh \in [Client -> SUBSET Chat]

(* A frame speaks of a session that exists, and its organization is the    *)
(* session's: no session is created twice or changes hands.                *)
Sound(f) == Exists(f.of) /\ (f.kind = "added" => owner[f.of] = f.org)
FramesSound ==
  /\ \A k \in DOMAIN broadcasts : Sound(broadcasts[k])
  /\ \A h \in Handler : \A k \in DOMAIN doing[h] : Sound(doing[h][k])

(* What a handler has yet to broadcast: the list's frame, after a message's. *)
ListOf(frames, s) ==
  /\ \A k \in DOMAIN frames : frames[k].of = s
  /\ \/ Len(frames) = 1 /\ frames[1].kind \in ListLevel
     \/ Len(frames) = 2 /\ frames[1].kind = "message" /\ frames[2].kind = "updated"
Lists == \A h \in Handler : doing[h] = <<>> \/ \E s \in Chat : ListOf(doing[h], s)

(* A session that is not tangled is changed by one handler at a time, whose *)
(* last frame has the title.                                                *)
Last(h) == doing[h][Len(doing[h])]
Alone == \A s \in Chat \ tangled : \A h, g \in Patching(s) : h = g
Final == \A s \in Chat \ tangled : \A h \in Patching(s) : Last(h).is = title[s]

(* Once it is changed by none, the last frame of the list that was broadcast *)
(* of it has the title, and the first was that of its creation.              *)
Listed(k, s) ==
  k \in DOMAIN broadcasts /\ broadcasts[k].of = s /\ broadcasts[k].kind \in ListLevel
LastBelow(k, n, s) ==
  Listed(k, s) /\ k < n /\ \A l \in DOMAIN broadcasts : k < l /\ l < n => ~Listed(l, s)
AddedAt(k, s) == k \in DOMAIN broadcasts /\ broadcasts[k].of = s /\ broadcasts[k].kind = "added"

ToldLast ==
  \A s \in Chat \ tangled : Exists(s) /\ Patching(s) = {} =>
    \E k \in DOMAIN broadcasts :
      LastBelow(k, Len(broadcasts) + 1, s) /\ broadcasts[k].is = title[s]
AddedFirst ==
  \A s \in Chat \ tangled :
    /\ \A n \in DOMAIN broadcasts : broadcasts[n].of = s /\ broadcasts[n].kind = "updated" =>
         \E k \in DOMAIN broadcasts : k < n /\ AddedAt(k, s)
    /\ \A h \in Patching(s) :
         doing[h][1].kind = "added" \/ \E k \in DOMAIN broadcasts : AddedAt(k, s)

(* What a client shows of a session is what the last frame that it has read *)
(* of it says.                                                              *)
Mine(c, s) == s \in fresh[c] \ tangled /\ Exists(s) /\ owner[s] = member[c]
UpToDate(c, s) ==
  \A k \in DOMAIN broadcasts :
    /\ LastBelow(k, next[c], s) => shown[c][s] = broadcasts[k].is
    /\ Listed(k, s) /\ k < next[c] => shown[c][s] # NoTitle
ClientOK(c) ==
  /\ next[c] \in 1..(Len(broadcasts) + 1)
  /\ \A s \in heard[c] : Exists(s) /\ owner[s] = member[c]
  /\ ~lagged[c] => \A s \in Chat : Mine(c, s) => UpToDate(c, s)
Clients == \A c \in Client : Open(c) => ClientOK(c)

ViewsInv == FramesSound /\ Lists /\ Alone /\ Final /\ ToldLast /\ AddedFirst
StreamInv == StreamTypeOK /\ ViewsInv /\ Clients

(* The initial state. *)
LEMMA StreamInitial == StreamInit => StreamInv
<1> SUFFICES ASSUME StreamInit PROVE StreamInv
  OBVIOUS
<1>1. StreamTypeOK
  BY DEF StreamInit, StreamTypeOK
<1>2. \A s \in Chat : ~Exists(s) /\ Patching(s) = {}
  BY DEF StreamInit, Exists, Patching
<1>3. broadcasts = <<>> /\ \A h \in Handler : doing[h] = <<>>
  BY DEF StreamInit
<1>4. FramesSound /\ Lists
  BY <1>3 DEF FramesSound, Lists
<1>5. Alone /\ Final /\ ToldLast /\ AddedFirst
  BY <1>2, <1>3 DEF Alone, Final, ToldLast, AddedFirst
<1>6. Clients
  BY DEF StreamInit, Clients, Open
<1> QED
  BY <1>1, <1>4, <1>5, <1>6 DEF StreamInv, ViewsInv

(* A handler changes a session and takes the frames of it.                 *)
LEMMA ChangeTypes ==
  ASSUME StreamTypeOK, NEW h \in Handler, NEW s \in Chat, NEW t \in Title, NEW frames \in Seq(Frame),
         title' = [title EXCEPT ![s] = t], DOMAIN owner' = Chat, Change(h, s, frames)
  PROVE  StreamTypeOK'
<1>1. title' \in [Chat -> Title \cup {NoTitle}] /\ doing' \in [Handler -> Seq(Frame)]
  BY DEF StreamTypeOK, Change
<1>2. tangled' \subseteq Chat
  BY DEF StreamTypeOK, Change
<1> QED
  BY <1>1, <1>2 DEF StreamTypeOK, Change, socketVars

LEMMA ChangeStep ==
  ASSUME StreamInv, NEW h \in Handler, NEW s \in Chat, NEW t \in Title, NEW frames \in Seq(Frame),
         ListOf(frames, s), frames[Len(frames)].is = t, \A k \in DOMAIN frames : Sound(frames[k])',
         title' = [title EXCEPT ![s] = t], DOMAIN owner' = Chat, Change(h, s, frames),
         \/ Exists(s) /\ owner' = owner
         \/ ~Exists(s) /\ frames[1].kind = "added" /\ \A q \in Chat \ {s} : owner'[q] = owner[q]
  PROVE  StreamInv'
<1>1. StreamTypeOK'
  BY ChangeTypes DEF StreamInv
<1>2. /\ UNCHANGED <<broadcasts, socket, member, subs, next, lagged, shown, heard, fresh>>
      /\ doing[h] = <<>> /\ doing' = [doing EXCEPT ![h] = frames]
      /\ tangled \subseteq tangled' /\ (s \notin tangled' => Patching(s) = {})
  BY DEF Change, socketVars
<1>3. /\ Exists(s)' /\ title'[s] = t
      /\ \A q \in Chat \ {s} : (Exists(q)' <=> Exists(q)) /\ title'[q] = title[q] /\ owner'[q] = owner[q]
      /\ \A q \in Chat : Exists(q) => Exists(q)' /\ owner'[q] = owner[q]
  BY DEF StreamInv, StreamTypeOK, Exists
<1>4. /\ doing'[h] = frames /\ \A g \in Handler \ {h} : doing'[g] = doing[g]
  BY <1>2 DEF StreamInv, StreamTypeOK
<1>5. frames # <<>> /\ 1 \in DOMAIN frames /\ Len(frames) \in DOMAIN frames
  BY DEF ListOf
<1>6. /\ \A q \in Chat : h \notin Patching(q)
      /\ \A q \in Chat \ {s} : Patching(q)' = Patching(q)
      /\ Patching(s)' = Patching(s) \cup {h}
  <2>1. \A q \in Chat : h \notin Patching(q)
    BY <1>2 DEF Patching
  <2>2. \A q \in Chat \ {s} : \A g \in Handler : g \in Patching(q)' <=> g \in Patching(q)
    BY <1>4, <2>1 DEF Patching, ListOf
  <2>3. \A g \in Handler : g \in Patching(s)' <=> g \in Patching(s) \cup {h}
    BY <1>4, <1>5, <2>1 DEF Patching, ListOf
  <2>4. \A q \in Chat : Patching(q) \subseteq Handler /\ Patching(q)' \subseteq Handler
    BY DEF Patching
  <2> QED
    BY <2>1, <2>2, <2>3, <2>4
<1>7. \A f \in Frame : Sound(f) => Sound(f)'
  <2>1. \A f \in Frame : f.of \in Chat
    BY DEF Frame
  <2> QED
    BY <1>3, <2>1 DEF Sound
<1>8. FramesSound'
  <2>1. \A k \in DOMAIN broadcasts' : Sound(broadcasts[k])'
    <3>1. \A k \in DOMAIN broadcasts : broadcasts[k] \in Frame
      BY DEF StreamInv, StreamTypeOK
    <3> QED
      BY <1>2, <1>7, <3>1 DEF StreamInv, ViewsInv, FramesSound, Sound
  <2>2. ASSUME NEW g \in Handler, NEW k \in DOMAIN doing'[g] PROVE Sound(doing[g][k])'
    <3>1. CASE g = h
      BY <1>4, <2>2, <3>1 DEF Sound
    <3>2. CASE g # h
      <4>1. doing[g][k] \in Frame /\ doing'[g] = doing[g]
        BY <1>4, <2>2, <3>2 DEF StreamInv, StreamTypeOK
      <4> QED
        BY <1>7, <2>2, <4>1 DEF StreamInv, ViewsInv, FramesSound, Sound
    <3> QED
      BY <3>1, <3>2
  <2> QED
    BY <2>1, <2>2 DEF FramesSound
<1>9. Lists'
  BY <1>4 DEF StreamInv, ViewsInv, Lists, ListOf
<1>10. Alone' /\ Final'
  <2>1. Alone'
    BY <1>2, <1>6 DEF StreamInv, ViewsInv, Alone
  <2>2. \A g \in Handler \ {h} : Last(g)' = Last(g)
    BY <1>4 DEF Last
  <2>3. Last(h)'.is = t
    BY <1>4 DEF Last
  <2>4. \A q \in Chat : Patching(q) \subseteq Handler
    BY DEF Patching
  <2>5. Final'
    BY <1>2, <1>3, <1>6, <2>2, <2>3, <2>4 DEF StreamInv, ViewsInv, Final
  <2> QED
    BY <2>1, <2>5
<1>11. ToldLast'
  BY <1>2, <1>3, <1>6 DEF StreamInv, ViewsInv, ToldLast, LastBelow, Listed
<1>12. AddedFirst'
  <2>1. ASSUME s \notin tangled', Exists(s) PROVE \E k \in DOMAIN broadcasts : AddedAt(k, s)
    <3>1. PICK n \in DOMAIN broadcasts : Listed(n, s)
      BY <1>2, <2>1 DEF StreamInv, ViewsInv, ToldLast, LastBelow
    <3>2. broadcasts[n].kind = "added" \/ broadcasts[n].kind = "updated"
      BY <3>1 DEF Listed, ListLevel
    <3>3. CASE broadcasts[n].kind = "added"
      BY <3>1, <3>3 DEF Listed, AddedAt
    <3>4. CASE broadcasts[n].kind = "updated"
      <4>1. s \in Chat \ tangled /\ broadcasts[n].of = s
        BY <1>2, <2>1, <3>1 DEF Listed
      <4> QED
        BY <3>4, <4>1 DEF StreamInv, ViewsInv, AddedFirst
    <3> QED
      BY <3>2, <3>3, <3>4
  <2>2. \A q \in Chat : Patching(q) \subseteq Handler
    BY DEF Patching
  <2>3. ASSUME NEW q \in Chat \ tangled', NEW g \in Patching(q)'
        PROVE  doing'[g][1].kind = "added" \/ \E k \in DOMAIN broadcasts' : AddedAt(k, q)'
    <3>1. CASE q = s
      <4>1. g = h
        BY <1>2, <1>6, <2>3, <3>1
      <4>2. CASE Exists(s)
        BY <1>2, <2>1, <2>3, <3>1, <4>2 DEF AddedAt
      <4>3. CASE ~Exists(s)
        BY <1>4, <4>1, <4>3
      <4> QED
        BY <4>2, <4>3
    <3>2. CASE q # s
      <4>1. g \in Patching(q) /\ doing'[g] = doing[g] /\ q \in Chat \ tangled
        BY <1>2, <1>4, <1>6, <2>2, <2>3, <3>2
      <4> QED
        BY <1>2, <4>1 DEF StreamInv, ViewsInv, AddedFirst, AddedAt
    <3> QED
      BY <3>1, <3>2
  <2>4. ASSUME NEW q \in Chat \ tangled', NEW n \in DOMAIN broadcasts', broadcasts'[n].of = q,
               broadcasts'[n].kind = "updated"
        PROVE  \E k \in DOMAIN broadcasts' : k < n /\ AddedAt(k, q)'
    BY <1>2, <2>4 DEF StreamInv, ViewsInv, AddedFirst, AddedAt
  <2> QED
    BY <2>3, <2>4 DEF AddedFirst
<1>13. Clients'
  <2> SUFFICES ASSUME NEW c \in Client, Open(c)' PROVE ClientOK(c)'
    BY DEF Clients
  <2>1. ClientOK(c)
    BY <1>2 DEF StreamInv, Clients, Open
  <2>2. next'[c] \in 1..(Len(broadcasts') + 1)
    BY <1>2, <2>1 DEF ClientOK
  <2>3. \A q \in heard'[c] : Exists(q)' /\ owner'[q] = member'[c]
    <3>1. heard[c] \subseteq Chat
      BY DEF StreamInv, StreamTypeOK
    <3> QED
      BY <1>2, <1>3, <2>1, <3>1 DEF ClientOK
  <2>4. ASSUME ~lagged'[c], NEW q \in Chat, Mine(c, q)' PROVE UpToDate(c, q)'
    <3>1. CASE Exists(q)
      <4>1. Mine(c, q)
        BY <1>2, <1>3, <2>4, <3>1 DEF Mine
      <4> QED
        BY <1>2, <2>1, <2>4, <4>1 DEF ClientOK, UpToDate, LastBelow, Listed
    <3>2. CASE ~Exists(q)
      <4>1. \A k \in DOMAIN broadcasts : broadcasts[k].of # q
        BY <3>2 DEF StreamInv, ViewsInv, FramesSound, Sound
      <4> QED
        BY <1>2, <4>1 DEF UpToDate, LastBelow, Listed
    <3> QED
      BY <3>1, <3>2
  <2> QED
    BY <2>2, <2>3, <2>4 DEF ClientOK
<1> QED
  BY <1>1, <1>8, <1>9, <1>10, <1>11, <1>12, <1>13 DEF StreamInv, ViewsInv

LEMMA CreateStep ==
  ASSUME StreamInv, NEW h \in Handler, NEW s \in Chat, NEW t \in Title, NEW o \in Organization,
         CreateChat(h, s, o, t)
  PROVE  StreamInv'
<1> DEFINE f == [kind |-> "added", of |-> s, org |-> o, is |-> t]
<1>1. f \in Frame /\ <<f>> \in Seq(Frame) /\ ListOf(<<f>>, s) /\ <<f>>[Len(<<f>>)].is = t
  BY DEF Frame, ListOf, ListLevel
<1>2. /\ title' = [title EXCEPT ![s] = t] /\ Change(h, s, <<f>>) /\ ~Exists(s)
      /\ owner' = [owner EXCEPT ![s] = o] /\ DOMAIN owner' = Chat
  BY DEF CreateChat, StreamInv, StreamTypeOK
<1>3. owner'[s] = o /\ title'[s] = t /\ \A q \in Chat \ {s} : owner'[q] = owner[q]
  BY <1>2 DEF StreamInv, StreamTypeOK
<1>4. \A k \in DOMAIN <<f>> : Sound(<<f>>[k])'
  <2>1. Sound(f)'
    BY <1>3 DEF Sound, Exists
  <2> QED
    BY <2>1 DEF Sound
<1>5. <<f>>[1].kind = "added"
  OBVIOUS
<1> HIDE DEF f
<1> QED
  BY <1>1, <1>2, <1>3, <1>4, <1>5, ChangeStep

LEMMA PatchStep ==
  ASSUME StreamInv, NEW h \in Handler, NEW s \in Chat, NEW t \in Title,
         PatchChat(h, s, t) \/ AppendMessage(h, s, t)
  PROVE  StreamInv'
<1> DEFINE f == [kind |-> "updated", of |-> s, org |-> NoTitle, is |-> t]
           m == [kind |-> "message", of |-> s, org |-> NoTitle, is |-> NoTitle]
<1>1. /\ title' = [title EXCEPT ![s] = t] /\ Exists(s) /\ owner' = owner
      /\ Change(h, s, <<f>>) \/ Change(h, s, <<m, f>>)
  BY DEF PatchChat, AppendMessage
<1>2. Exists(s)' /\ DOMAIN owner' = Chat
  BY <1>1 DEF StreamInv, StreamTypeOK, Exists
<1>3. Sound(f)' /\ Sound(m)'
  BY <1>2 DEF Sound
<1>4. CASE Change(h, s, <<f>>)
  <2>1. <<f>> \in Seq(Frame) /\ ListOf(<<f>>, s) /\ <<f>>[Len(<<f>>)].is = t
    BY DEF Frame, ListOf, ListLevel
  <2>2. \A k \in DOMAIN <<f>> : Sound(<<f>>[k])'
    BY <1>3 DEF Sound
  <2> HIDE DEF f
  <2> QED
    BY <1>1, <1>2, <1>4, <2>1, <2>2, ChangeStep
<1>5. CASE Change(h, s, <<m, f>>)
  <2>1. <<m, f>> \in Seq(Frame) /\ ListOf(<<m, f>>, s) /\ <<m, f>>[Len(<<m, f>>)].is = t
    BY DEF Frame, ListOf, ListLevel
  <2>2. \A k \in DOMAIN <<m, f>> : Sound(<<m, f>>[k])'
    BY <1>3 DEF Sound
  <2> HIDE DEF f, m
  <2> QED
    BY <1>1, <1>2, <1>5, <2>1, <2>2, ChangeStep
<1> QED
  BY <1>1, <1>4, <1>5

(* A handler broadcasts the first of its frames.                           *)
LEMMA BroadcastFrame ==
  ASSUME StreamInv, NEW h \in Handler, Broadcast(h)
  PROVE  /\ doing[h] # <<>> /\ doing[h][1] \in Frame
         /\ broadcasts' \in Seq(Frame) /\ doing' \in [Handler -> Seq(Frame)]
         /\ Len(broadcasts') = Len(broadcasts) + 1 /\ DOMAIN broadcasts' = 1..(Len(broadcasts) + 1)
         /\ broadcasts'[Len(broadcasts) + 1] = doing[h][1]
         /\ \A k \in DOMAIN broadcasts : k \in 1..Len(broadcasts) /\ broadcasts'[k] = broadcasts[k]
         /\ doing'[h] = Tail(doing[h]) /\ \A g \in Handler \ {h} : doing'[g] = doing[g]
<1>1. doing[h] \in Seq(Frame) /\ doing[h] # <<>> /\ broadcasts \in Seq(Frame)
  BY DEF Broadcast, StreamInv, StreamTypeOK
<1>2. Head(doing[h]) = doing[h][1] /\ doing[h][1] \in Frame /\ Tail(doing[h]) \in Seq(Frame)
  BY <1>1
<1>3. broadcasts' = Append(broadcasts, doing[h][1])
  BY <1>2 DEF Broadcast
<1>4. doing' = [doing EXCEPT ![h] = Tail(doing[h])]
  BY DEF Broadcast
<1>5. /\ broadcasts' \in Seq(Frame) /\ Len(broadcasts') = Len(broadcasts) + 1
      /\ DOMAIN broadcasts' = 1..(Len(broadcasts) + 1)
      /\ broadcasts'[Len(broadcasts) + 1] = doing[h][1]
      /\ \A k \in DOMAIN broadcasts : k \in 1..Len(broadcasts) /\ broadcasts'[k] = broadcasts[k]
  BY <1>1, <1>2, <1>3
<1>6. /\ doing' \in [Handler -> Seq(Frame)] /\ doing'[h] = Tail(doing[h])
      /\ \A g \in Handler \ {h} : doing'[g] = doing[g]
  BY <1>1, <1>2, <1>4 DEF StreamInv, StreamTypeOK
<1> QED
  BY <1>1, <1>2, <1>5, <1>6

LEMMA BroadcastStep ==
  ASSUME StreamInv, NEW h \in Handler, Broadcast(h)
  PROVE  StreamInv'
<1>1. UNCHANGED <<owner, title, tangled, socket, member, subs, next, lagged, shown, heard, fresh, valid>>
  BY DEF Broadcast, socketVars
<1>2. StreamTypeOK'
  BY <1>1, BroadcastFrame DEF StreamInv, StreamTypeOK
<1>3. PICK s \in Chat : ListOf(doing[h], s)
  BY BroadcastFrame DEF StreamInv, ViewsInv, Lists
<1> DEFINE f == doing[h][1]
<1>n. PICK N \in Nat : N = Len(broadcasts) + 1
  BY DEF StreamInv, StreamTypeOK
<1>4. /\ doing[h] \in Seq(Frame) /\ broadcasts \in Seq(Frame) /\ N = Len(broadcasts) + 1
      /\ DOMAIN broadcasts = 1..Len(broadcasts) /\ Len(broadcasts) \in Nat
  BY <1>n DEF StreamInv, StreamTypeOK
<1>5. /\ f.of = s /\ h \in Patching(s) /\ Sound(f)
      /\ \/ doing'[h] = <<>> /\ Len(doing'[h]) = 0 /\ f.kind \in ListLevel /\ Last(h) = f
         \/ /\ Len(doing'[h]) = 1 /\ doing'[h][1] = doing[h][2] /\ Last(h) = doing[h][2]
            /\ doing[h][2].of = s /\ doing[h][2].kind = "updated" /\ Sound(doing[h][2])
            /\ f.kind = "message"
  <2>1. 1 \in DOMAIN doing[h] /\ f.of = s
    BY <1>3, <1>4 DEF ListOf
  <2>2. h \in Patching(s) /\ Sound(f)
    BY <1>3, <2>1 DEF ListOf, Patching, StreamInv, ViewsInv, FramesSound
  <2>3. CASE Len(doing[h]) = 1
    <3>1. doing'[h] = <<>> /\ Last(h) = f
      <4>1. Tail(doing[h]) \in Seq(Frame) /\ Len(Tail(doing[h])) = 0
        BY <1>4, <2>3, BroadcastFrame, HeadTailProperties
      <4>2. Tail(doing[h]) = <<>>
        BY <4>1, EmptySeq
      <4> QED
        BY <2>3, <4>2, BroadcastFrame DEF Last
    <3>2. Len(doing'[h]) = 0
      BY <3>1
    <3> QED
      BY <1>3, <2>1, <2>2, <2>3, <3>1, <3>2 DEF ListOf
  <2>4. CASE Len(doing[h]) = 2
    <3>1. Len(doing'[h]) = 1 /\ doing'[h][1] = doing[h][2] /\ Last(h) = doing[h][2]
      <4>1. Len(Tail(doing[h])) = 1 /\ Tail(doing[h])[1] = doing[h][2]
        BY <1>4, <2>4
      <4> QED
        BY <2>4, <4>1, BroadcastFrame DEF Last
    <3>2. 2 \in DOMAIN doing[h]
      BY <1>4, <2>4
    <3>3. doing[h][2].of = s /\ doing[h][2].kind = "updated" /\ f.kind = "message"
      BY <1>3, <2>4, <3>2 DEF ListOf
    <3>4. Sound(doing[h][2])
      BY <3>2 DEF StreamInv, ViewsInv, FramesSound
    <3> QED
      BY <2>1, <2>2, <3>1, <3>3, <3>4
  <2> QED
    BY <1>3, <2>3, <2>4 DEF ListOf
<1>6. /\ Patching(s) \subseteq Patching(s)' \cup {h}
      /\ \A q \in Chat : Patching(q)' \subseteq Patching(q) /\ Patching(q) \subseteq Handler
      /\ \A q \in Chat \ {s} : Patching(q)' = Patching(q) /\ h \notin Patching(q)
      /\ h \in Patching(s)' => Len(doing'[h]) = 1
  <2>1. doing'[h] = <<>> \/ (Len(doing'[h]) = 1 /\ doing'[h] \in Seq(Frame))
    BY <1>5, BroadcastFrame
  <2>2. \A k \in DOMAIN doing'[h] : doing'[h][k].of = s
    BY <1>5, <2>1
  <2>3. \A k \in DOMAIN doing[h] : doing[h][k].of = s
    BY <1>3 DEF ListOf
  <2>4. \A q \in Chat : \A g \in Handler \ {h} : g \in Patching(q)' <=> g \in Patching(q)
    BY BroadcastFrame DEF Patching
  <2>5. \A q \in Chat \ {s} : h \notin Patching(q) /\ h \notin Patching(q)'
    BY <2>2, <2>3 DEF Patching
  <2>6. h \in Patching(s)' => Len(doing'[h]) = 1
    BY <2>1 DEF Patching
  <2>7. \A q \in Chat : Patching(q) \subseteq Handler /\ Patching(q)' \subseteq Handler
    BY DEF Patching
  <2>8. \A q \in Chat : Patching(q)' \subseteq Patching(q)
    BY <1>5, <2>4, <2>5, <2>7
  <2>9. \A q \in Chat \ {s} : Patching(q)' = Patching(q)
    BY <2>4, <2>5, <2>7
  <2>10. Patching(s) \subseteq Patching(s)' \cup {h}
    BY <2>4, <2>7
  <2> QED
    BY <2>5, <2>6, <2>7, <2>8, <2>9, <2>10
<1>7. FramesSound'
  <2>1. \A k \in DOMAIN broadcasts' : Sound(broadcasts[k])'
    <3>1. \A k \in DOMAIN broadcasts' : k = N \/ k \in DOMAIN broadcasts
      BY <1>4, BroadcastFrame
    <3> QED
      BY <1>1, <1>5, <3>1, BroadcastFrame DEF StreamInv, ViewsInv, FramesSound, Sound, Exists
  <2>2. ASSUME NEW g \in Handler, NEW k \in DOMAIN doing'[g] PROVE Sound(doing[g][k])'
    <3>1. CASE g = h
      <4>1. Len(doing'[h]) = 1 /\ k = 1 /\ doing'[h][1] = doing[h][2] /\ Sound(doing[h][2])
        BY <1>5, <2>2, <3>1, BroadcastFrame
      <4> QED
        BY <1>1, <3>1, <4>1 DEF Sound, Exists
    <3>2. CASE g # h
      <4>1. doing'[g] = doing[g]
        BY <3>2, BroadcastFrame
      <4>2. Sound(doing[g][k])
        BY <2>2, <4>1 DEF StreamInv, ViewsInv, FramesSound
      <4> QED
        BY <1>1, <4>1, <4>2 DEF Sound, Exists
    <3> QED
      BY <3>1, <3>2
  <2> QED
    BY <2>1, <2>2 DEF FramesSound
<1>8. Lists'
  <2>1. doing'[h] = <<>> \/ ListOf(doing'[h], s)
    <3>1. CASE Len(doing'[h]) = 1
      <4>1. DOMAIN doing'[h] = {1}
        BY <3>1, BroadcastFrame
      <4> QED
        BY <1>5, <3>1, <4>1 DEF ListOf, ListLevel
    <3> QED
      BY <1>5, <3>1
  <2>2. \A g \in Handler \ {h} : doing'[g] = <<>> \/ \E q \in Chat : ListOf(doing'[g], q)
    BY BroadcastFrame DEF StreamInv, ViewsInv, Lists
  <2> QED
    BY <2>1, <2>2 DEF Lists, ListOf
<1>9. Alone'
  BY <1>1, <1>6 DEF StreamInv, ViewsInv, Alone
<1>10. Final'
  <2>1. \A g \in Handler \ {h} : Last(g)' = Last(g)
    BY BroadcastFrame DEF Last
  <2>2. h \in Patching(s)' => Last(h)' = Last(h)
    BY <1>5, <1>6 DEF Last
  <2> QED
    BY <1>1, <1>6, <2>1, <2>2 DEF StreamInv, ViewsInv, Final
<1>11. /\ \A k \in DOMAIN broadcasts : \A q : (Listed(k, q)' <=> Listed(k, q))
       /\ \A k \in DOMAIN broadcasts : \A q : (AddedAt(k, q)' <=> AddedAt(k, q))
       /\ \A q : Listed(N, q)' <=> q = s /\ f.kind \in ListLevel
       /\ \A k \in DOMAIN broadcasts' : k = N \/ k \in DOMAIN broadcasts
       /\ \A k \in DOMAIN broadcasts : k \in DOMAIN broadcasts' /\ k < N
  <2>1. /\ \A k \in DOMAIN broadcasts' : k = N \/ k \in DOMAIN broadcasts
        /\ \A k \in DOMAIN broadcasts : k \in DOMAIN broadcasts' /\ k < N
        /\ \A k \in DOMAIN broadcasts : broadcasts'[k] = broadcasts[k]
        /\ N \in DOMAIN broadcasts' /\ broadcasts'[N] = f
    BY <1>4, BroadcastFrame
  <2>2. \A k \in DOMAIN broadcasts : \A q :
          (Listed(k, q)' <=> Listed(k, q)) /\ (AddedAt(k, q)' <=> AddedAt(k, q))
    BY <2>1 DEF Listed, AddedAt
  <2>3. \A q : Listed(N, q)' <=> q = s /\ f.kind \in ListLevel
    BY <1>5, <2>1 DEF Listed
  <2> HIDE DEF f
  <2> QED
    BY <2>1, <2>2, <2>3
<1>12. ToldLast'
  <2> SUFFICES ASSUME NEW q \in Chat \ tangled', Exists(q)', Patching(q)' = {}
               PROVE  \E k \in DOMAIN broadcasts' :
                        LastBelow(k, N + 1, q)' /\ broadcasts'[k].is = title'[q]
    BY <1>4, BroadcastFrame DEF ToldLast
  <2>1. CASE q = s
    <3>1. doing'[h] = <<>> /\ f.kind \in ListLevel /\ Last(h) = f
      <4>1. h \notin Patching(s)'
        BY <2>1
      <4>2. Len(doing'[h]) = 1 => 1 \in DOMAIN doing'[h]
        BY BroadcastFrame
      <4> QED
        BY <1>5, <4>1, <4>2 DEF Patching
    <3>2. f.is = title[s]
      BY <1>1, <1>5, <2>1, <3>1 DEF StreamInv, ViewsInv, Final
    <3>3. LastBelow(N, N + 1, s)'
      <4>1. Listed(N, s)' /\ N < N + 1
        BY <1>11, <3>1
      <4>2. \A l \in DOMAIN broadcasts' : ~(N < l /\ l < N + 1)
        BY <1>4, BroadcastFrame
      <4> QED
        BY <4>1, <4>2 DEF LastBelow
    <3>4. N \in DOMAIN broadcasts' /\ broadcasts'[N] = f
      BY <1>4, BroadcastFrame
    <3> QED
      BY <1>1, <2>1, <3>2, <3>3, <3>4
  <2>2. CASE q # s
    <3>1. PICK k \in DOMAIN broadcasts : LastBelow(k, N, q) /\ broadcasts[k].is = title[q]
      BY <1>1, <1>4, <1>6, <2>2 DEF StreamInv, ViewsInv, ToldLast, Exists
    <3>2. LastBelow(k, N + 1, q)'
      BY <1>4, <1>11, <2>2, <3>1, BroadcastFrame DEF LastBelow
    <3> QED
      BY <1>1, <1>11, <3>1, <3>2, BroadcastFrame
  <2> QED
    BY <2>1, <2>2
<1>13. AddedFirst'
  <2>1. ASSUME NEW q \in Chat \ tangled', NEW n \in DOMAIN broadcasts', broadcasts'[n].of = q,
               broadcasts'[n].kind = "updated"
        PROVE  \E k \in DOMAIN broadcasts' : k < n /\ AddedAt(k, q)'
    <3>1. CASE n = N
      <4>1. q = s /\ f.kind = "updated"
        BY <1>4, <1>5, <2>1, <3>1, BroadcastFrame
      <4>2. PICK k \in DOMAIN broadcasts : AddedAt(k, s)
        BY <1>1, <1>5, <4>1 DEF StreamInv, ViewsInv, AddedFirst
      <4> QED
        BY <1>11, <3>1, <4>1, <4>2
    <3>2. CASE n \in DOMAIN broadcasts
      <4>1. PICK k \in DOMAIN broadcasts : k < n /\ AddedAt(k, q)
        BY <1>1, <2>1, <3>2, BroadcastFrame DEF StreamInv, ViewsInv, AddedFirst
      <4> QED
        BY <1>11, <4>1
    <3> QED
      BY <1>11, <3>1, <3>2
  <2>2. ASSUME NEW q \in Chat \ tangled', NEW g \in Patching(q)'
        PROVE  doing'[g][1].kind = "added" \/ \E k \in DOMAIN broadcasts' : AddedAt(k, q)'
    <3>1. g \in Patching(q) /\ g \in Handler
      BY <1>6
    <3>2. doing[g][1].kind = "added" \/ \E k \in DOMAIN broadcasts : AddedAt(k, q)
      BY <1>1, <3>1 DEF StreamInv, ViewsInv, AddedFirst
    <3>3. CASE \E k \in DOMAIN broadcasts : AddedAt(k, q)
      BY <1>11, <3>3
    <3>4. CASE g # h /\ doing[g][1].kind = "added"
      BY <3>1, <3>4, BroadcastFrame
    <3>5. CASE g = h /\ doing[g][1].kind = "added"
      <4>1. q = s
        BY <1>6, <3>1, <3>5
      <4>2. Len(doing'[h]) = 1
        BY <1>6, <2>2, <3>5, <4>1
      <4>3. f.kind = "message"
        BY <1>5, <4>2
      <4> QED
        BY <3>5, <4>3
    <3> QED
      BY <3>2, <3>3, <3>4, <3>5
  <2> QED
    BY <2>1, <2>2 DEF AddedFirst
<1>14. Clients'
  <2> SUFFICES ASSUME NEW c \in Client, Open(c)' PROVE ClientOK(c)'
    BY DEF Clients
  <2>1. ClientOK(c)
    BY <1>1 DEF StreamInv, Clients, Open
  <2>2. next'[c] \in 1..(Len(broadcasts') + 1) /\ next[c] \in 1..N /\ next'[c] = next[c]
    BY <1>1, <1>4, <2>1, BroadcastFrame DEF ClientOK
  <2>3. \A q \in heard'[c] : Exists(q)' /\ owner'[q] = member'[c]
    BY <1>1, <2>1 DEF ClientOK, Exists
  <2>4. ASSUME ~lagged'[c], NEW q \in Chat, Mine(c, q)' PROVE UpToDate(c, q)'
    <3>1. UpToDate(c, q)
      BY <1>1, <2>1, <2>4 DEF ClientOK, Mine, Exists
    <3>2. ASSUME NEW k \in DOMAIN broadcasts', k < next[c], Listed(k, q)'
          PROVE  k \in DOMAIN broadcasts /\ Listed(k, q) /\ broadcasts'[k] = broadcasts[k]
      BY <1>4, <1>11, <2>2, <3>2, BroadcastFrame
    <3>3. ASSUME NEW k \in DOMAIN broadcasts', LastBelow(k, next[c], q)'
          PROVE  k \in DOMAIN broadcasts /\ broadcasts'[k] = broadcasts[k] /\ LastBelow(k, next[c], q)
      BY <1>1, <1>11, <3>2, <3>3 DEF LastBelow
    <3> QED
      BY <1>1, <3>1, <3>2, <3>3 DEF UpToDate, LastBelow
  <2> QED
    BY <2>2, <2>3, <2>4 DEF ClientOK
<1> QED
  BY <1>2, <1>7, <1>8, <1>9, <1>10, <1>12, <1>13, <1>14 DEF StreamInv, ViewsInv

(* The sockets.  None of their steps changes the views.                    *)
LEMMA ViewsStay ==
  ASSUME ViewsInv, UNCHANGED viewVars
  PROVE  ViewsInv'
<1>1. UNCHANGED <<owner, title, doing, broadcasts, tangled>>
  BY DEF viewVars
<1>2. \A s : Exists(s)' <=> Exists(s)
  BY <1>1 DEF Exists
<1>3. \A s : Patching(s)' = Patching(s)
  BY <1>1 DEF Patching
<1>4. FramesSound'
  BY <1>1, <1>2 DEF ViewsInv, FramesSound, Sound
<1>5. Lists' /\ Alone' /\ Final'
  BY <1>1, <1>3 DEF ViewsInv, Lists, ListOf, Alone, Final, Last
<1>6. ToldLast' /\ AddedFirst'
  BY <1>1, <1>2, <1>3 DEF ViewsInv, ToldLast, LastBelow, Listed, AddedFirst, AddedAt
<1> QED
  BY <1>4, <1>5, <1>6 DEF ViewsInv


LEMMA OtherClients ==
  ASSUME StreamInv, UNCHANGED viewVars, NEW c \in Client,
         \A d \in Client \ {c} :
           /\ socket'[d] = socket[d] /\ member'[d] = member[d] /\ next'[d] = next[d]
           /\ lagged'[d] = lagged[d] /\ shown'[d] = shown[d] /\ heard'[d] = heard[d]
           /\ fresh'[d] = fresh[d],
         Open(c)' => ClientOK(c)'
  PROVE  Clients'
<1>1. UNCHANGED <<owner, title, doing, broadcasts, tangled>>
  BY DEF viewVars
<1>2. \A s : Exists(s)' <=> Exists(s)
  BY <1>1 DEF Exists
<1>3. ASSUME NEW d \in Client \ {c}, Open(d)' PROVE ClientOK(d)'
  <2>1. ClientOK(d)
    BY <1>3 DEF Open, StreamInv, Clients
  <2>2. \A s \in Chat : Mine(d, s)' <=> Mine(d, s)
    BY <1>1, <1>2 DEF Mine
  <2>3. \A s \in Chat : UpToDate(d, s) => UpToDate(d, s)'
    BY <1>1 DEF UpToDate, LastBelow, Listed
  <2> QED
    BY <1>1, <1>2, <2>1, <2>2, <2>3 DEF ClientOK
<1> QED
  BY <1>3 DEF Clients

LEMMA BecomesStep ==
  ASSUME StreamInv, NEW c \in Client, NEW state \in {"closed", "greeted", "open"}, NEW o,
         NEW n \in Nat, NEW S \in SUBSET Chat, Becomes(c, state, o, n, S),
         state = "open" => n = Len(broadcasts) + 1 /\ \A s \in S : ~Exists(s)
  PROVE  StreamInv'
<1>1. StreamTypeOK'
  BY DEF StreamInv, StreamTypeOK, Becomes, viewVars
<1>2. /\ socket'[c] = state /\ next'[c] = n /\ heard'[c] = {} /\ fresh'[c] = S
      /\ \A d \in Client \ {c} :
           /\ socket'[d] = socket[d] /\ member'[d] = member[d] /\ next'[d] = next[d]
           /\ lagged'[d] = lagged[d] /\ shown'[d] = shown[d] /\ heard'[d] = heard[d]
           /\ fresh'[d] = fresh[d]
  BY DEF StreamInv, StreamTypeOK, Becomes
<1>3. UNCHANGED viewVars
  BY DEF Becomes
<1>4. Open(c)' => ClientOK(c)'
  <2> SUFFICES ASSUME state = "open" PROVE ClientOK(c)'
    BY <1>2 DEF Open
  <2>1. next'[c] \in 1..(Len(broadcasts') + 1)
    BY <1>2, <1>3 DEF viewVars, StreamInv, StreamTypeOK
  <2>2. \A s \in Chat : ~Mine(c, s)'
    BY <1>2, <1>3 DEF Mine, viewVars, Exists
  <2> QED
    BY <1>2, <2>1, <2>2 DEF ClientOK
<1>5. Clients'
  BY <1>2, <1>3, <1>4, OtherClients
<1> QED
  BY <1>1, <1>3, <1>5, ViewsStay DEF StreamInv

LEMMA SocketStep ==
  ASSUME StreamInv, NEW c \in Client,
         (\E o \in Organization : Greet(c, o)) \/ Attach(c) \/ CloseSocket(c)
  PROVE  StreamInv'
<1>1. ASSUME NEW o \in Organization, Greet(c, o) PROVE StreamInv'
  BY <1>1, BecomesStep DEF Greet
<1>2. CASE Attach(c)
  <2>1. PICK n \in Nat : n = Len(broadcasts) + 1
    BY DEF StreamInv, StreamTypeOK
  <2>2. PICK S \in SUBSET Chat : S = {s \in Chat : ~Exists(s)}
    OBVIOUS
  <2>3. Becomes(c, "open", member[c], n, S) /\ \A s \in S : ~Exists(s)
    BY <1>2, <2>1, <2>2 DEF Attach
  <2> QED
    BY <2>1, <2>3, BecomesStep
<1>3. CASE CloseSocket(c)
  BY <1>3, BecomesStep DEF CloseSocket
<1> QED
  BY <1>1, <1>2, <1>3

(* A lagging client, a subscription and a login that ends. *)
LEMMA LagStep ==
  ASSUME StreamInv, NEW c \in Client, Lag(c)
  PROVE  StreamInv'
<1>1. Len(broadcasts) \in Nat /\ next[c] \in Nat
  BY DEF StreamInv, StreamTypeOK
<1>2. PICK n \in Nat : n = Len(broadcasts) - Held + 1 /\ n \in 1..(Len(broadcasts) + 1)
  <2>1. Held \in Nat /\ Held >= 1 /\ Held <= Len(broadcasts)
    BY <1>1 DEF Lag
  <2>2. Len(broadcasts) - Held + 1 \in Nat /\ Len(broadcasts) - Held + 1 \in 1..(Len(broadcasts) + 1)
    BY <1>1, <2>1
  <2> QED
    BY <2>2
<1>3. /\ next' = [next EXCEPT ![c] = n] /\ lagged' = [lagged EXCEPT ![c] = TRUE]
      /\ UNCHANGED <<viewVars, valid, socket, member, subs, shown, heard, fresh>>
  BY <1>2 DEF Lag
<1>4. StreamTypeOK'
  <2>1. lagged' \in [Client -> BOOLEAN]
    BY <1>3 DEF StreamInv, StreamTypeOK
  <2>2. next' \in [Client -> Nat]
    BY <1>3 DEF StreamInv, StreamTypeOK
  <2> QED
    BY <1>3, <2>1, <2>2 DEF StreamInv, StreamTypeOK, viewVars
<1>5. ClientOK(c)'
  <2>1. ClientOK(c)
    BY DEF Lag, StreamInv, Clients
  <2>2. next'[c] \in 1..(Len(broadcasts') + 1) /\ lagged'[c]
    BY <1>2, <1>3 DEF StreamInv, StreamTypeOK, viewVars
  <2>3. \A s \in heard'[c] : Exists(s)' /\ owner'[s] = member'[c]
    BY <1>3, <2>1 DEF ClientOK, viewVars, Exists
  <2> QED
    BY <2>2, <2>3 DEF ClientOK
<1>6. Clients'
  <2>1. \A d \in Client \ {c} : next'[d] = next[d] /\ lagged'[d] = lagged[d]
    BY <1>3 DEF StreamInv, StreamTypeOK
  <2> QED
    BY <1>3, <1>5, <2>1, OtherClients
<1> QED
  BY <1>3, <1>4, <1>6, ViewsStay DEF StreamInv

LEMMA QuietStep ==
  ASSUME StreamInv, UNCHANGED viewVars, valid' \in [Client -> BOOLEAN], DOMAIN subs' = Client,
         UNCHANGED <<socket, member, next, lagged, shown, heard, fresh>>
  PROVE  StreamInv'
<1>1. StreamTypeOK'
  BY DEF StreamInv, StreamTypeOK, viewVars
<1>2. Clients'
  <2>1. UNCHANGED <<owner, title, broadcasts, tangled>>
    BY DEF viewVars
  <2>2. \A s : Exists(s)' <=> Exists(s)
    BY <2>1 DEF Exists
  <2>3. ASSUME NEW d \in Client, Open(d)' PROVE ClientOK(d)'
    <3>1. ClientOK(d)
      BY <2>3 DEF Open, StreamInv, Clients
    <3>2. \A s \in Chat : Mine(d, s)' <=> Mine(d, s)
      BY <2>1, <2>2 DEF Mine
    <3>3. \A s \in Chat : UpToDate(d, s) => UpToDate(d, s)'
      BY <2>1 DEF UpToDate, LastBelow, Listed
    <3> QED
      BY <2>1, <2>2, <3>1, <3>2, <3>3 DEF ClientOK
  <2> QED
    BY <2>3 DEF Clients
<1> QED
  BY <1>1, <1>2, ViewsStay DEF StreamInv

(* A client is forwarded the next frame of its channel.                    *)
LEMMA ForwardStep ==
  ASSUME StreamInv, NEW c \in Client, Forward(c)
  PROVE  StreamInv'
<1> DEFINE f == broadcasts[next[c]]
           taken == Deliverable(f, subs[c]) /\ Belongs(f, member[c])
<1>1. /\ ClientOK(c) /\ next[c] \in DOMAIN broadcasts /\ f \in Frame /\ f.of \in Chat /\ Sound(f)
      /\ next[c] \in Nat /\ broadcasts \in Seq(Frame)
  <2>1. ClientOK(c) /\ next[c] <= Len(broadcasts)
    BY DEF Forward, StreamInv, Clients
  <2>2. next[c] \in DOMAIN broadcasts /\ f \in Frame
    BY <2>1 DEF ClientOK, StreamInv, StreamTypeOK
  <2>3. f.of \in Chat
    BY <2>2 DEF Frame
  <2> QED
    BY <2>1, <2>2, <2>3 DEF StreamInv, StreamTypeOK, ViewsInv, FramesSound
<1>2. /\ next'[c] = next[c] + 1 /\ \A d \in Client \ {c} : next'[d] = next[d]
      /\ next' \in [Client -> Nat]
      /\ UNCHANGED <<viewVars, valid, socket, member, subs, lagged, fresh>>
  BY <1>1 DEF Forward, StreamInv, StreamTypeOK
<1>3. UNCHANGED <<owner, title, doing, broadcasts, tangled>>
  BY <1>2 DEF viewVars
<1>4. /\ shown' \in [Client -> [Chat -> Title \cup {NoTitle}]] /\ heard' \in [Client -> SUBSET Chat]
      /\ \A d \in Client \ {c} : shown'[d] = shown[d] /\ heard'[d] = heard[d]
      /\ taken => shown'[c] = Shows(shown[c], f) /\ heard'[c] = heard[c] \cup {f.of}
      /\ ~taken => shown'[c] = shown[c] /\ heard'[c] = heard[c]
  <2>1. CASE taken
    <3>1. /\ shown' = [shown EXCEPT ![c] = Shows(shown[c], f)]
          /\ heard' = [heard EXCEPT ![c] = heard[c] \cup {f.of}]
      BY <2>1 DEF Forward
    <3>2. Shows(shown[c], f) \in [Chat -> Title \cup {NoTitle}]
      BY <1>1 DEF Shows, StreamInv, StreamTypeOK, Frame
    <3> QED
      BY <1>1, <2>1, <3>1, <3>2 DEF StreamInv, StreamTypeOK
  <2>2. CASE ~taken
    <3>1. UNCHANGED <<shown, heard>>
      BY <2>2 DEF Forward
    <3> QED
      BY <2>2, <3>1 DEF StreamInv, StreamTypeOK
  <2> QED
    BY <2>1, <2>2
<1>5. StreamTypeOK'
  BY <1>2, <1>3, <1>4 DEF StreamInv, StreamTypeOK
<1>6. \A s \in heard'[c] : Exists(s)' /\ owner'[s] = member'[c]
  <2>1. taken => Exists(f.of) /\ owner[f.of] = member[c]
    BY <1>1 DEF Belongs, Sound
  <2> HIDE DEF taken, f
  <2> QED
    BY <1>1, <1>2, <1>3, <1>4, <2>1 DEF ClientOK, Exists
<1>7. ASSUME ~lagged'[c], NEW s \in Chat, Mine(c, s)' PROVE UpToDate(c, s)'
  <2>1. Mine(c, s) /\ UpToDate(c, s)
    BY <1>1, <1>2, <1>3, <1>7 DEF Mine, ClientOK, Exists
  <2>2. Listed(next[c], s) => f.of = s /\ f.kind \in ListLevel /\ f.is \in Title
    BY <1>1 DEF Listed, ListLevel, Frame
  <2>3. Listed(next[c], s) => taken
    <3>1. Exists(s) /\ owner[s] = member[c]
      BY <2>1 DEF Mine
    <3> QED
      BY <1>1, <2>2, <3>1 DEF Deliverable, Belongs, Sound
  <2>4. ~Listed(next[c], s) => shown'[c][s] = shown[c][s]
    <3>1. CASE f.of # s
      BY <1>1, <1>4, <3>1 DEF Shows, StreamInv, StreamTypeOK
    <3>2. CASE f.of = s
      <4>1. ~Listed(next[c], s) => f.kind \notin ListLevel
        BY <1>1, <3>2 DEF Listed
      <4> QED
        BY <1>1, <1>4, <4>1 DEF Shows, ListLevel
    <3> QED
      BY <3>1, <3>2
  <2>5. Listed(next[c], s) => shown'[c][s] = f.is
    <3> SUFFICES ASSUME Listed(next[c], s) PROVE shown'[c][s] = f.is
      OBVIOUS
    <3>1. shown'[c] = Shows(shown[c], f) /\ f.of = s /\ f.kind \in ListLevel
      BY <1>4, <2>2, <2>3
    <3>2. CASE f.kind = "added"
      BY <3>1, <3>2 DEF Shows, StreamInv, StreamTypeOK
    <3>3. CASE f.kind = "updated"
      <4>1. PICK k \in DOMAIN broadcasts : k < next[c] /\ AddedAt(k, s)
        <5>1. s \in Chat \ tangled
          BY <2>1 DEF Mine
        <5> QED
          BY <1>1, <3>1, <3>3, <5>1 DEF StreamInv, ViewsInv, AddedFirst
      <4>2. Listed(k, s)
        BY <4>1 DEF AddedAt, Listed, ListLevel
      <4>3. shown[c][s] # NoTitle
        BY <2>1, <4>1, <4>2 DEF UpToDate
      <4> QED
        BY <3>1, <3>3, <4>3 DEF Shows, StreamInv, StreamTypeOK
    <3> QED
      BY <3>1, <3>2, <3>3 DEF ListLevel
  <2>6. ASSUME NEW k \in DOMAIN broadcasts, Listed(k, s), k < next[c] + 1, k # next[c]
        PROVE  k < next[c]
    BY <1>1, <2>6
  <2>7. ASSUME NEW k \in DOMAIN broadcasts, LastBelow(k, next[c] + 1, s)
        PROVE  shown'[c][s] = broadcasts[k].is
    <3>1. CASE k = next[c]
      BY <2>5, <2>7, <3>1 DEF LastBelow
    <3>2. CASE k # next[c]
      <4>1. k < next[c] /\ Listed(k, s)
        BY <2>6, <2>7, <3>2 DEF LastBelow
      <4>2. ~Listed(next[c], s)
        BY <1>1, <2>7, <4>1 DEF LastBelow
      <4>3. LastBelow(k, next[c], s)
        BY <1>1, <2>7, <4>1 DEF LastBelow
      <4> QED
        BY <2>1, <2>4, <4>2, <4>3 DEF UpToDate
    <3> QED
      BY <3>1, <3>2
  <2>8. ASSUME NEW k \in DOMAIN broadcasts, Listed(k, s), k < next[c] + 1
        PROVE  shown'[c][s] # NoTitle
    <3>1. CASE Listed(next[c], s)
      BY <2>2, <2>5, <3>1
    <3>2. CASE ~Listed(next[c], s)
      <4>1. k < next[c]
        BY <2>6, <2>8, <3>2
      <4> QED
        BY <2>1, <2>4, <2>8, <3>2, <4>1 DEF UpToDate
    <3> QED
      BY <3>1, <3>2
  <2>9. /\ \A k : Listed(k, s)' <=> Listed(k, s)
        /\ \A k, n : LastBelow(k, n, s)' <=> LastBelow(k, n, s)
    BY <1>3 DEF Listed, LastBelow
  <2> QED
    BY <1>2, <1>3, <2>7, <2>8, <2>9 DEF UpToDate
<1>8. ClientOK(c)'
  <2>1. next'[c] \in 1..(Len(broadcasts') + 1)
    BY <1>1, <1>2, <1>3
  <2> QED
    BY <1>6, <1>7, <2>1 DEF ClientOK
<1>9. Clients'
  BY <1>2, <1>4, <1>8, OtherClients
<1> QED
  BY <1>2, <1>5, <1>9, ViewsStay DEF StreamInv

LEMMA StreamStep == StreamInv /\ [StreamNext]_streamVars => StreamInv'
<1> SUFFICES ASSUME StreamInv, [StreamNext]_streamVars PROVE StreamInv'
  OBVIOUS
<1>1. ASSUME NEW h \in Handler, NEW s \in Chat, NEW t \in Title,
             \/ PatchChat(h, s, t) \/ AppendMessage(h, s, t)
             \/ \E o \in Organization : CreateChat(h, s, o, t)
      PROVE  StreamInv'
  BY <1>1, PatchStep, CreateStep
<1>2. ASSUME NEW h \in Handler, Broadcast(h) PROVE StreamInv'
  BY <1>2, BroadcastStep
<1>3. ASSUME NEW c \in Client,
             (\E o \in Organization : Greet(c, o)) \/ Attach(c) \/ CloseSocket(c)
      PROVE  StreamInv'
  BY <1>3, SocketStep
<1>4. ASSUME NEW c \in Client, Forward(c) \/ Lag(c) PROVE StreamInv'
  BY <1>4, ForwardStep, LagStep
<1>5. ASSUME NEW c \in Client, LogOff(c) PROVE StreamInv'
  <2>1. valid' \in [Client -> BOOLEAN] /\ DOMAIN subs' = Client
    BY <1>5 DEF LogOff, socketVars, StreamInv, StreamTypeOK
  <2> QED
    BY <1>5, <2>1, QuietStep DEF LogOff, socketVars
<1>6. ASSUME NEW c \in Client, NEW S \in SUBSET Chat, Subscribes(c, S) \/ Unsubscribes(c, S)
      PROVE  StreamInv'
  <2>1. DOMAIN subs' = Client /\ valid' \in [Client -> BOOLEAN]
    BY <1>6 DEF Subscribes, Unsubscribes, Scoped, StreamInv, StreamTypeOK
  <2>2. UNCHANGED viewVars /\ UNCHANGED <<socket, member, next, lagged, shown, heard, fresh>>
    BY <1>6 DEF Subscribes, Unsubscribes, Scoped
  <2> QED
    BY <2>1, <2>2, QuietStep
<1>7. CASE UNCHANGED streamVars
  <2>1. DOMAIN subs' = Client /\ valid' \in [Client -> BOOLEAN]
    BY <1>7 DEF streamVars, socketVars, StreamInv, StreamTypeOK
  <2> QED
    BY <1>7, <2>1, QuietStep DEF streamVars, socketVars
<1> QED
  BY <1>1, <1>2, <1>3, <1>4, <1>5, <1>6, <1>7 DEF StreamNext

(* The frames and the views agree, and a client that has lost none of its
   channel shows what it has read of it, in every reachable state. *)
THEOREM StreamCorrect == StreamSpec => []StreamInv
BY StreamInitial, StreamStep, PTL DEF StreamSpec

(* A client that has read its channel to the end is current, and has heard of
   no other organization's sessions. *)
THEOREM ClientsAreCurrent == StreamSpec => []ClientIsCurrent
<1>1. ASSUME StreamInv PROVE ClientIsCurrent
  <2> SUFFICES ASSUME NEW c \in Client, Open(c)
               PROVE  /\ \A s \in heard[c] : owner[s] = member[c]
                      /\ next[c] > Len(broadcasts) /\ ~lagged[c] =>
                           \A s \in fresh[c] \ tangled :
                             Exists(s) /\ owner[s] = member[c] /\ Patching(s) = {}
                               => shown[c][s] = title[s]
    BY DEF ClientIsCurrent
  <2>1. ClientOK(c) /\ fresh[c] \subseteq Chat /\ Len(broadcasts) \in Nat
    BY <1>1 DEF StreamInv, StreamTypeOK, Clients
  <2>2. ASSUME next[c] > Len(broadcasts), ~lagged[c], NEW s \in fresh[c] \ tangled, Exists(s),
               owner[s] = member[c], Patching(s) = {}
        PROVE  shown[c][s] = title[s]
    <3>1. next[c] = Len(broadcasts) + 1
      BY <2>1, <2>2 DEF ClientOK
    <3>2. s \in Chat /\ UpToDate(c, s)
      BY <2>1, <2>2 DEF ClientOK, Mine
    <3>3. PICK k \in DOMAIN broadcasts :
                 LastBelow(k, Len(broadcasts) + 1, s) /\ broadcasts[k].is = title[s]
      BY <1>1, <2>2, <3>2 DEF StreamInv, ViewsInv, ToldLast
    <3> QED
      BY <3>1, <3>2, <3>3 DEF UpToDate
  <2> QED
    BY <2>1, <2>2 DEF ClientOK
<1> QED
  BY <1>1, StreamCorrect, PTL

-----------------------------------------------------------------------------
(***************************************************************************)
(* StateDb.                                                                *)
(***************************************************************************)
USE StateDbAssumption

TableRow == [of : Foreign \cup Owned, live : BOOLEAN]
Told == [of : Foreign \cup Owned, row : Nat, number : Int]

DatabaseTypeOK ==
  /\ created \subseteq Foreign \cup Owned /\ compacted \subseteq Foreign \cup Owned
  /\ table \in Seq(TableRow)
ObserverTypeOK ==
  /\ observing \in BOOLEAN /\ since \in Nat /\ cursor \in 0..Len(table)
  /\ listed \in BOOLEAN /\ missed \subseteq Nat
  /\ spooled \in Seq(Told) /\ relayed \in Seq(Told)
WorkerTypeOK ==
  /\ syncing \in BOOLEAN /\ tail \in 0..Len(table)
  /\ counts \in [Foreign \cup Owned -> Int] /\ todo \subseteq Foreign
  /\ mirrored \in Seq(Told) /\ recounted \subseteq Foreign \cup Owned

(* A row is live until its session is compacted.                           *)
LiveUntilCompacted ==
  \A i \in DOMAIN table : table[i].of \notin compacted => table[i].live

Rising(q) == \A k, l \in DOMAIN q : k < l => q[k].row < q[l].row

(* What is on its way or in the log speaks of a row that was read, and has *)
(* the number of the messages before it, unless the session is compacted;  *)
(* what was read and not missed is on its way or in the log.               *)
Genuine(o) ==
  /\ o.row \in 1..cursor /\ o.of = table[o.row].of
  /\ o.of \notin compacted => o.number = Cardinality(EarlierOf(o.row))
NoneForgotten ==
  observing =>
    \A i \in (since + 1)..cursor : table[i].of \in Foreign \ compacted /\ i \notin missed =>
      \E k \in DOMAIN Sent : Sent[k].row = i
ObserverInv ==
  /\ \A k \in DOMAIN Sent : Genuine(Sent[k])
  /\ Rising(Sent) /\ NoneForgotten

(* The next number of a session is above those given, until it is recounted. *)
Mirrored(o) ==
  o.row <= tail /\ (o.of \notin recounted => o.number < counts[o.of])
Growing ==
  \A k, l \in DOMAIN mirrored :
    k < l /\ mirrored[k].of = mirrored[l].of /\ mirrored[k].of \notin recounted
      => mirrored[k].number < mirrored[l].number
WorkerInv ==
  /\ \A k \in DOMAIN mirrored : Mirrored(mirrored[k])
  /\ Rising(mirrored) /\ Growing

StateDbInv ==
  /\ DatabaseTypeOK /\ ObserverTypeOK /\ WorkerTypeOK
  /\ LiveUntilCompacted /\ ObserverInv /\ WorkerInv

(* A finite set of numbers that is not empty has a greatest one.           *)
LEMMA GreatestExists ==
  ASSUME NEW S \in SUBSET Int, IsFiniteSet(S), S # {}
  PROVE  \E m \in S : \A x \in S : x <= m
<1> DEFINE Has(U) == \E m \in U : \A x \in U : x <= m
           T == {U \in SUBSET S : U # {} /\ ~Has(U)}
<1>1. SUFFICES ASSUME T # {} PROVE FALSE
  OBVIOUS
<1>2. IsWellFoundedOn(StrictSubsetOrdering(S), SUBSET S)
  BY FS_StrictSubsetOrderingWellFounded, FS_FiniteSubsetsOfFinite
<1>3. PICK U \in T : \A V \in T : <<V, U>> \notin StrictSubsetOrdering(S)
  <2>1. T \subseteq SUBSET S
    OBVIOUS
  <2> HIDE DEF T
  <2> QED
    BY <1>1, <1>2, <2>1, WFMin
<1>4. U \subseteq S /\ U # {} /\ ~Has(U)
  OBVIOUS
<1>5. PICK x \in U : TRUE
  BY <1>4
<1>6. U \ {x} # {}
  BY <1>4, <1>5
<1>7. <<U \ {x}, U>> \in StrictSubsetOrdering(S)
  BY <1>4, <1>5 DEF StrictSubsetOrdering
<1>8. PICK y \in U \ {x} : \A z \in U \ {x} : z <= y
  BY <1>3, <1>4, <1>6, <1>7
<1>9. x \in Int /\ y \in Int /\ \A z \in U : z \in Int
  BY <1>4
<1>10. CASE x <= y
  BY <1>4, <1>8, <1>10
<1>11. CASE y <= x
  <2>1. \A z \in U : z <= x
    BY <1>8, <1>9, <1>11
  <2> QED
    BY <1>4, <2>1
<1> QED
  BY <1>9, <1>10, <1>11

LEMMA HighestIsHighest ==
  ASSUME NEW S \in SUBSET Int, IsFiniteSet(S), NEW least \in Int
  PROVE  /\ Highest(S, least) \in S \cup {least} /\ Highest(S, least) \in Int
         /\ \A i \in S \cup {least} : i <= Highest(S, least)
<1>1. IsFiniteSet(S \cup {least}) /\ S \cup {least} \in SUBSET Int /\ S \cup {least} # {}
  BY FS_AddElement
<1>2. \E m \in S \cup {least} : \A i \in S \cup {least} : i <= m
  BY <1>1, GreatestExists
<1> QED
  BY <1>2 DEF Highest

(* Of two elements of a set the lower one has fewer elements below it.     *)
LEMMA FewerBelow ==
  ASSUME NEW S \in SUBSET Nat, IsFiniteSet(S), NEW i \in S, NEW j \in Nat, i < j
  PROVE  /\ Cardinality({k \in S : k < i}) \in Nat /\ Cardinality({k \in S : k < j}) \in Nat
         /\ Cardinality({k \in S : k < i}) < Cardinality({k \in S : k < j})
<1> DEFINE A == {k \in S : k < i}
           B == {k \in S : k < j}
<1>1. IsFiniteSet(A) /\ IsFiniteSet(B)
  BY FS_Subset
<1>2. Cardinality(A) \in Nat /\ Cardinality(B) \in Nat
  BY <1>1, FS_CardinalityType
<1>3. A \in SUBSET B /\ i \in B /\ i \notin A
  <2>1. \A k \in S : k \in Nat
    OBVIOUS
  <2>2. \A k \in S : k < i => k < j
    BY <2>1
  <2>3. ~(i < i)
    BY <2>1
  <2> QED
    BY <2>2, <2>3
<1>4. Cardinality(A) <= Cardinality(B) /\ (Cardinality(B) = Cardinality(A) => B = A)
  <2> HIDE DEF A, B
  <2> QED
    BY <1>1, <1>3, FS_Subset
<1> QED
  BY <1>2, <1>3, <1>4

(* A function on 1..n is a sequence.                                       *)
LEMMA ListOfRows ==
  ASSUME NEW n \in Nat, NEW S, NEW f \in [1..n -> S]
  PROVE  f \in Seq(S) /\ Len(f) = n
<1>1. f \in Seq(S)
  OBVIOUS
<1> QED
  BY <1>1, LenProperties

(* What one poll reads has no gap, and the cursor moves to its end.        *)
LEMMA PollReads ==
  ASSUME table \in Seq(TableRow), NEW at \in 0..Len(table), NEW n \in Nat,
         NEW S \in SUBSET (DOMAIN table), \A i \in S : at < i,
         NEW read, read = LowestOf(S, n)
  PROVE  /\ read \subseteq S /\ IsFiniteSet(read)
         /\ Highest(read, at) \in at..Len(table)
         /\ \A i \in read : i <= Highest(read, at)
         /\ \A i \in S : i <= Highest(read, at) => i \in read
<1>1. Len(table) \in Nat /\ DOMAIN table = 1..Len(table)
  BY LenProperties
<1>2. IsFiniteSet(S) /\ S \in SUBSET Nat
  <2>1. IsFiniteSet(1..Len(table)) /\ S \in SUBSET (1..Len(table))
    BY <1>1, FS_Interval
  <2>2. IsFiniteSet(S)
    BY <2>1, FS_Subset
  <2> QED
    BY <2>1, <2>2
<1>3. read \in SUBSET S /\ IsFiniteSet(read) /\ read \in SUBSET Int
  <2>1. read \in SUBSET S
    BY DEF LowestOf
  <2>2. IsFiniteSet(read)
    BY <1>2, <2>1, FS_Subset
  <2> QED
    BY <1>2, <2>1, <2>2
<1>4. /\ Highest(read, at) \in read \cup {at} /\ Highest(read, at) \in Int
      /\ \A i \in read \cup {at} : i <= Highest(read, at)
  BY <1>3, HighestIsHighest
<1>5. Highest(read, at) \in at..Len(table)
  BY <1>1, <1>3, <1>4
<1>6. ASSUME NEW i \in S, i <= Highest(read, at) PROVE i \in read
  <2>1. CASE i = Highest(read, at)
    BY <1>2, <1>4, <2>1
  <2>2. CASE i # Highest(read, at)
    <3>1. PICK m \in read : i < m
      BY <1>2, <1>4, <1>6, <2>2
    <3>2. /\ Cardinality({j \in S : j < i}) \in Nat /\ Cardinality({j \in S : j < m}) \in Nat
          /\ Cardinality({j \in S : j < i}) < Cardinality({j \in S : j < m})
      BY <1>2, <1>3, <3>1, FewerBelow
    <3>3. Cardinality({j \in S : j < m}) < n
      BY <3>1 DEF LowestOf
    <3> QED
      BY <3>2, <3>3 DEF LowestOf
  <2> QED
    BY <2>1, <2>2
<1> QED
  BY <1>3, <1>4, <1>5, <1>6

(* What an enumeration of a set of rows in their order tells.              *)
LEMMA Enumerated ==
  ASSUME NEW S \in SUBSET Nat, IsFiniteSet(S), NEW rows \in InOrder(S)
  PROVE  /\ Cardinality(S) \in Nat /\ DOMAIN rows = 1..Cardinality(S)
         /\ \A k \in DOMAIN rows : rows[k] \in S
         /\ \A k, l \in DOMAIN rows : k < l => rows[k] < rows[l]
         /\ \A i \in S : \E k \in DOMAIN rows : rows[k] = i
BY FS_CardinalityType DEF InOrder

LEMMA Joined ==
  ASSUME NEW a \in Seq(Told), NEW b \in Seq(Told), NEW j, j = a \o b
  PROVE  /\ j \in Seq(Told)
         /\ Len(a) \in Nat /\ Len(b) \in Nat /\ DOMAIN j = 1..(Len(a) + Len(b))
         /\ DOMAIN a = 1..Len(a) /\ DOMAIN b = 1..Len(b)
         /\ \A k \in DOMAIN j :
              \/ k \in DOMAIN a /\ j[k] = a[k]
              \/ k - Len(a) \in DOMAIN b /\ k > Len(a) /\ j[k] = b[k - Len(a)]
         /\ \A k \in DOMAIN a : k \in DOMAIN j /\ j[k] = a[k]
         /\ \A k \in DOMAIN b : k + Len(a) \in DOMAIN j /\ j[k + Len(a)] = b[k]
<1>1. /\ a \o b \in Seq(Told) /\ Len(a \o b) = Len(a) + Len(b)
      /\ \A i \in 1..(Len(a) + Len(b)) :
           (a \o b)[i] = IF i <= Len(a) THEN a[i] ELSE b[i - Len(a)]
  BY ConcatProperties
<1>2. /\ Len(a) \in Nat /\ Len(b) \in Nat
      /\ DOMAIN a = 1..Len(a) /\ DOMAIN b = 1..Len(b) /\ DOMAIN j = 1..Len(j)
  BY <1>1, LenProperties
<1> QED
  BY <1>1, <1>2

LEMMA RisingJoined ==
  ASSUME NEW a \in Seq(Told), NEW b \in Seq(Told), Rising(a), Rising(b), NEW n \in Nat,
         \A k \in DOMAIN a : a[k].row <= n, \A k \in DOMAIN b : n < b[k].row
  PROVE  Rising(a \o b)
<1> DEFINE j == a \o b
<1> SUFFICES ASSUME NEW k \in DOMAIN j, NEW l \in DOMAIN j, k < l PROVE j[k].row < j[l].row
  BY DEF Rising
<1>1. PICK u : u = j
  OBVIOUS
<1>2. /\ Len(a) \in Nat /\ Len(b) \in Nat /\ DOMAIN u = 1..(Len(a) + Len(b))
      /\ DOMAIN a = 1..Len(a) /\ DOMAIN b = 1..Len(b)
      /\ \A m \in DOMAIN u :
              \/ m \in DOMAIN a /\ u[m] = a[m]
              \/ m - Len(a) \in DOMAIN b /\ m > Len(a) /\ u[m] = b[m - Len(a)]
  BY <1>1, Joined
<1> HIDE DEF j
<1>3. \A m \in DOMAIN a : a[m].row \in Nat
  <2>1. \A m \in DOMAIN a : a[m] \in Told
    BY <1>2, ElementOfSeq
  <2> QED
    BY <2>1 DEF Told
<1>4. \A m \in DOMAIN b : b[m].row \in Nat
  <2>1. \A m \in DOMAIN b : b[m] \in Told
    BY <1>2, ElementOfSeq
  <2> QED
    BY <2>1 DEF Told
<1>5. CASE l \in DOMAIN a /\ u[l] = a[l]
  BY <1>1, <1>2, <1>5 DEF Rising
<1>6. CASE l - Len(a) \in DOMAIN b /\ l > Len(a) /\ u[l] = b[l - Len(a)]
  <2>1. CASE k \in DOMAIN a /\ u[k] = a[k]
    BY <1>1, <1>3, <1>4, <1>6, <2>1
  <2>2. CASE k - Len(a) \in DOMAIN b /\ k > Len(a) /\ u[k] = b[k - Len(a)]
    <3>1. k - Len(a) < l - Len(a)
      BY <1>1, <1>2
    <3> QED
      BY <1>1, <1>6, <2>2, <3>1 DEF Rising
  <2> QED
    BY <1>1, <1>2, <2>1, <2>2
<1> QED
  BY <1>1, <1>2, <1>5, <1>6

(* The initial state, and the steps of Hermes.                             *)
LEMMA StateDbInitial == StateDbInit => StateDbInv
<1> SUFFICES ASSUME StateDbInit PROVE StateDbInv
  OBVIOUS
<1>1. table = <<>> /\ spooled = <<>> /\ relayed = <<>> /\ mirrored = <<>>
  BY DEF StateDbInit
<1>2. Sent = <<>>
  BY <1>1 DEF Sent
<1>3. DatabaseTypeOK
  BY DEF StateDbInit, DatabaseTypeOK
<1>4. ObserverTypeOK
  <2>1. <<>> \in Seq(Told) /\ 0 \in 0..Len(table)
    BY <1>1
  <2> QED
    BY <2>1 DEF StateDbInit, ObserverTypeOK
<1>5. WorkerTypeOK
  <2>1. <<>> \in Seq(Told) /\ 0 \in 0..Len(table)
    BY <1>1
  <2>2. counts \in [Foreign \cup Owned -> Int]
    BY DEF StateDbInit
  <2> QED
    BY <2>1, <2>2 DEF StateDbInit, WorkerTypeOK
<1>6. LiveUntilCompacted
  BY <1>1 DEF LiveUntilCompacted
<1>7. NoneForgotten
  BY DEF StateDbInit, NoneForgotten
<1>8. ObserverInv
  BY <1>2, <1>7 DEF ObserverInv, Rising
<1>9. WorkerInv
  BY <1>1 DEF WorkerInv, Rising, Growing
<1> QED
  BY <1>3, <1>4, <1>5, <1>6, <1>8, <1>9 DEF StateDbInv

LEMMA SentTyped ==
  ASSUME ObserverTypeOK
  PROVE  Sent \in Seq(Told)
BY ConcatProperties DEF ObserverTypeOK, Sent

(* Rows are only added, and a row keeps its session.                       *)
Grown ==
  /\ table' \in Seq(TableRow) /\ Len(table) <= Len(table')
  /\ \A i \in DOMAIN table : table'[i].of = table[i].of
  /\ compacted \subseteq compacted'

LEMMA SameEarlier ==
  ASSUME DatabaseTypeOK, Grown, NEW i \in DOMAIN table
  PROVE  EarlierOf(i)' = EarlierOf(i)
<1>1. /\ Len(table) \in Nat /\ Len(table') \in Nat
      /\ DOMAIN table = 1..Len(table) /\ DOMAIN table' = 1..Len(table')
  BY LenProperties DEF DatabaseTypeOK, Grown
<1>2. \A j \in DOMAIN table' : j < i => j \in DOMAIN table
  BY <1>1
<1>3. DOMAIN table \subseteq DOMAIN table'
  BY <1>1 DEF Grown
<1> QED
  BY <1>2, <1>3 DEF EarlierOf, RowsOf, Grown

LEMMA ObserverStays ==
  ASSUME DatabaseTypeOK, ObserverTypeOK, ObserverInv, Grown, observing' => observing,
         UNCHANGED <<since, cursor, spooled, relayed, missed>>
  PROVE  ObserverInv'
<1>1. Sent' = Sent
  BY DEF Sent
<1>2. /\ Len(table) \in Nat /\ DOMAIN table = 1..Len(table)
      /\ cursor \in 0..Len(table) /\ since \in Nat
  BY LenProperties DEF DatabaseTypeOK, ObserverTypeOK
<1>3. \A o : Genuine(o) => Genuine(o)'
  <2> SUFFICES ASSUME NEW o, Genuine(o) PROVE Genuine(o)'
    OBVIOUS
  <2>1. o.row \in DOMAIN table /\ o.row \in 1..cursor
    BY <1>2 DEF Genuine
  <2>2. EarlierOf(o.row)' = EarlierOf(o.row) /\ table'[o.row].of = table[o.row].of
    BY <2>1, SameEarlier DEF Grown
  <2> QED
    BY <2>1, <2>2 DEF Genuine, Grown
<1>4. \A k \in DOMAIN Sent' : Genuine(Sent[k])'
  BY <1>1, <1>3 DEF ObserverInv
<1>5. NoneForgotten'
  <2>1. \A i \in (since + 1)..cursor : i \in DOMAIN table
    BY <1>2
  <2> QED
    BY <1>1, <2>1 DEF ObserverInv, NoneForgotten, Grown
<1>6. Rising(Sent)'
  BY <1>1 DEF ObserverInv, Rising
<1> QED
  BY <1>1, <1>4, <1>5, <1>6 DEF ObserverInv

LEMMA SameTable ==
  ASSUME DatabaseTypeOK, UNCHANGED databaseVars
  PROVE  Grown /\ DatabaseTypeOK'
BY LenProperties DEF DatabaseTypeOK, Grown, databaseVars

LEMMA WorkerStays ==
  ASSUME WorkerInv, UNCHANGED <<tail, counts, mirrored, recounted>>
  PROVE  WorkerInv'
BY DEF WorkerInv, Mirrored, Rising, Growing

LEMMA HermesStep ==
  ASSUME StateDbInv, NEW s \in Foreign \cup Owned,
         InsertSession(s) \/ InsertMessage(s) \/ Compact(s)
  PROVE  StateDbInv'
<1>1. UNCHANGED observerVars /\ UNCHANGED workerVars
  BY DEF InsertSession, InsertMessage, Compact
<1>2. /\ Len(table) \in Nat /\ DOMAIN table = 1..Len(table) /\ table \in Seq(TableRow)
      /\ \A i \in DOMAIN table : table[i] \in TableRow
  <2>1. table \in Seq(TableRow)
    BY DEF StateDbInv, DatabaseTypeOK
  <2>2. Len(table) \in Nat /\ DOMAIN table = 1..Len(table)
    BY <2>1, LenProperties
  <2> QED
    BY <2>1, <2>2, ElementOfSeq
<1>3. DatabaseTypeOK' /\ Grown /\ LiveUntilCompacted'
  <2>1. CASE InsertSession(s)
    BY <1>2, <2>1 DEF InsertSession, StateDbInv, DatabaseTypeOK, Grown, LiveUntilCompacted
  <2>2. CASE InsertMessage(s)
    <3>1. [of |-> s, live |-> TRUE] \in TableRow
      BY DEF TableRow
    <3>2. /\ table' \in Seq(TableRow) /\ Len(table') = Len(table) + 1
          /\ \A i \in 1..Len(table) : table'[i] = table[i]
          /\ table'[Len(table) + 1] = [of |-> s, live |-> TRUE]
      BY <1>2, <2>2, <3>1, AppendProperties DEF InsertMessage
    <3>3. DOMAIN table' = 1..(Len(table) + 1)
      BY <3>2, LenProperties
    <3>4. LiveUntilCompacted'
      <4> SUFFICES ASSUME NEW i \in 1..(Len(table) + 1), table'[i].of \notin compacted
                   PROVE  table'[i].live
        BY <2>2, <3>3 DEF LiveUntilCompacted, InsertMessage
      <4>1. CASE i = Len(table) + 1
        BY <3>2, <4>1
      <4>2. CASE i \in 1..Len(table)
        BY <1>2, <3>2, <4>2 DEF StateDbInv, LiveUntilCompacted
      <4> QED
        BY <1>2, <4>1, <4>2
    <3> QED
      BY <1>2, <2>2, <3>2, <3>4 DEF InsertMessage, StateDbInv, DatabaseTypeOK, Grown
  <2>3. CASE Compact(s)
    <3>1. /\ DOMAIN table' = 1..Len(table)
          /\ \A i \in DOMAIN table : table'[i] = IF i \in LiveRows(s) THEN [of |-> s, live |-> FALSE] ELSE table[i]
      BY <1>2, <2>3 DEF Compact
    <3>2. \A i \in DOMAIN table : i \in LiveRows(s) => table[i].of = s
      BY DEF LiveRows, RowsOf
    <3>3. \A i \in DOMAIN table : table'[i] \in TableRow
      <4>1. [of |-> s, live |-> FALSE] \in TableRow
        BY DEF TableRow
      <4> QED
        BY <1>2, <3>1, <4>1
    <3>4. table' \in Seq(TableRow) /\ Len(table') = Len(table)
      <4>1. table' \in [1..Len(table) -> TableRow]
        BY <1>2, <2>3, <3>1, <3>3 DEF Compact
      <4> QED
        BY <1>2, <4>1, ListOfRows
    <3>5. compacted' = compacted \cup {s} /\ created' = created
      BY <2>3 DEF Compact
    <3>6. \A i \in DOMAIN table : table'[i].of = table[i].of
      BY <3>1, <3>2
    <3>7. LiveUntilCompacted'
      <4> SUFFICES ASSUME NEW i \in 1..Len(table), table'[i].of \notin compacted'
                   PROVE  table'[i].live
        BY <3>1 DEF LiveUntilCompacted
      <4>1. table[i].of \notin compacted /\ table[i].of # s
        BY <1>2, <3>5, <3>6
      <4>2. table'[i] = table[i]
        BY <1>2, <3>1, <3>2, <4>1
      <4> QED
        BY <1>2, <4>1, <4>2 DEF StateDbInv, LiveUntilCompacted
    <3> QED
      BY <1>2, <3>4, <3>5, <3>6, <3>7 DEF StateDbInv, DatabaseTypeOK, Grown
  <2> QED
    BY <2>1, <2>2, <2>3
<1>4. Len(table') \in Nat /\ Len(table) <= Len(table')
  BY <1>3, LenProperties DEF Grown
<1>5. ObserverTypeOK' /\ WorkerTypeOK'
  BY <1>1, <1>2, <1>4 DEF StateDbInv, ObserverTypeOK, WorkerTypeOK, observerVars, workerVars
<1>6. ObserverInv'
  BY <1>1, <1>3, ObserverStays DEF StateDbInv, observerVars
<1>7. WorkerInv'
  BY <1>1, WorkerStays DEF StateDbInv, workerVars
<1> QED
  BY <1>3, <1>5, <1>6, <1>7 DEF StateDbInv

(* The number of a row is that of the messages of its session before it.   *)
LEMMA RowsFinite ==
  ASSUME DatabaseTypeOK
  PROVE  /\ Len(table) \in Nat /\ DOMAIN table = 1..Len(table)
         /\ \A i \in DOMAIN table : table[i] \in TableRow
         /\ \A S \in SUBSET (DOMAIN table) :
              IsFiniteSet(S) /\ S \in SUBSET Nat /\ Cardinality(S) \in Nat
<1>1. Len(table) \in Nat /\ DOMAIN table = 1..Len(table)
  BY LenProperties DEF DatabaseTypeOK
<1>2. \A i \in DOMAIN table : table[i] \in TableRow
  BY <1>1, ElementOfSeq DEF DatabaseTypeOK
<1>3. ASSUME NEW S \in SUBSET (DOMAIN table)
      PROVE  IsFiniteSet(S) /\ S \in SUBSET Nat /\ Cardinality(S) \in Nat
  <2>1. IsFiniteSet(1..Len(table)) /\ S \in SUBSET (1..Len(table))
    BY <1>1, FS_Interval
  <2>2. IsFiniteSet(S)
    BY <2>1, FS_Subset
  <2>3. Cardinality(S) \in Nat
    BY <2>2, FS_CardinalityType
  <2> QED
    BY <1>1, <2>1, <2>2, <2>3
<1> QED
  BY <1>1, <1>2, <1>3

LEMMA EarlierCounted ==
  ASSUME DatabaseTypeOK, NEW i \in DOMAIN table, NEW j \in DOMAIN table,
         i < j, table[i].of = table[j].of
  PROVE  /\ Cardinality(EarlierOf(i)) \in Nat /\ Cardinality(EarlierOf(j)) \in Nat
         /\ Cardinality(EarlierOf(i)) < Cardinality(EarlierOf(j))
<1>1. PICK S : S = RowsOf(table[i].of)
  OBVIOUS
<1>2. S \in SUBSET (DOMAIN table) /\ i \in S
  BY <1>1 DEF RowsOf
<1>3. IsFiniteSet(S) /\ S \in SUBSET Nat /\ j \in Nat
  BY <1>2, RowsFinite
<1>4. /\ Cardinality({k \in S : k < i}) \in Nat /\ Cardinality({k \in S : k < j}) \in Nat
      /\ Cardinality({k \in S : k < i}) < Cardinality({k \in S : k < j})
  BY <1>2, <1>3, FewerBelow
<1>5. EarlierOf(i) = {k \in S : k < i} /\ EarlierOf(j) = {k \in S : k < j}
  BY <1>1 DEF EarlierOf
<1> QED
  BY <1>4, <1>5

LEMMA Numbered ==
  ASSUME DatabaseTypeOK, LiveUntilCompacted, NEW i \in DOMAIN table
  PROVE  /\ NumberOf(i) \in Int
         /\ table[i].of \notin compacted => NumberOf(i) = Cardinality(EarlierOf(i))
<1>1. PICK S : S = {j \in LiveRows(table[i].of) : j <= i}
  OBVIOUS
<1>2. S \in SUBSET (DOMAIN table)
  BY <1>1 DEF LiveRows, RowsOf
<1>3. IsFiniteSet(S) /\ Cardinality(S) \in Nat
  BY <1>2, RowsFinite
<1>4. NumberOf(i) = Cardinality(S) - 1
  BY <1>1 DEF NumberOf
<1>5. ASSUME table[i].of \notin compacted PROVE NumberOf(i) = Cardinality(EarlierOf(i))
  <2>1. PICK E : E = EarlierOf(i)
    OBVIOUS
  <2>2. E \in SUBSET (DOMAIN table)
    BY <2>1 DEF EarlierOf, RowsOf
  <2>3. IsFiniteSet(E) /\ Cardinality(E) \in Nat
    BY <2>2, RowsFinite
  <2>4. i \in Nat /\ \A j \in DOMAIN table : j \in Nat
    BY RowsFinite
  <2>5. \A j \in DOMAIN table : j \in S <=> table[j].of = table[i].of /\ j <= i
    BY <1>1, <1>5 DEF LiveRows, RowsOf, LiveUntilCompacted
  <2>6. \A j \in DOMAIN table : j \in E <=> table[j].of = table[i].of /\ j < i
    BY <2>1 DEF EarlierOf, RowsOf
  <2>7. S = E \cup {i} /\ i \notin E
    BY <1>2, <2>2, <2>4, <2>5, <2>6
  <2>8. Cardinality(S) = Cardinality(E) + 1
    BY <2>3, <2>7, FS_AddElement
  <2> QED
    BY <1>4, <2>1, <2>3, <2>8
<1> QED
  BY <1>3, <1>4, <1>5

(* The steps of the observer.                                              *)
LEMMA ObserverKeeps ==
  ASSUME StateDbInv, UNCHANGED databaseVars, UNCHANGED workerVars
  PROVE  DatabaseTypeOK' /\ Grown /\ LiveUntilCompacted' /\ WorkerTypeOK' /\ WorkerInv'
<1>1. DatabaseTypeOK' /\ Grown
  BY SameTable DEF StateDbInv
<1>2. WorkerInv'
  BY WorkerStays DEF StateDbInv, workerVars
<1>3. LiveUntilCompacted'
  BY DEF StateDbInv, LiveUntilCompacted, databaseVars
<1>4. WorkerTypeOK'
  BY DEF StateDbInv, WorkerTypeOK, databaseVars, workerVars
<1> QED
  BY <1>1, <1>2, <1>3, <1>4

LEMMA OpenObserverStep ==
  ASSUME StateDbInv, OpenObserver
  PROVE  StateDbInv'
<1>1. UNCHANGED databaseVars /\ UNCHANGED workerVars
  BY DEF OpenObserver
<1>2. /\ observing' = TRUE /\ since' = Len(table) /\ cursor' = Len(table)
      /\ UNCHANGED <<listed, spooled, relayed, missed>> /\ UNCHANGED <<table, compacted>>
  BY DEF OpenObserver, databaseVars
<1>3. Len(table) \in Nat /\ cursor \in 0..Len(table)
  BY RowsFinite DEF StateDbInv, ObserverTypeOK
<1>4. ObserverTypeOK'
  BY <1>2, <1>3 DEF StateDbInv, ObserverTypeOK
<1>5. Sent' = Sent
  BY <1>2 DEF Sent
<1>6. \A o : Genuine(o) => Genuine(o)'
  BY <1>2, <1>3 DEF Genuine, EarlierOf, RowsOf
<1>7. NoneForgotten'
  BY <1>2, <1>3 DEF NoneForgotten
<1>8. ObserverInv'
  BY <1>5, <1>6, <1>7 DEF StateDbInv, ObserverInv, Rising
<1> QED
  BY <1>1, <1>4, <1>8, ObserverKeeps DEF StateDbInv

LEMMA QuietObserverStep ==
  ASSUME StateDbInv, OrbitStops \/ PollSessions
  PROVE  StateDbInv'
<1>1. UNCHANGED databaseVars /\ UNCHANGED workerVars
  BY DEF OrbitStops, PollSessions
<1>2. UNCHANGED <<since, cursor, spooled, relayed, missed>> /\ (observing' => observing)
  BY DEF OrbitStops, PollSessions
<1>3. observing' \in BOOLEAN /\ listed' \in BOOLEAN
  BY DEF OrbitStops, PollSessions, StateDbInv, ObserverTypeOK
<1>4. ObserverTypeOK'
  BY <1>1, <1>2, <1>3 DEF StateDbInv, ObserverTypeOK, databaseVars
<1>5. ObserverInv'
  BY <1>1, <1>2, ObserverStays, ObserverKeeps DEF StateDbInv
<1> QED
  BY <1>1, <1>4, <1>5, ObserverKeeps DEF StateDbInv

(* A poll that fails: what it had read is missed.                          *)
LEMMA PollFailsStep ==
  ASSUME StateDbInv, PollFails
  PROVE  StateDbInv'
<1>1. UNCHANGED databaseVars /\ UNCHANGED workerVars /\ UNCHANGED <<table, compacted>>
  BY DEF PollFails, databaseVars
<1>2. PICK n \in 0..Limit :
        /\ missed' = missed \cup LowestOf(Unread, n)
        /\ cursor' = Highest(LowestOf(Unread, n), cursor)
  BY DEF PollFails
<1>3. PICK read : read = LowestOf(Unread, n)
  OBVIOUS
<1>4. Len(table) \in Nat /\ DOMAIN table = 1..Len(table) /\ cursor \in 0..Len(table)
  BY RowsFinite DEF StateDbInv, ObserverTypeOK
<1>5. PICK S : S = Unread
  OBVIOUS
<1>6. S \in SUBSET (DOMAIN table) /\ (\A i \in S : cursor < i) /\ read = LowestOf(S, n)
  BY <1>3, <1>4, <1>5 DEF Unread
<1>7. /\ read \subseteq S /\ cursor' \in cursor..Len(table)
      /\ \A i \in S : i <= cursor' => i \in read
  BY <1>2, <1>3, <1>4, <1>6, PollReads DEF StateDbInv, DatabaseTypeOK
<1>8. /\ UNCHANGED <<observing, since, spooled, relayed>> /\ listed' = FALSE
      /\ missed' = missed \cup read
  BY <1>2, <1>3 DEF PollFails
<1>9. ObserverTypeOK'
  <2>1. missed' \subseteq Nat
    <3>1. missed \subseteq Nat
      BY DEF StateDbInv, ObserverTypeOK
    <3>2. read \subseteq Nat
      BY <1>4, <1>6, <1>7
    <3> QED
      BY <1>8, <3>1, <3>2
  <2>2. cursor' \in 0..Len(table')
    BY <1>1, <1>4, <1>7
  <2> QED
    BY <1>8, <2>1, <2>2 DEF StateDbInv, ObserverTypeOK
<1>10. Sent' = Sent
  BY <1>8 DEF Sent
<1>11. \A o : Genuine(o) => Genuine(o)'
  BY <1>1, <1>4, <1>7 DEF Genuine, EarlierOf, RowsOf
<1>12. NoneForgotten'
  <2> SUFFICES ASSUME observing', NEW i \in (since + 1)..cursor',
                      table[i].of \in Foreign \ compacted, i \notin missed'
               PROVE  \E k \in DOMAIN Sent : Sent[k].row = i
    BY <1>1, <1>8, <1>10 DEF NoneForgotten
  <2>1. since \in Nat
    BY DEF StateDbInv, ObserverTypeOK
  <2>2. CASE i <= cursor
    BY <1>4, <1>8, <2>1, <2>2 DEF StateDbInv, ObserverInv, NoneForgotten
  <2>3. CASE cursor < i
    <3>1. i \in S
      BY <1>4, <1>5, <1>7, <2>1, <2>3 DEF Unread
    <3> QED
      BY <1>7, <1>8, <3>1
  <2> QED
    BY <1>4, <2>1, <2>2, <2>3
<1>13. ObserverInv'
  BY <1>10, <1>11, <1>12 DEF StateDbInv, ObserverInv, Rising
<1> QED
  BY <1>1, <1>9, <1>13, ObserverKeeps DEF StateDbInv

(* A poll: each row that is live is spooled, in the order of the rows, or  *)
(* missed.                                                                 *)
LEMMA PollMessagesStep ==
  ASSUME StateDbInv, PollMessages
  PROVE  StateDbInv'
<1>1. /\ UNCHANGED databaseVars /\ UNCHANGED workerVars /\ UNCHANGED <<table, compacted>>
      /\ UNCHANGED <<observing, since, relayed>> /\ listed' = FALSE
  BY DEF PollMessages, databaseVars
<1>2. PICK S, read, live : S = Unread /\ read = LowestOf(S, Limit) /\ live = {i \in read : table[i].live}
  OBVIOUS
<1>3. PICK kept \in SUBSET live : \E rows \in InOrder(kept) :
        /\ spooled' = spooled \o [n \in DOMAIN rows |-> Observation(rows[n])]
        /\ missed' = missed \cup (live \ kept)
        /\ cursor' = Highest(read, cursor)
  BY <1>2 DEF PollMessages, Passed
<1>a. PICK rows \in InOrder(kept) :
        /\ spooled' = spooled \o [n \in DOMAIN rows |-> Observation(rows[n])]
        /\ missed' = missed \cup (live \ kept)
        /\ cursor' = Highest(read, cursor)
  BY <1>3
<1>4. PICK new : new = [n \in DOMAIN rows |-> Observation(rows[n])]
  OBVIOUS
<1>5. /\ Len(table) \in Nat /\ DOMAIN table = 1..Len(table)
      /\ cursor \in 0..Len(table) /\ since \in Nat
      /\ \A i \in DOMAIN table : table[i] \in TableRow
  BY RowsFinite DEF StateDbInv, ObserverTypeOK
<1>6. S \in SUBSET (DOMAIN table) /\ (\A i \in S : cursor < i)
  BY <1>2, <1>5 DEF Unread
<1>7. /\ read \subseteq S /\ cursor' \in cursor..Len(table)
      /\ \A i \in read : i <= cursor'
      /\ \A i \in S : i <= cursor' => i \in read
  BY <1>2, <1>a, <1>5, <1>6, PollReads DEF StateDbInv, DatabaseTypeOK
<1>8. kept \in SUBSET (DOMAIN table) /\ kept \subseteq S /\ live \subseteq S
  BY <1>2, <1>6, <1>7
<1>9. /\ Cardinality(kept) \in Nat /\ DOMAIN rows = 1..Cardinality(kept)
      /\ \A k \in DOMAIN rows : rows[k] \in kept
      /\ \A k, l \in DOMAIN rows : k < l => rows[k] < rows[l]
      /\ \A i \in kept : \E k \in DOMAIN rows : rows[k] = i
  <2>1. IsFiniteSet(kept) /\ kept \in SUBSET Nat
    BY <1>8, RowsFinite DEF StateDbInv
  <2> QED
    BY <2>1, Enumerated
<1>10. /\ DOMAIN new = DOMAIN rows
       /\ \A k \in DOMAIN rows : /\ new[k].row = rows[k] /\ new[k].of = table[rows[k]].of
                                 /\ new[k].number = NumberOf(rows[k])
  BY <1>4 DEF Observation
<1>11. new \in Seq(Told)
  <2>1. \A k \in DOMAIN rows : Observation(rows[k]) \in Told
    <3> SUFFICES ASSUME NEW k \in DOMAIN rows PROVE Observation(rows[k]) \in Told
      OBVIOUS
    <3>1. rows[k] \in DOMAIN table /\ rows[k] \in Nat /\ table[rows[k]] \in TableRow
      BY <1>5, <1>8, <1>9
    <3>2. NumberOf(rows[k]) \in Int
      BY <3>1, Numbered DEF StateDbInv
    <3> QED
      BY <3>1, <3>2 DEF Observation, Told, TableRow
  <2>2. new \in [1..Cardinality(kept) -> Told]
    BY <1>4, <1>9, <2>1
  <2> QED
    BY <1>9, <2>2, ListOfRows
<1>12. spooled \in Seq(Told) /\ relayed \in Seq(Told) /\ Sent \in Seq(Told)
  BY SentTyped DEF StateDbInv, ObserverTypeOK
<1>13. ObserverTypeOK'
  <2>1. missed' \subseteq Nat
    <3>1. missed \subseteq Nat
      BY DEF StateDbInv, ObserverTypeOK
    <3>2. live \subseteq Nat
      BY <1>5, <1>6, <1>8
    <3> QED
      BY <1>a, <3>1, <3>2
  <2>2. cursor' \in 0..Len(table')
    BY <1>1, <1>5, <1>7
  <2>3. spooled' \in Seq(Told)
    BY <1>a, <1>4, <1>11, <1>12, ConcatProperties
  <2> QED
    BY <1>1, <2>1, <2>2, <2>3 DEF StateDbInv, ObserverTypeOK
<1>14. Sent' = Sent \o new
  <2>1. Sent' = relayed \o (spooled \o new)
    BY <1>1, <1>a, <1>4 DEF Sent
  <2>2. relayed \in Seq(Told) /\ spooled \in Seq(Told) /\ new \in Seq(Told)
    BY <1>11, <1>12
  <2>3. (relayed \o spooled) \o new = relayed \o (spooled \o new)
    BY <2>2, ConcatAssociative
  <2> QED
    BY <2>1, <2>3 DEF Sent
<1>15. PICK sent, all : sent = Sent /\ all = Sent \o new
  OBVIOUS
<1>16. /\ \A k \in DOMAIN all :
            \/ k \in DOMAIN sent /\ all[k] = sent[k]
            \/ \E m \in DOMAIN new : all[k] = new[m]
       /\ \A k \in DOMAIN sent : k \in DOMAIN all /\ all[k] = sent[k]
       /\ \A m \in DOMAIN new : \E k \in DOMAIN all : all[k] = new[m]
  <2>1. /\ \A k \in DOMAIN all :
             \/ k \in DOMAIN sent /\ all[k] = sent[k]
             \/ k - Len(sent) \in DOMAIN new /\ k > Len(sent) /\ all[k] = new[k - Len(sent)]
        /\ \A k \in DOMAIN sent : k \in DOMAIN all /\ all[k] = sent[k]
        /\ \A k \in DOMAIN new : k + Len(sent) \in DOMAIN all /\ all[k + Len(sent)] = new[k]
    BY <1>11, <1>12, <1>15, Joined
  <2> QED
    BY <2>1
<1>17. \A o : Genuine(o) => Genuine(o)'
  BY <1>1, <1>5, <1>7 DEF Genuine, EarlierOf, RowsOf
<1>18. \A m \in DOMAIN new : Genuine(new[m])'
  <2> SUFFICES ASSUME NEW m \in DOMAIN new PROVE Genuine(new[m])'
    OBVIOUS
  <2>1. rows[m] \in read /\ rows[m] \in DOMAIN table /\ rows[m] \in 1..cursor'
    BY <1>2, <1>5, <1>7, <1>8, <1>9, <1>10
  <2>2. EarlierOf(rows[m])' = EarlierOf(rows[m])
    BY <1>1 DEF EarlierOf, RowsOf
  <2>3. table[rows[m]].of \notin compacted => NumberOf(rows[m]) = Cardinality(EarlierOf(rows[m]))
    BY <2>1, Numbered DEF StateDbInv
  <2> QED
    BY <1>1, <1>10, <2>1, <2>2, <2>3 DEF Genuine
<1>19. Rising(Sent \o new)
  <2>1. \A k \in DOMAIN sent : sent[k].row <= cursor
    BY <1>5, <1>15 DEF StateDbInv, ObserverInv, Genuine
  <2>2. \A m \in DOMAIN new : cursor < new[m].row
    BY <1>6, <1>8, <1>9, <1>10
  <2>3. Rising(new)
    BY <1>9, <1>10 DEF Rising
  <2> QED
    <3>1. sent \in Seq(Told) /\ Rising(sent) /\ cursor \in Nat
      BY <1>5, <1>12, <1>15 DEF StateDbInv, ObserverInv
    <3>2. Rising(sent \o new)
      BY <1>11, <2>1, <2>2, <2>3, <3>1, RisingJoined
    <3> QED
      BY <1>15, <3>2
<1>20. NoneForgotten'
  <2> SUFFICES ASSUME observing, NEW i \in (since + 1)..cursor',
                      table[i].of \in Foreign \ compacted, i \notin missed'
               PROVE  \E k \in DOMAIN all : all[k].row = i
    BY <1>1, <1>14, <1>15 DEF NoneForgotten
  <2>1. CASE i <= cursor
    <3>1. i \in (since + 1)..cursor /\ i \notin missed
      BY <1>a, <1>5, <1>7, <2>1
    <3>2. PICK k \in DOMAIN sent : sent[k].row = i
      BY <1>15, <3>1 DEF StateDbInv, ObserverInv, NoneForgotten
    <3> QED
      BY <1>16, <3>2
  <2>2. CASE cursor < i
    <3>1. i \in S /\ i \in read /\ table[i].live
      BY <1>2, <1>5, <1>7, <2>2 DEF Unread, StateDbInv, LiveUntilCompacted
    <3>2. i \in kept
      BY <1>2, <1>a, <3>1
    <3>3. PICK m \in DOMAIN rows : rows[m] = i
      BY <1>9, <3>2
    <3> QED
      BY <1>10, <1>16, <3>3
  <2> QED
    BY <1>5, <1>7, <2>1, <2>2
<1>21. ObserverInv'
  <2>1. \A k \in DOMAIN all : Genuine(all[k])'
    BY <1>15, <1>16, <1>17, <1>18 DEF StateDbInv, ObserverInv
  <2>2. Sent' = all /\ Rising(all)
    BY <1>14, <1>15, <1>19
  <2> QED
    BY <1>20, <2>1, <2>2 DEF ObserverInv, Rising
<1> QED
  BY <1>1, <1>13, <1>21, ObserverKeeps DEF StateDbInv

(* Axis accepts an observation: it appends it unless it has its number,    *)
(* which only one of a compacted session can meet.                         *)
LEMMA AcceptStep ==
  ASSUME StateDbInv, Accept
  PROVE  StateDbInv'
<1>1. /\ UNCHANGED databaseVars /\ UNCHANGED workerVars /\ UNCHANGED <<table, compacted>>
      /\ UNCHANGED <<observing, since, cursor, listed, missed>>
      /\ spooled # <<>> /\ spooled' = Tail(spooled)
      /\ relayed' = IF Seen(Head(spooled)) THEN relayed ELSE Append(relayed, Head(spooled))
  BY DEF Accept, databaseVars
<1>2. spooled \in Seq(Told) /\ relayed \in Seq(Told)
  BY DEF StateDbInv, ObserverTypeOK
<1>3. PICK head, rest, sent, after : /\ head = Head(spooled) /\ rest = Tail(spooled)
                                     /\ sent = Sent /\ after = relayed' \o rest
  OBVIOUS
<1>4. /\ head \in Told /\ rest \in Seq(Told) /\ Len(rest) = Len(spooled) - 1
      /\ \A k \in 1..Len(rest) : rest[k] = spooled[k + 1]
      /\ Len(spooled) \in Nat /\ Len(relayed) \in Nat /\ head = spooled[1] /\ Len(spooled) > 0
      /\ DOMAIN rest = 1..Len(rest) /\ DOMAIN spooled = 1..Len(spooled) /\ DOMAIN relayed = 1..Len(relayed)
  <2>1. /\ head \in Told /\ rest \in Seq(Told) /\ Len(rest) = Len(spooled) - 1
        /\ \A k \in 1..Len(rest) : rest[k] = spooled[k + 1]
    BY <1>1, <1>2, <1>3, HeadTailProperties
  <2>2. Len(spooled) \in Nat /\ Len(relayed) \in Nat /\ Len(spooled) > 0
    BY <1>1, <1>2, EmptySeq, LenProperties
  <2>3. DOMAIN rest = 1..Len(rest) /\ DOMAIN spooled = 1..Len(spooled) /\ DOMAIN relayed = 1..Len(relayed)
    BY <1>2, <2>1, LenProperties
  <2> QED
    BY <1>3, <2>1, <2>2, <2>3
<1>5. /\ DOMAIN sent = 1..(Len(relayed) + Len(spooled))
      /\ \A k \in DOMAIN relayed : k \in DOMAIN sent /\ sent[k] = relayed[k]
      /\ \A k \in DOMAIN spooled : k + Len(relayed) \in DOMAIN sent /\ sent[k + Len(relayed)] = spooled[k]
  BY <1>2, <1>3, Joined DEF Sent
<1>6. relayed' \in Seq(Told)
  <2>1. Append(relayed, head) \in Seq(Told)
    BY <1>2, <1>4, AppendProperties
  <2> QED
    BY <1>1, <1>2, <1>3, <2>1
<1>7. ObserverTypeOK'
  BY <1>1, <1>3, <1>4, <1>6 DEF StateDbInv, ObserverTypeOK
<1>8. Sent' = after
  BY <1>1, <1>3 DEF Sent
<1>9. \A o : Genuine(o)' <=> Genuine(o)
  BY <1>1 DEF Genuine, EarlierOf, RowsOf
<1>10. /\ \A k \in DOMAIN sent : Genuine(sent[k])
       /\ Rising(sent)
  BY <1>3 DEF StateDbInv, ObserverInv
<1>11. NoneForgotten' <=> (observing =>
           \A i \in (since + 1)..cursor : table[i].of \in Foreign \ compacted /\ i \notin missed =>
             \E k \in DOMAIN after : after[k].row = i)
  BY <1>1, <1>8 DEF NoneForgotten
<1>12. ObserverInv' <=> /\ \A k \in DOMAIN after : Genuine(after[k])
                        /\ Rising(after) /\ NoneForgotten'
  BY <1>8, <1>9 DEF ObserverInv, Rising
<1>13. ASSUME ~Seen(Head(spooled)) PROVE ObserverInv'
  <2>1. after = sent
    <3>1. relayed' = relayed \o <<head>> /\ <<head>> \in Seq(Told)
      BY <1>1, <1>2, <1>3, <1>4, <1>13, AppendIsConcat
    <3>2. after = relayed \o (<<head>> \o rest)
      BY <1>2, <1>3, <1>4, <3>1, ConcatAssociative
    <3>3. <<head>> \o rest = spooled
      <4>1. /\ <<head>> \o rest \in Seq(Told) /\ Len(<<head>> \o rest) = Len(spooled)
            /\ \A k \in 1..Len(spooled) :
                 (<<head>> \o rest)[k] = IF k <= 1 THEN <<head>>[k] ELSE rest[k - 1]
        BY <1>4, <3>1, ConcatProperties
      <4>2. \A k \in 1..Len(spooled) : (<<head>> \o rest)[k] = spooled[k]
        <5> SUFFICES ASSUME NEW k \in 1..Len(spooled)
                     PROVE  (IF k <= 1 THEN <<head>>[k] ELSE rest[k - 1]) = spooled[k]
          BY <4>1
        <5>1. CASE k = 1
          BY <1>4, <5>1
        <5>2. CASE k # 1
          <6>1. k - 1 \in 1..Len(rest) /\ (k - 1) + 1 = k /\ ~(k <= 1)
            BY <1>4, <5>2
          <6> QED
            BY <1>4, <6>1
        <5> QED
          BY <5>1, <5>2
      <4> QED
        BY <1>2, <4>1, <4>2, SeqEqual
    <3> QED
      BY <1>3, <3>2, <3>3 DEF Sent
  <2> QED
    BY <1>3, <1>10, <1>11, <1>12, <2>1 DEF StateDbInv, ObserverInv, NoneForgotten
<1>14. ASSUME Seen(Head(spooled)) PROVE ObserverInv'
  <2>1. after = relayed \o rest
    BY <1>1, <1>3, <1>14
  <2>2. /\ DOMAIN after = 1..(Len(relayed) + Len(rest))
        /\ \A k \in DOMAIN after :
             \/ k \in DOMAIN relayed /\ after[k] = relayed[k]
             \/ k - Len(relayed) \in DOMAIN rest /\ k > Len(relayed) /\ after[k] = rest[k - Len(relayed)]
        /\ \A k \in DOMAIN relayed : k \in DOMAIN after /\ after[k] = relayed[k]
        /\ \A k \in DOMAIN rest : k + Len(relayed) \in DOMAIN after /\ after[k + Len(relayed)] = rest[k]
    <3>1. relayed \in Seq(Told) /\ rest \in Seq(Told)
      BY <1>2, <1>4
    <3> QED
      BY <2>1, <3>1, Joined
  <2>3. \A k \in DOMAIN after :
          \/ k <= Len(relayed) /\ k \in DOMAIN sent /\ after[k] = sent[k]
          \/ k > Len(relayed) /\ k + 1 \in DOMAIN sent /\ after[k] = sent[k + 1]
    <3> SUFFICES ASSUME NEW k \in DOMAIN after
                 PROVE  \/ k <= Len(relayed) /\ k \in DOMAIN sent /\ after[k] = sent[k]
                        \/ k > Len(relayed) /\ k + 1 \in DOMAIN sent /\ after[k] = sent[k + 1]
      OBVIOUS
    <3>1. CASE k \in DOMAIN relayed /\ after[k] = relayed[k]
      BY <1>4, <1>5, <3>1
    <3>2. CASE k - Len(relayed) \in DOMAIN rest /\ k > Len(relayed) /\ after[k] = rest[k - Len(relayed)]
      <4>1. PICK m : m = k - Len(relayed)
        OBVIOUS
      <4>2. k \in Int /\ m \in 1..Len(rest) /\ m + 1 \in DOMAIN spooled /\ rest[m] = spooled[m + 1]
        <5>1. k \in Int
          BY <1>4, <2>2
        <5>2. m \in 1..Len(rest) /\ rest[m] = spooled[m + 1]
          BY <1>4, <3>2, <4>1
        <5>3. m + 1 \in DOMAIN spooled
          BY <1>4, <5>2
        <5> QED
          BY <5>1, <5>2, <5>3
      <4>3. (m + 1) + Len(relayed) = k + 1
        BY <1>4, <4>1, <4>2
      <4> QED
        BY <1>5, <3>2, <4>1, <4>2, <4>3
    <3> QED
      BY <2>2, <3>1, <3>2
  <2>4. \A k \in DOMAIN after : Genuine(after[k])
    BY <1>10, <2>3
  <2>5. Rising(after)
    <3> SUFFICES ASSUME NEW k \in DOMAIN after, NEW l \in DOMAIN after, k < l
                 PROVE  after[k].row < after[l].row
      BY DEF Rising
    <3>1. k \in Int /\ l \in Int /\ Len(relayed) \in Nat
      BY <1>4, <2>2
    <3>2. PICK m \in {k, k + 1}, n \in {l, l + 1} :
                 /\ m \in DOMAIN sent /\ n \in DOMAIN sent /\ m < n
                 /\ after[k] = sent[m] /\ after[l] = sent[n]
      <4>1. CASE l <= Len(relayed)
        BY <2>3, <3>1, <4>1
      <4>2. CASE l > Len(relayed)
        BY <2>3, <3>1, <4>2
      <4> QED
        BY <3>1, <4>1, <4>2
    <3> QED
      BY <1>10, <3>2 DEF Rising
  <2>6. \A k \in DOMAIN sent : k # Len(relayed) + 1 => \E l \in DOMAIN after : after[l] = sent[k]
    <3> SUFFICES ASSUME NEW k \in DOMAIN sent, k # Len(relayed) + 1
                 PROVE  \E l \in DOMAIN after : after[l] = sent[k]
      OBVIOUS
    <3>1. k \in Int
      BY <1>5
    <3>2. CASE k <= Len(relayed)
      BY <1>4, <1>5, <2>2, <3>1, <3>2
    <3>3. CASE k > Len(relayed) + 1
      <4>1. PICK m : m = k - Len(relayed) - 1
        OBVIOUS
      <4>2. m \in 1..Len(rest) /\ m + 1 \in DOMAIN spooled /\ (m + 1) + Len(relayed) = k
        BY <1>4, <1>5, <3>1, <3>3, <4>1
      <4>3. m + Len(relayed) \in DOMAIN after /\ after[m + Len(relayed)] = sent[k]
        BY <1>4, <1>5, <2>2, <4>2
      <4> QED
        BY <4>3
    <3> QED
      BY <1>4, <3>1, <3>2, <3>3
  <2>7. head.of \in compacted
    <3>1. PICK k \in DOMAIN relayed : relayed[k].of = head.of /\ relayed[k].number = head.number
      BY <1>3, <1>14 DEF Seen
    <3>2. PICK l : l = 1 + Len(relayed)
      OBVIOUS
    <3>3. k \in DOMAIN sent /\ l \in DOMAIN sent /\ sent[k] = relayed[k] /\ sent[l] = head /\ k < l
      <4>1. k \in DOMAIN sent /\ sent[k] = relayed[k]
        BY <1>5, <3>1
      <4>2. 1 \in DOMAIN spooled /\ k \in 1..Len(relayed) /\ Len(relayed) \in Nat
        BY <1>4, <3>1
      <4>3. l \in DOMAIN sent /\ sent[l] = spooled[1]
        BY <1>5, <3>2, <4>2
      <4>4. spooled[1] = head /\ k < l
        BY <1>4, <3>2, <4>2
      <4> QED
        BY <4>1, <4>3, <4>4
    <3>4. SUFFICES ASSUME head.of \notin compacted PROVE FALSE
      OBVIOUS
    <3>5. PICK i, j : i = sent[k].row /\ j = sent[l].row
      OBVIOUS
    <3>6. /\ i \in 1..cursor /\ j \in 1..cursor /\ i < j /\ table[i].of = table[j].of
          /\ Cardinality(EarlierOf(i)) = Cardinality(EarlierOf(j))
      BY <1>10, <3>1, <3>3, <3>4, <3>5 DEF Rising, Genuine
    <3>7. i \in DOMAIN table /\ j \in DOMAIN table
      BY <3>6, RowsFinite DEF StateDbInv, ObserverTypeOK
    <3>8. /\ Cardinality(EarlierOf(i)) \in Nat
          /\ Cardinality(EarlierOf(i)) < Cardinality(EarlierOf(j))
      BY <3>6, <3>7, EarlierCounted DEF StateDbInv
    <3> QED
      BY <3>6, <3>8
  <2>8. NoneForgotten'
    <3> SUFFICES ASSUME observing, NEW i \in (since + 1)..cursor,
                        table[i].of \in Foreign \ compacted, i \notin missed
                 PROVE  \E k \in DOMAIN after : after[k].row = i
      BY <1>11
    <3>1. PICK k \in DOMAIN sent : sent[k].row = i
      BY <1>3 DEF StateDbInv, ObserverInv, NoneForgotten
    <3>2. CASE k = Len(relayed) + 1
      <4>1. sent[k] = head
        <5>1. k = 1 + Len(relayed) /\ 1 \in DOMAIN spooled
          BY <1>4, <3>2
        <5> QED
          BY <1>4, <1>5, <5>1
      <4> QED
        BY <1>10, <2>7, <3>1, <4>1 DEF Genuine
    <3>3. CASE k # Len(relayed) + 1
      BY <2>6, <3>1, <3>3
    <3> QED
      BY <3>2, <3>3
  <2> QED
    BY <1>12, <2>4, <2>5, <2>8
<1>15. ObserverInv'
  BY <1>13, <1>14
<1> QED
  BY <1>1, <1>7, <1>15, ObserverKeeps DEF StateDbInv

(* The steps of the worker.                                                *)
LEMMA WorkerKeeps ==
  ASSUME StateDbInv, UNCHANGED databaseVars, UNCHANGED observerVars
  PROVE  DatabaseTypeOK' /\ LiveUntilCompacted' /\ ObserverTypeOK' /\ ObserverInv'
<1>1. DatabaseTypeOK' /\ Grown
  BY SameTable DEF StateDbInv
<1>2. UNCHANGED <<table, compacted>>
  BY DEF databaseVars
<1>3. LiveUntilCompacted'
  BY <1>2 DEF StateDbInv, LiveUntilCompacted
<1>4. ObserverTypeOK'
  BY <1>2 DEF StateDbInv, ObserverTypeOK, observerVars
<1>5. ObserverInv'
  BY <1>1, ObserverStays DEF StateDbInv, observerVars
<1> QED
  BY <1>1, <1>3, <1>4, <1>5

LEMMA MirroredTyped ==
  ASSUME StateDbInv
  PROVE  \A k \in DOMAIN mirrored : /\ mirrored[k].of \in Foreign \cup Owned
                                    /\ mirrored[k].row \in Nat /\ mirrored[k].number \in Int
<1>1. mirrored \in Seq(Told)
  BY DEF StateDbInv, WorkerTypeOK
<1>2. \A k \in DOMAIN mirrored : mirrored[k] \in Told
  BY <1>1, LenProperties, ElementOfSeq
<1> QED
  BY <1>2 DEF Told

(* New counts: a session whose count falls is recounted.                   *)
LEMMA CountsStep ==
  ASSUME StateDbInv, UNCHANGED databaseVars, UNCHANGED observerVars,
         NEW new \in [Foreign \cup Owned -> Int], Counts(new),
         syncing' \in BOOLEAN, tail' \in tail..Len(table), todo' \subseteq Foreign,
         mirrored' = mirrored
  PROVE  StateDbInv'
<1>1. counts' = new /\ recounted' = recounted \cup {s \in Foreign \cup Owned : new[s] < counts[s]}
  BY DEF Counts
<1>2. tail \in Nat /\ Len(table) \in Nat /\ table' = table /\ tail' \in Nat /\ tail <= tail'
  BY RowsFinite DEF StateDbInv, WorkerTypeOK, databaseVars
<1>3. WorkerTypeOK'
  <2>1. tail' \in 0..Len(table')
    BY <1>2
  <2> QED
    BY <1>1, <2>1 DEF StateDbInv, WorkerTypeOK
<1>4. \A k \in DOMAIN mirrored : Mirrored(mirrored[k])'
  <2> SUFFICES ASSUME NEW k \in DOMAIN mirrored PROVE Mirrored(mirrored[k])'
    OBVIOUS
  <2>1. PICK o : o = mirrored[k]
    OBVIOUS
  <2>2. o.of \in Foreign \cup Owned /\ o.row \in Nat /\ o.number \in Int /\ Mirrored(o)
    BY <2>1, MirroredTyped DEF StateDbInv, WorkerInv
  <2>3. o.row <= tail'
    BY <1>2, <2>2 DEF Mirrored
  <2>4. ASSUME o.of \notin recounted' PROVE o.number < new[o.of]
    <3>1. o.of \notin recounted /\ ~(new[o.of] < counts[o.of])
      BY <1>1, <2>2, <2>4
    <3>2. new[o.of] \in Int /\ counts[o.of] \in Int
      BY <2>2 DEF StateDbInv, WorkerTypeOK
    <3> QED
      BY <2>2, <3>1, <3>2 DEF Mirrored
  <2> QED
    BY <1>1, <2>1, <2>3, <2>4 DEF Mirrored
<1>5. Growing'
  BY <1>1 DEF StateDbInv, WorkerInv, Growing
<1>6. WorkerInv'
  BY <1>4, <1>5 DEF StateDbInv, WorkerInv, Rising
<1> QED
  BY <1>3, <1>6, WorkerKeeps DEF StateDbInv

LEMMA SeedStep ==
  ASSUME StateDbInv, Seed
  PROVE  StateDbInv'
<1>1. PICK new : new = [s \in Foreign \cup Owned |-> SeededCount(s)]
  OBVIOUS
<1>2. /\ UNCHANGED databaseVars /\ UNCHANGED observerVars /\ syncing' = TRUE
      /\ tail' = Len(table) /\ Counts(new) /\ UNCHANGED <<todo, mirrored>>
  BY <1>1 DEF Seed
<1>3. ASSUME NEW s \in Foreign \cup Owned PROVE SeededCount(s) \in Int
  <2>1. PICK S : S = LiveRows(s)
    OBVIOUS
  <2>2. S \in SUBSET (DOMAIN table)
    BY <2>1 DEF LiveRows, RowsOf
  <2>3. IsFiniteSet(S) /\ S \in SUBSET Int
    BY <2>2, RowsFinite DEF StateDbInv
  <2>4. Highest(S, -1) \in Int
    BY <2>3, HighestIsHighest
  <2> QED
    BY <2>1, <2>4 DEF SeededCount
<1>4. new \in [Foreign \cup Owned -> Int]
  BY <1>1, <1>3
<1>5. tail \in 0..Len(table) /\ Len(table) \in Nat /\ todo \subseteq Foreign
  BY RowsFinite DEF StateDbInv, WorkerTypeOK
<1>6. tail' \in tail..Len(table)
  BY <1>2, <1>5
<1> QED
  BY <1>2, <1>4, <1>5, <1>6, CountsStep

LEMMA ReconcileStep ==
  ASSUME StateDbInv, NEW s \in Foreign, Reconcile(s)
  PROVE  StateDbInv'
<1>1. PICK new : new = [counts EXCEPT ![s] = Cardinality(LiveRows(s))]
  OBVIOUS
<1>2. /\ UNCHANGED databaseVars /\ UNCHANGED observerVars /\ Counts(new)
      /\ todo' = todo \ {s} /\ UNCHANGED <<syncing, tail, mirrored>>
  BY <1>1 DEF Reconcile
<1>3. Cardinality(LiveRows(s)) \in Int
  <2>1. LiveRows(s) \in SUBSET (DOMAIN table)
    BY DEF LiveRows, RowsOf
  <2>2. Cardinality(LiveRows(s)) \in Nat
    BY <2>1, RowsFinite DEF StateDbInv
  <2> QED
    BY <2>2
<1>4. counts \in [Foreign \cup Owned -> Int] /\ syncing \in BOOLEAN /\ todo \subseteq Foreign
  BY DEF StateDbInv, WorkerTypeOK
<1>5. new \in [Foreign \cup Owned -> Int]
  BY <1>1, <1>3, <1>4
<1>6. tail \in 0..Len(table) /\ Len(table) \in Nat
  BY RowsFinite DEF StateDbInv, WorkerTypeOK
<1>7. tail' \in tail..Len(table) /\ todo' \subseteq Foreign /\ syncing' \in BOOLEAN
  BY <1>2, <1>4, <1>6
<1> QED
  BY <1>2, <1>5, <1>7, CountsStep

LEMMA WorkerEndsStep ==
  ASSUME StateDbInv, WorkerEnds
  PROVE  StateDbInv'
<1>1. /\ UNCHANGED databaseVars /\ UNCHANGED observerVars /\ UNCHANGED <<table, compacted>>
      /\ syncing' = FALSE /\ todo' = {} /\ UNCHANGED <<tail, counts, mirrored, recounted>>
  BY DEF WorkerEnds, databaseVars
<1>2. WorkerTypeOK'
  BY <1>1 DEF StateDbInv, WorkerTypeOK
<1>3. WorkerInv'
  BY <1>1, WorkerStays DEF StateDbInv
<1> QED
  BY <1>1, <1>2, <1>3, WorkerKeeps DEF StateDbInv

(* A poll of the worker: the new messages follow those mirrored, row by row. *)
LEMMA PollTailStep ==
  ASSUME StateDbInv, PollTail
  PROVE  StateDbInv'
<1>1. PICK S, read, told : /\ S = {i \in DOMAIN table : i > tail} /\ read = LowestOf(S, Limit)
                           /\ told = {i \in read : table[i].live /\ counts[table[i].of] # -1}
  OBVIOUS
<1>2. PICK rows \in InOrder(told) :
        mirrored' = mirrored \o
          [n \in DOMAIN rows |->
             [of |-> table[rows[n]].of, row |-> rows[n],
              number |-> counts[table[rows[n]].of]
                           + Cardinality({j \in {i \in told : table[i].of = table[rows[n]].of} : j < rows[n]})]]
  BY <1>1 DEF PollTail
<1>3. PICK grown : grown = [s \in Foreign \cup Owned |->
                              counts[s] + Cardinality({i \in told : table[i].of = s})]
  OBVIOUS
<1>4. /\ UNCHANGED databaseVars /\ UNCHANGED observerVars /\ UNCHANGED <<table, compacted>>
      /\ tail' = Highest(read, tail) /\ Counts(grown) /\ syncing' = syncing
      /\ (todo' = {} \/ todo' = created \cap Foreign)
  BY <1>1, <1>3 DEF PollTail, databaseVars
<1>5. PICK new : new =
        [n \in DOMAIN rows |->
             [of |-> table[rows[n]].of, row |-> rows[n],
              number |-> counts[table[rows[n]].of]
                           + Cardinality({j \in {i \in told : table[i].of = table[rows[n]].of} : j < rows[n]})]]
  OBVIOUS
<1>6. /\ Len(table) \in Nat /\ DOMAIN table = 1..Len(table) /\ tail \in 0..Len(table)
      /\ \A i \in DOMAIN table : table[i] \in TableRow
      /\ counts \in [Foreign \cup Owned -> Int]
  BY RowsFinite DEF StateDbInv, WorkerTypeOK
<1>7. S \in SUBSET (DOMAIN table) /\ (\A i \in S : tail < i)
  BY <1>1, <1>6
<1>8. /\ read \subseteq S /\ tail' \in tail..Len(table) /\ \A i \in read : i <= tail'
  BY <1>1, <1>4, <1>6, <1>7, PollReads DEF StateDbInv, DatabaseTypeOK
<1>9. told \in SUBSET (DOMAIN table) /\ told \subseteq read
  BY <1>1, <1>7, <1>8
<1>10. IsFiniteSet(told) /\ told \in SUBSET Nat
  BY <1>9, RowsFinite DEF StateDbInv
<1>11. /\ Cardinality(told) \in Nat /\ DOMAIN rows = 1..Cardinality(told)
       /\ \A k \in DOMAIN rows : rows[k] \in told
       /\ \A k, l \in DOMAIN rows : k < l => rows[k] < rows[l]
  BY <1>10, Enumerated
<1> DEFINE Of(s) == {i \in told : table[i].of = s}
           Below(s, i) == {j \in Of(s) : j < i}
<1>12. \A s : IsFiniteSet(Of(s)) /\ Of(s) \in SUBSET Nat /\ Cardinality(Of(s)) \in Nat
  <2> SUFFICES ASSUME NEW s
               PROVE  IsFiniteSet(Of(s)) /\ Of(s) \in SUBSET Nat /\ Cardinality(Of(s)) \in Nat
    OBVIOUS
  <2>1. Of(s) \in SUBSET (DOMAIN table)
    BY <1>9
  <2> QED
    BY <2>1, RowsFinite DEF StateDbInv
<1>13. \A s, i : Cardinality(Below(s, i)) \in Nat
  <2> SUFFICES ASSUME NEW s, NEW i PROVE Cardinality(Below(s, i)) \in Nat
    OBVIOUS
  <2>1. Below(s, i) \in SUBSET (DOMAIN table)
    BY <1>9
  <2> QED
    BY <2>1, RowsFinite DEF StateDbInv
<1>14. \A s : \A i, j \in Of(s) : i < j => Cardinality(Below(s, i)) < Cardinality(Below(s, j))
  <2> SUFFICES ASSUME NEW s, NEW i \in Of(s), NEW j \in Of(s), i < j
               PROVE  Cardinality(Below(s, i)) < Cardinality(Below(s, j))
    OBVIOUS
  <2>1. PICK T : T = Of(s)
    OBVIOUS
  <2>2. T \in SUBSET Nat /\ IsFiniteSet(T) /\ i \in T /\ j \in Nat
    BY <1>12, <2>1
  <2>3. Cardinality({k \in T : k < i}) < Cardinality({k \in T : k < j})
    BY <2>2, FewerBelow
  <2> QED
    BY <2>1, <2>3
<1>15. \A s : \A i \in Of(s) : Cardinality(Below(s, i)) < Cardinality(Of(s))
  <2> SUFFICES ASSUME NEW s, NEW i \in Of(s)
               PROVE  Cardinality(Below(s, i)) < Cardinality(Of(s))
    OBVIOUS
  <2>1. PICK T, B : T = Of(s) /\ B = Below(s, i)
    OBVIOUS
  <2>2. T \in SUBSET Nat /\ IsFiniteSet(T) /\ i \in T /\ B \in SUBSET T /\ i \notin B
    <3>1. T \in SUBSET Nat /\ IsFiniteSet(T)
      BY <1>12, <2>1
    <3>2. i \in T /\ i \in Nat
      BY <2>1, <3>1
    <3>3. B \in SUBSET T
      BY <2>1
    <3>4. i \notin B
      BY <2>1, <3>2
    <3> QED
      BY <3>1, <3>2, <3>3, <3>4
  <2>3. Cardinality(B) <= Cardinality(T) /\ (Cardinality(T) = Cardinality(B) => T = B)
    BY <2>2, FS_Subset
  <2>4. Cardinality(B) \in Nat /\ Cardinality(T) \in Nat
    BY <1>12, <1>13, <2>1
  <2> QED
    BY <2>1, <2>2, <2>3, <2>4
<1> HIDE DEF Of, Below
<1>16. /\ DOMAIN new = DOMAIN rows
       /\ \A k \in DOMAIN rows :
            /\ new[k].row = rows[k] /\ new[k].of = table[rows[k]].of
            /\ new[k].number = counts[new[k].of] + Cardinality(Below(new[k].of, rows[k]))
  BY <1>5 DEF Below, Of
<1>17. \A k \in DOMAIN rows :
         /\ rows[k] \in Of(new[k].of) /\ rows[k] \in Nat /\ tail < rows[k] /\ rows[k] <= tail'
         /\ new[k].of \in Foreign \cup Owned /\ counts[new[k].of] \in Int
         /\ Cardinality(Below(new[k].of, rows[k])) \in Nat /\ new[k].number \in Int
  <2> SUFFICES ASSUME NEW k \in DOMAIN rows
        PROVE  /\ rows[k] \in Of(new[k].of) /\ rows[k] \in Nat /\ tail < rows[k] /\ rows[k] <= tail'
               /\ new[k].of \in Foreign \cup Owned /\ counts[new[k].of] \in Int
               /\ Cardinality(Below(new[k].of, rows[k])) \in Nat /\ new[k].number \in Int
    OBVIOUS
  <2>1. rows[k] \in told /\ rows[k] \in read /\ rows[k] \in DOMAIN table
    BY <1>9, <1>11
  <2>2. rows[k] \in Nat /\ tail < rows[k] /\ rows[k] <= tail'
    BY <1>6, <1>7, <1>8, <2>1
  <2>3. table[rows[k]] \in TableRow /\ new[k].of = table[rows[k]].of
    BY <1>6, <1>16, <2>1
  <2>4. new[k].of \in Foreign \cup Owned /\ counts[new[k].of] \in Int
    BY <1>6, <2>3 DEF TableRow
  <2>5. rows[k] \in Of(new[k].of)
    BY <2>1, <2>3 DEF Of
  <2>6. Cardinality(Below(new[k].of, rows[k])) \in Nat
    BY <1>13
  <2>7. new[k].number \in Int
    BY <1>16, <2>4, <2>6
  <2> QED
    BY <2>2, <2>4, <2>5, <2>6, <2>7
<1>18. new \in Seq(Told) /\ DOMAIN new = 1..Cardinality(told)
  <2>1. \A k \in DOMAIN rows : new[k] \in Told
    <3> SUFFICES ASSUME NEW k \in DOMAIN rows PROVE new[k] \in Told
      OBVIOUS
    <3>1. new[k] = [of |-> new[k].of, row |-> new[k].row, number |-> new[k].number]
      BY <1>5
    <3>2. new[k].of \in Foreign \cup Owned /\ new[k].row \in Nat /\ new[k].number \in Int
      BY <1>16, <1>17
    <3> QED
      BY <3>1, <3>2 DEF Told
  <2>2. new \in [1..Cardinality(told) -> Told]
    BY <1>5, <1>11, <2>1
  <2> QED
    BY <1>11, <2>2, ListOfRows
<1>19. mirrored \in Seq(Told)
  BY DEF StateDbInv, WorkerTypeOK
<1>20. PICK old, all : old = mirrored /\ all = old \o new
  OBVIOUS
<1>21. mirrored' = all
  BY <1>2, <1>5, <1>20
<1>22. /\ all \in Seq(Told)
       /\ Len(old) \in Nat /\ DOMAIN old = 1..Len(old)
       /\ \A k \in DOMAIN all :
            \/ k \in DOMAIN old /\ all[k] = old[k]
            \/ k - Len(old) \in DOMAIN new /\ k > Len(old) /\ all[k] = new[k - Len(old)]
       /\ DOMAIN all \subseteq Nat
  <2>1. old \in Seq(Told)
    BY <1>19, <1>20
  <2>2. new \in Seq(Told)
    BY <1>18
  <2>3. /\ all \in Seq(Told)
        /\ Len(old) \in Nat /\ DOMAIN old = 1..Len(old)
        /\ \A k \in DOMAIN all :
             \/ k \in DOMAIN old /\ all[k] = old[k]
             \/ k - Len(old) \in DOMAIN new /\ k > Len(old) /\ all[k] = new[k - Len(old)]
    BY <1>20, <2>1, <2>2, Joined
  <2>4. DOMAIN all \subseteq Nat
    BY <2>3, LenProperties
  <2> QED
    BY <2>3, <2>4
<1>23. /\ counts' = grown /\ grown \in [Foreign \cup Owned -> Int]
       /\ \A s \in Foreign \cup Owned : grown[s] = counts[s] + Cardinality(Of(s)) /\ counts[s] <= grown[s]
       /\ recounted' = recounted
  <2>1. \A s \in Foreign \cup Owned : counts[s] \in Int /\ Cardinality(Of(s)) \in Nat
    BY <1>6, <1>12
  <2>2. /\ DOMAIN grown = Foreign \cup Owned
        /\ \A s \in Foreign \cup Owned : grown[s] = counts[s] + Cardinality(Of(s))
    BY <1>3 DEF Of
  <2>3. \A s \in Foreign \cup Owned : grown[s] \in Int /\ counts[s] <= grown[s] /\ ~(grown[s] < counts[s])
    BY <2>1, <2>2
  <2>4. counts' = grown /\ recounted' = recounted
    BY <1>4, <2>3 DEF Counts
  <2>5. grown \in [Foreign \cup Owned -> Int]
    BY <1>3, <2>3
  <2> QED
    BY <2>2, <2>3, <2>4, <2>5
<1>24. WorkerTypeOK'
  <2>1. tail' \in 0..Len(table')
    BY <1>4, <1>6, <1>8
  <2>2. todo' \subseteq Foreign
    BY <1>4
  <2>3. syncing' \in BOOLEAN /\ recounted' \subseteq Foreign \cup Owned
    BY <1>4, <1>23 DEF StateDbInv, WorkerTypeOK
  <2>4. mirrored' \in Seq(Told) /\ counts' \in [Foreign \cup Owned -> Int]
    BY <1>21, <1>22, <1>23
  <2> QED
    BY <2>1, <2>2, <2>3, <2>4 DEF WorkerTypeOK
<1>25. \A k \in DOMAIN old :
         /\ old[k].of \in Foreign \cup Owned /\ old[k].row \in Nat /\ old[k].number \in Int
         /\ old[k].row <= tail
         /\ old[k].of \notin recounted => old[k].number < counts[old[k].of]
  BY <1>20, MirroredTyped DEF StateDbInv, WorkerInv, Mirrored
<1>26. \A k \in DOMAIN all : Mirrored(all[k])'
  <2> SUFFICES ASSUME NEW k \in DOMAIN all PROVE Mirrored(all[k])'
    OBVIOUS
  <2>1. CASE k \in DOMAIN old /\ all[k] = old[k]
    <3>1. old[k].row <= tail'
      BY <1>6, <1>8, <1>25, <2>1
    <3>2. old[k].of \notin recounted => old[k].number < grown[old[k].of]
      <4>1. counts[old[k].of] \in Int /\ grown[old[k].of] \in Int /\ counts[old[k].of] <= grown[old[k].of]
        BY <1>6, <1>23, <1>25, <2>1
      <4> QED
        BY <1>25, <2>1, <4>1
    <3> QED
      BY <1>23, <2>1, <3>1, <3>2 DEF Mirrored
  <2>2. CASE k - Len(old) \in DOMAIN new /\ k > Len(old) /\ all[k] = new[k - Len(old)]
    <3>1. PICK m \in DOMAIN new : m = k - Len(old)
      BY <2>2
    <3>2. /\ m \in DOMAIN rows /\ new[m].row <= tail'
          /\ new[m].number = counts[new[m].of] + Cardinality(Below(new[m].of, rows[m]))
          /\ rows[m] \in Of(new[m].of)
          /\ new[m].of \in Foreign \cup Owned /\ counts[new[m].of] \in Int
          /\ Cardinality(Below(new[m].of, rows[m])) \in Nat
      BY <1>16, <1>17
    <3>3. Cardinality(Below(new[m].of, rows[m])) < Cardinality(Of(new[m].of)) /\ Cardinality(Of(new[m].of)) \in Nat
      BY <1>12, <1>15, <3>2
    <3>4. grown[new[m].of] = counts[new[m].of] + Cardinality(Of(new[m].of))
      BY <1>23, <3>2
    <3>5. new[m].number < grown[new[m].of]
      BY <3>2, <3>3, <3>4
    <3> QED
      BY <1>23, <2>2, <3>1, <3>2, <3>5 DEF Mirrored
  <2> QED
    BY <1>22, <2>1, <2>2
<1>27. Rising(all)
  <2>1. Rising(new)
    BY <1>11, <1>16 DEF Rising
  <2>2. Rising(old) /\ old \in Seq(Told) /\ tail \in Nat
    BY <1>6, <1>19, <1>20 DEF StateDbInv, WorkerInv
  <2>3. \A k \in DOMAIN old : old[k].row <= tail
    BY <1>25
  <2>4. \A k \in DOMAIN new : tail < new[k].row
    BY <1>16, <1>17
  <2> QED
    BY <1>18, <1>20, <2>1, <2>2, <2>3, <2>4, RisingJoined
<1>28. \A k, l \in DOMAIN all :
         k < l /\ all[k].of = all[l].of /\ all[k].of \notin recounted => all[k].number < all[l].number
  <2> SUFFICES ASSUME NEW k \in DOMAIN all, NEW l \in DOMAIN all,
                      k < l, all[k].of = all[l].of, all[k].of \notin recounted
               PROVE  all[k].number < all[l].number
    OBVIOUS
  <2>1. k \in Nat /\ l \in Nat /\ Len(old) \in Nat
    BY <1>22
  <2>2. CASE l \in DOMAIN old /\ all[l] = old[l]
    <3>1. k \in DOMAIN old /\ all[k] = old[k]
      BY <1>22, <2>1, <2>2
    <3> QED
      BY <1>20, <2>2, <3>1 DEF StateDbInv, WorkerInv, Growing
  <2>3. CASE l - Len(old) \in DOMAIN new /\ l > Len(old) /\ all[l] = new[l - Len(old)]
    <3>1. PICK n \in DOMAIN new : n = l - Len(old)
      BY <2>3
    <3>2. /\ n \in DOMAIN rows /\ all[l] = new[n]
          /\ new[n].number = counts[new[n].of] + Cardinality(Below(new[n].of, rows[n]))
          /\ rows[n] \in Of(new[n].of) /\ counts[new[n].of] \in Int
          /\ Cardinality(Below(new[n].of, rows[n])) \in Nat
      BY <1>16, <1>17, <2>3, <3>1
    <3>3. CASE k \in DOMAIN old /\ all[k] = old[k]
      <4>1. all[k].number < counts[all[k].of] /\ all[k].number \in Int
        BY <1>25, <3>3
      <4> QED
        BY <3>2, <4>1
    <3>4. CASE k - Len(old) \in DOMAIN new /\ k > Len(old) /\ all[k] = new[k - Len(old)]
      <4>1. PICK m \in DOMAIN new : m = k - Len(old)
        BY <3>4
      <4>2. /\ m \in DOMAIN rows /\ all[k] = new[m]
            /\ new[m].number = counts[new[m].of] + Cardinality(Below(new[m].of, rows[m]))
            /\ rows[m] \in Of(new[m].of) /\ Cardinality(Below(new[m].of, rows[m])) \in Nat
        BY <1>16, <1>17, <3>4, <4>1
      <4>3. m < n
        BY <2>1, <3>1, <4>1
      <4>4. rows[m] < rows[n]
        BY <1>11, <3>2, <4>2, <4>3
      <4>5. Cardinality(Below(new[n].of, rows[m])) < Cardinality(Below(new[n].of, rows[n]))
        BY <1>14, <3>2, <4>2, <4>4
      <4> QED
        BY <3>2, <4>2, <4>5
    <3> QED
      BY <1>22, <3>3, <3>4
  <2> QED
    BY <1>22, <2>2, <2>3
<1>29. WorkerInv'
  BY <1>21, <1>23, <1>26, <1>27, <1>28 DEF WorkerInv, Growing, Rising
<1> QED
  BY <1>4, <1>24, <1>29, WorkerKeeps DEF StateDbInv

LEMMA StateDbStep ==
  ASSUME StateDbInv, [StateDbNext]_stateDbVars
  PROVE  StateDbInv'
<1>1. ASSUME NEW s \in Foreign \cup Owned, InsertSession(s) \/ InsertMessage(s) \/ Compact(s)
      PROVE  StateDbInv'
  BY <1>1, HermesStep
<1>2. CASE Observer
  BY <1>2, OpenObserverStep, QuietObserverStep, PollMessagesStep, PollFailsStep, AcceptStep DEF Observer
<1>3. CASE Worker
  BY <1>3, SeedStep, PollTailStep, WorkerEndsStep, ReconcileStep DEF Worker
<1>4. CASE UNCHANGED stateDbVars
  <2>1. UNCHANGED databaseVars /\ UNCHANGED observerVars /\ UNCHANGED workerVars
    BY <1>4 DEF stateDbVars
  <2>2. WorkerTypeOK' /\ WorkerInv' /\ DatabaseTypeOK' /\ LiveUntilCompacted'
    BY <2>1, ObserverKeeps
  <2>3. ObserverTypeOK' /\ ObserverInv'
    BY <2>1, WorkerKeeps
  <2> QED
    BY <2>2, <2>3 DEF StateDbInv
<1> QED
  BY <1>1, <1>2, <1>3, <1>4 DEF StateDbNext, Hermes

(* What the readers of the database have told is what its rows say, in every
   reachable state. *)
THEOREM StateDbCorrect == StateDbSpec => []StateDbInv
BY StateDbInitial, StateDbStep, PTL DEF StateDbSpec

(* What another channel writes is relayed once, under its number, and the
   worker mirrors the rows in their order. *)
THEOREM WritesAreTold == StateDbSpec => []ObservedInFull
<1>1. ASSUME StateDbInv PROVE ObservedInFull
  <2>1. MirroredInOrder
    BY <1>1 DEF MirroredInOrder, StateDbInv, WorkerInv, Rising, Growing
  <2>2. ToldInFull
    <3> SUFFICES ASSUME observing, NEW i \in (since + 1)..cursor,
                        table[i].of \in Foreign \ compacted, i \notin missed
                 PROVE  /\ Cardinality({k \in DOMAIN Sent : Sent[k].row = i}) = 1
                        /\ \E k \in DOMAIN Sent :
                             Sent[k].row = i /\ Sent[k].number = Cardinality(EarlierOf(i))
      BY DEF ToldInFull
    <3>1. PICK k \in DOMAIN Sent : Sent[k].row = i
      BY <1>1 DEF StateDbInv, ObserverInv, NoneForgotten
    <3>2. Sent[k].number = Cardinality(EarlierOf(i))
      BY <1>1, <3>1 DEF StateDbInv, ObserverInv, Genuine
    <3>3. \A l \in DOMAIN Sent : Sent[l].row = i => l = k
      <4> SUFFICES ASSUME NEW l \in DOMAIN Sent, Sent[l].row = i, l # k PROVE FALSE
        OBVIOUS
      <4>1. k \in Nat /\ l \in Nat /\ i \in Int
        BY <1>1, SentTyped, LenProperties DEF StateDbInv, ObserverTypeOK
      <4>2. (k < l => Sent[k].row < Sent[l].row) /\ (l < k => Sent[l].row < Sent[k].row)
        BY <1>1 DEF StateDbInv, ObserverInv, Rising
      <4> QED
        BY <3>1, <4>1, <4>2
    <3>4. {l \in DOMAIN Sent : Sent[l].row = i} = {k}
      BY <3>1, <3>3
    <3> QED
      BY <3>1, <3>2, <3>4, FS_Singleton
  <2> QED
    BY <2>1, <2>2 DEF ObservedInFull
<1> QED
  BY <1>1, StateDbCorrect, PTL

-----------------------------------------------------------------------------
(***************************************************************************)
(* SessionCapabilities.                                                    *)
(***************************************************************************)
SessionRow ==
  [known : BOOLEAN, parent : Spawned \cup {NoParent}, record : Requested, started : BOOLEAN]
Request ==
  [doing : {"none", "create", "child", "fork", "link", "patch"},
   of : Spawned \cup {NoParent}, parent : Spawned \cup {NoParent},
   record : Requested, valid : BOOLEAN, logged : BOOLEAN]
CapabilityTypeOK ==
  /\ stored \in [Spawned -> SessionRow] /\ sessions \in [Spawned -> SessionRow]
  /\ asking \in [Asker -> Request]

(* The record e allows nothing that f does not.                            *)
Within(e, f) == \A r \in Right : AllowsId(e, r) => AllowsId(f, r)

(* A parent is known.                                                      *)
Descends(t) == \A x \in Spawned : t[x].parent # NoParent => t[t[x].parent].known

(* What a restart would make of a session that is known: it is known still, *)
(* and no less bound.                                                      *)
Bound(x) ==
  /\ stored[x].known
  /\ x \notin raced => Within(stored[x].record, sessions[x].record)
  /\ x \notin unlinked /\ sessions[x].parent # NoParent => stored[x].parent = sessions[x].parent

(* What a request in progress relies on.                                   *)
Asked(q) ==
  /\ q.of \in Spawned /\ stored[q.of].known
  /\ q.doing \in {"create", "child"} => ~sessions[q.of].known
  /\ q.doing \in {"fork", "link", "patch"} => sessions[q.of].known
  /\ q.doing \in {"child", "fork", "link"} =>
       q.parent \in Spawned /\ sessions[q.parent].known /\ stored[q.parent].known
  /\ q.doing = "create" /\ q.logged /\ ~q.record.legacy => stored[q.of].record = q.record
  /\ q.doing \in {"fork", "link"} =>
       /\ sessions[q.of].parent = NoParent
       /\ q.of \notin raced => sessions[q.of].record = Legacy
  /\ q.doing = "link" /\ q.of \notin unlinked => stored[q.of].parent = q.parent
  /\ q.doing = "patch" =>
       /\ ~q.record.legacy
       /\ q.of \notin raced => /\ Within(q.record, sessions[q.of].record)
                               /\ q.logged => stored[q.of].record = q.record

(* Two requests have a session in hand only if one of them patches it, and *)
(* then it is raced.                                                       *)
Apart(a, b) ==
  asking[a].doing # "none" /\ asking[b].doing # "none" /\ asking[a].of = asking[b].of =>
    asking[a].of \in raced /\ (asking[a].doing = "patch" \/ asking[b].doing = "patch")

CapabilitiesInv ==
  /\ CapabilityTypeOK
  /\ Descends(stored) /\ Descends(sessions)
  /\ \A x \in Spawned : sessions[x].known => Bound(x)
  /\ \A a \in Asker : asking[a].doing # "none" => Asked(asking[a])
  /\ \A a, b \in Asker : a # b => Apart(a, b)

(* The way from a session.                                                 *)
LEMMA LineageGoesOn ==
  ASSUME NEW t, NEW s \in Spawned
  PROVE  /\ s \in Lineage(t, s)
         /\ \A x \in Lineage(t, s) :
              t[x].parent # NoParent /\ t[x].parent \in Spawned => t[x].parent \in Lineage(t, s)
         /\ \A C \in SUBSET Spawned : s \in C /\ Stays(t, C) => Lineage(t, s) \subseteq C
<1>1. s \in Lineage(t, s)
  BY DEF Lineage
<1>2. ASSUME NEW x \in Lineage(t, s), t[x].parent # NoParent, t[x].parent \in Spawned
      PROVE  t[x].parent \in Lineage(t, s)
  <2>1. SUFFICES ASSUME NEW C \in SUBSET (Spawned \ {t[x].parent}), s \in C, Stays(t, C) PROVE FALSE
    BY <1>2 DEF Lineage
  <2>2. x \notin C
    BY <1>2, <2>1 DEF Stays
  <2>3. C \in SUBSET (Spawned \ {x})
    BY <2>2
  <2> QED BY <2>1, <2>3 DEF Lineage
<1>3. ASSUME NEW C \in SUBSET Spawned, s \in C, Stays(t, C), NEW x \in Lineage(t, s), x \notin C
      PROVE  FALSE
  <2>1. C \in SUBSET (Spawned \ {x})
    BY <1>3
  <2> QED BY <1>3, <2>1 DEF Lineage
<1> QED BY <1>1, <1>2, <1>3

(* When every session on the way keeps its parent and its record is no     *)
(* wider, a session may do no more.                                        *)
LEMMA NarrowsAll ==
  ASSUME NEW t \in [Spawned -> SessionRow], NEW u, NEW s \in Spawned,
         \A x \in Lineage(t, s) :
           /\ t[x].known
           /\ t[x].parent # NoParent => u[x].parent = t[x].parent
           /\ Within(u[x].record, t[x].record)
  PROVE  Authority(u, s) \subseteq Authority(t, s)
<1> DEFINE way == Lineage(t, s)
<1>1. way \subseteq Spawned
  BY DEF Lineage
<1>2. way \subseteq Lineage(u, s)
  <2>1. SUFFICES ASSUME NEW x \in way, NEW C \in SUBSET (Spawned \ {x}), s \in C, Stays(u, C)
                 PROVE  FALSE
    BY <1>1 DEF Lineage
  <2> DEFINE D == C \cap way
  <2>2. s \in D
    BY <2>1, LineageGoesOn
  <2>3. Stays(t, D)
    <3>1. SUFFICES ASSUME NEW y \in D, t[y].parent # NoParent PROVE t[y].parent \in D
      BY DEF Stays
    <3>2. y \in way /\ y \in C /\ y \in Spawned
      BY <1>1
    <3>3. u[y].parent = t[y].parent
      BY <3>1, <3>2
    <3>4. t[y].parent \in C
      BY <2>1, <3>1, <3>2, <3>3 DEF Stays
    <3>5. t[y].parent \in way
      BY <3>1, <3>2, <3>4, LineageGoesOn
    <3> QED BY <3>4, <3>5
  <2>4. way \subseteq D
    BY <1>1, <2>2, <2>3, LineageGoesOn
  <2> QED BY <2>4
<1>3. ASSUME NEW r \in Right, Authorized(u, s, r) PROVE Authorized(t, s, r)
  BY <1>1, <1>2, <1>3 DEF Authorized, Within
<1> QED BY <1>3 DEF Authority

(* What a step leaves of the sessions that are known.                      *)
Tightens ==
  \A x \in Spawned : sessions[x].known /\ x \notin raced \cup unlinked =>
    /\ sessions[x].parent # NoParent => sessions'[x].parent = sessions[x].parent
    /\ Within(sessions'[x].record, sessions[x].record)

LEMMA TightensNarrows ==
  ASSUME CapabilitiesInv, Tightens
  PROVE  \A s \in Spawned : Narrowed(s)
<1>1. SUFFICES ASSUME NEW s \in Spawned, sessions[s].known,
                      Lineage(sessions, s) \cap (raced \cup unlinked) = {}
               PROVE  Authority(sessions', s) \subseteq Authority(sessions, s)
  BY DEF Narrowed
<1> DEFINE known == {x \in Spawned : sessions[x].known}
<1>2. sessions \in [Spawned -> SessionRow] /\ Descends(sessions)
  BY DEF CapabilitiesInv, CapabilityTypeOK
<1>3. Stays(sessions, known)
  <2>1. \A x \in Spawned : sessions[x].parent \in Spawned \cup {NoParent}
    BY <1>2 DEF SessionRow
  <2> QED BY <1>2, <2>1 DEF Stays, Descends
<1>4. Lineage(sessions, s) \subseteq known
  BY <1>1, <1>3, LineageGoesOn
<1>5. \A x \in Lineage(sessions, s) :
        /\ sessions[x].known
        /\ sessions[x].parent # NoParent => sessions'[x].parent = sessions[x].parent
        /\ Within(sessions'[x].record, sessions[x].record)
  BY <1>1, <1>4 DEF Tightens
<1> HIDE DEF known
<1>6. PICK u : u = sessions'
  OBVIOUS
<1> QED BY <1>2, <1>5, <1>6, NarrowsAll

(* The records, the rows and the requests that the actions begin with.      *)
LEMMA RecordsKnown ==
  /\ Legacy \in Requested /\ Legacy.legacy
  /\ \A e \in Envelope : Record(e) \in Requested /\ ~Record(e).legacy
  /\ \A q \in Requested : Within(q, Legacy) /\ Within(q, q)
  /\ Missing \in SessionRow /\ Row \in SessionRow /\ Row.known /\ ~Missing.known
  /\ Row.parent = NoParent /\ Missing.parent = NoParent /\ Row.record = Legacy
  /\ Idle \in Request /\ Idle.doing = "none"
<1>1. /\ Legacy \in Requested /\ Legacy.legacy
      /\ \A e \in Envelope : Record(e) \in Requested /\ ~Record(e).legacy
  BY DEF Legacy, Requested, Record
<1>2. \A q \in Requested : Within(q, Legacy) /\ Within(q, q)
  BY DEF Within, AllowsId, Legacy
<1> QED BY <1>1, <1>2 DEF Missing, Row, SessionRow, Idle, Request

(* A narrower envelope allows no more: what covers a right that covers     *)
(* another covers that one.                                                *)
LEMMA NarrowerIsWithin ==
  ASSUME NEW e \in Envelope, NEW f \in Requested, IsNarrowerThan(e, f)
  PROVE  Within(Record(e), f)
<1>1. \A g \in e.ids : AllowsId(f, g) /\ g \in Right
  BY DEF IsNarrowerThan, Intersect, Envelope
<1>2. f.ids \subseteq Right
  BY DEF Requested, Legacy, Record, Envelope
<1>3. ASSUME NEW r \in Right, AllowsId(Record(e), r) PROVE AllowsId(f, r)
  <2>1. CASE r \in e.ids
    BY <1>1, <2>1
  <2>2. CASE \E g \in e.ids : <<g, r>> \in Covers
    <3>1. PICK g \in e.ids : <<g, r>> \in Covers
      BY <2>2
    <3>2. CASE g \in f.ids
      BY <3>1, <3>2 DEF AllowsId
    <3>3. CASE \E h \in f.ids : <<h, g>> \in Covers
      <4>1. PICK h \in f.ids : <<h, g>> \in Covers
        BY <3>3
      <4>2. <<h, r>> \in Covers
        BY <1>1, <1>2, <3>1, <4>1, CapabilityAssumption
      <4> QED BY <4>1, <4>2 DEF AllowsId
    <3> QED BY <1>1, <3>1, <3>2, <3>3 DEF AllowsId
  <2> QED BY <1>3, <2>1, <2>2 DEF AllowsId, Record
<1> QED BY <1>3 DEF Within

(* A step of the request a, on the session x.                              *)
Step(a, x) ==
  /\ \A y \in Spawned \ {x} : sessions'[y] = sessions[y] /\ stored'[y] = stored[y]
  /\ \A y \in Spawned : /\ sessions[y].known => sessions'[y].known
                        /\ stored[y].known => stored'[y].known
  /\ raced \subseteq raced' /\ unlinked' \ {x} \subseteq unlinked /\ unlinked \subseteq unlinked'
  /\ \A b \in Asker \ {a} : asking'[b] = asking[b]

(* It does not disturb what others have in hand.                           *)
LEMMA OthersAsked ==
  ASSUME CapabilitiesInv, NEW x \in Spawned, NEW a, NEW b \in Asker \ {a}, Step(a, x),
         asking[b].doing # "none", asking[b].of # x
  PROVE  Asked(asking[b])'
<1> DEFINE q == asking[b]
<1>1. Asked(q)
  BY DEF CapabilitiesInv
<1>2. q.of \in Spawned /\ sessions'[q.of] = sessions[q.of] /\ stored'[q.of] = stored[q.of]
  BY <1>1 DEF Asked, Step
<1>3. asking'[b] = q
  BY DEF Step
<1> HIDE DEF q
<1> QED BY <1>1, <1>2, <1>3 DEF Asked, Step

LEMMA StepKeeps ==
  ASSUME CapabilitiesInv, NEW a \in Asker, NEW x \in Spawned, Step(a, x), CapabilityTypeOK',
         sessions'[x].parent # NoParent => sessions'[sessions'[x].parent].known,
         stored'[x].parent # NoParent => stored'[stored'[x].parent].known,
         sessions'[x].known => Bound(x)',
         asking'[a].doing # "none" => Asked(asking[a])',
         \A b \in Asker \ {a} : asking[b].doing # "none" /\ asking[b].of = x => Asked(asking[b])',
         \A b \in Asker \ {a} : Apart(a, b)'
  PROVE  CapabilitiesInv'
<1>1. /\ \A y \in Spawned : sessions[y].parent \in Spawned \cup {NoParent}
      /\ \A y \in Spawned : stored[y].parent \in Spawned \cup {NoParent}
  BY DEF CapabilitiesInv, CapabilityTypeOK, SessionRow
<1>2. Descends(sessions)'
  BY <1>1 DEF CapabilitiesInv, Descends, Step
<1>3. Descends(stored)'
  BY <1>1 DEF CapabilitiesInv, Descends, Step
<1>4. ASSUME NEW y \in Spawned, sessions'[y].known PROVE Bound(y)'
  <2>1. CASE y = x
    BY <1>4, <2>1
  <2>2. CASE y # x
    BY <1>4, <2>2 DEF CapabilitiesInv, Bound, Step
  <2> QED BY <2>1, <2>2
<1>5. ASSUME NEW b \in Asker, asking'[b].doing # "none" PROVE Asked(asking[b])'
  <2>1. CASE b = a
    BY <1>5, <2>1
  <2>2. CASE b # a
    <3>1. asking'[b] = asking[b]
      BY <2>2 DEF Step
    <3> QED BY <1>5, <2>2, <3>1, OthersAsked
  <2> QED BY <2>1, <2>2
<1>6. ASSUME NEW b \in Asker, NEW c \in Asker, b # c PROVE Apart(b, c)'
  <2>1. CASE b = a
    BY <1>6, <2>1
  <2>2. CASE c = a
    BY <1>6, <2>2 DEF Apart
  <2>3. CASE b # a /\ c # a
    BY <1>6, <2>3 DEF CapabilitiesInv, Apart, Step
  <2> QED BY <2>1, <2>2, <2>3
<1> QED BY <1>2, <1>3, <1>4, <1>5, <1>6 DEF CapabilitiesInv

(* When the request leaves the envelopes of the views alone, or the session *)
(* is one that nobody knows yet.                                           *)
LEMMA TightensElsewhere ==
  ASSUME CapabilitiesInv, NEW x \in Spawned,
         \A y \in Spawned \ {x} : sessions'[y] = sessions[y],
         sessions[x].known /\ x \notin raced \cup unlinked =>
           /\ sessions[x].parent # NoParent => sessions'[x].parent = sessions[x].parent
           /\ Within(sessions'[x].record, sessions[x].record)
  PROVE  Tightens
<1>1. \A y \in Spawned : sessions[y].record \in Requested
  BY DEF CapabilitiesInv, CapabilityTypeOK, SessionRow
<1> QED BY <1>1, RecordsKnown DEF Tightens

LEMMA SameTightens ==
  ASSUME CapabilitiesInv, sessions' = sessions
  PROVE  Tightens
<1>1. \A y \in Spawned : sessions[y].record \in Requested
  BY DEF CapabilitiesInv, CapabilityTypeOK, SessionRow
<1> QED BY <1>1, RecordsKnown DEF Tightens

(* What the two writes to a session's row do.                              *)
LEMMA AmendedIs ==
  ASSUME NEW t \in [Spawned -> SessionRow], NEW s \in Spawned, NEW q \in Requested, NEW u,
         u = Amended(t, s, q)
  PROVE  /\ u \in [Spawned -> SessionRow]
         /\ \A y \in Spawned \ {s} : u[y] = t[y]
         /\ u[s].known = t[s].known /\ u[s].parent = t[s].parent
         /\ q.legacy => u[s].record = t[s].record
         /\ ~q.legacy /\ t[s].known => u[s].record = q
<1>1. t[s] \in SessionRow
  OBVIOUS
<1>2. CASE q.legacy \/ ~t[s].known
  BY <1>2 DEF Amended
<1>3. CASE ~(q.legacy \/ ~t[s].known)
  <2>1. u = [t EXCEPT ![s].record = q]
    BY <1>3 DEF Amended
  <2> HIDE DEF Requested
  <2> QED BY <1>1, <1>3, <2>1 DEF SessionRow
<1> QED BY <1>2, <1>3

LEMMA ChildOfIs ==
  ASSUME NEW t \in [Spawned -> SessionRow], NEW s \in Spawned, NEW p \in Spawned \cup {NoParent},
         NEW u, u = ChildOf(t, s, p)
  PROVE  /\ u \in [Spawned -> SessionRow]
         /\ \A y \in Spawned \ {s} : u[y] = t[y]
         /\ u[s].known = t[s].known /\ u[s].parent = p /\ u[s].record = t[s].record
<1>1. t[s] \in SessionRow
  OBVIOUS
<1> QED BY <1>1 DEF ChildOf, SessionRow

LEMMA FreshIs ==
  ASSUME NEW t \in [Spawned -> SessionRow], NEW s \in Spawned, NEW u, u = [t EXCEPT ![s] = Row]
  PROVE  /\ u \in [Spawned -> SessionRow]
         /\ \A y \in Spawned \ {s} : u[y] = t[y]
         /\ u[s].known /\ u[s].parent = NoParent /\ u[s].record = Legacy
  BY RecordsKnown

(* A request that nobody else has in hand: that of a session that is not   *)
(* known yet.                                                              *)
LEMMA CreatorIsAlone ==
  ASSUME CapabilitiesInv, NEW a \in Asker, asking[a].doing \in {"create", "child"},
         NEW b \in Asker \ {a}, asking[b].doing # "none"
  PROVE  asking[b].of # asking[a].of
<1>1. SUFFICES ASSUME asking[b].of = asking[a].of PROVE FALSE
  OBVIOUS
<1>2. asking[b].doing = "patch" /\ Asked(asking[a]) /\ Asked(asking[b])
  BY <1>1 DEF CapabilitiesInv, Apart
<1> QED BY <1>1, <1>2 DEF Asked

LEMMA NewIsAlone ==
  ASSUME CapabilitiesInv, NEW s \in Spawned, ~stored[s].known, NEW b \in Asker,
         asking[b].doing # "none"
  PROVE  asking[b].of # s
  BY DEF CapabilitiesInv, Asked

LEMMA IssueSessionStep ==
  ASSUME CapabilitiesInv, NEW a \in Asker, NEW s \in Spawned, NEW q \in Requested,
         NEW signable \in BOOLEAN, IssueSession(a, s, q, signable)
  PROVE  CapabilitiesInv' /\ Tightens
<1> DEFINE r == [Idle EXCEPT !.doing = "create", !.of = s, !.record = q]
<1>1. /\ asking[a].doing = "none" /\ ~stored[s].known /\ stored' = [stored EXCEPT ![s] = Row]
      /\ sessions' = sessions /\ raced' = raced /\ unlinked' = unlinked
      /\ asking' = asking \/ asking' = [asking EXCEPT ![a] = r]
  BY DEF IssueSession, Become
<1>2. CapabilityTypeOK
  BY DEF CapabilitiesInv
<1>3. /\ stored' \in [Spawned -> SessionRow] /\ \A y \in Spawned \ {s} : stored'[y] = stored[y]
      /\ stored'[s].known /\ stored'[s].parent = NoParent
  <2>1. PICK u : u = stored'
    OBVIOUS
  <2>2. stored \in [Spawned -> SessionRow] /\ u = [stored EXCEPT ![s] = Row]
    BY <1>1, <1>2, <2>1 DEF CapabilityTypeOK
  <2>3. /\ u \in [Spawned -> SessionRow] /\ \A y \in Spawned \ {s} : u[y] = stored[y]
        /\ u[s].known /\ u[s].parent = NoParent
    BY <2>2, FreshIs
  <2> QED BY <2>1, <2>3
<1>4. /\ r \in Request /\ r.doing = "create" /\ r.of = s /\ ~r.logged
  BY RecordsKnown DEF Request, Idle
<1> HIDE DEF r
<1>5. CapabilityTypeOK'
  BY <1>1, <1>2, <1>3, <1>4 DEF CapabilityTypeOK
<1>6. ~sessions[s].known
  BY <1>1 DEF CapabilitiesInv, Bound
<1>7. Step(a, s)
  BY <1>1, <1>2, <1>3 DEF Step, CapabilityTypeOK
<1>8. sessions'[s].parent # NoParent => sessions'[sessions'[s].parent].known
  BY <1>1 DEF CapabilitiesInv, Descends
<1>9. asking'[a].doing # "none" => Asked(asking[a])'
  <2>1. CASE asking' = asking
    BY <1>1, <2>1
  <2>2. CASE asking' = [asking EXCEPT ![a] = r]
    <3>1. asking'[a] = r
      BY <1>2, <2>2 DEF CapabilityTypeOK
    <3> QED BY <1>1, <1>3, <1>4, <1>6, <3>1 DEF Asked
  <2> QED BY <1>1, <2>1, <2>2
<1>10. asking'[a].doing = "none" \/ asking'[a].of = s
  BY <1>1, <1>2, <1>4 DEF CapabilityTypeOK
<1>11. \A b \in Asker \ {a} : Apart(a, b)'
  BY <1>1, <1>7, <1>10, NewIsAlone DEF Apart, Step
<1>12. CapabilitiesInv'
  BY <1>1, <1>3, <1>5, <1>6, <1>7, <1>8, <1>9, <1>11, NewIsAlone, StepKeeps
<1> QED BY <1>1, <1>12, SameTightens

LEMMA IssueSubsessionStep ==
  ASSUME CapabilitiesInv, NEW a \in Asker, NEW s \in Spawned, NEW p \in Spawned,
         NEW q \in Requested, NEW signable \in BOOLEAN, IssueSubsession(a, s, p, q, signable)
  PROVE  CapabilitiesInv' /\ Tightens
<1> DEFINE r == [Idle EXCEPT !.doing = "child", !.of = s, !.parent = p,
                   !.record = ChildRecord(sessions[p].record, q), !.valid = q.legacy \/ signable]
<1>1. /\ asking[a].doing = "none" /\ ~stored[s].known /\ stored' = [stored EXCEPT ![s] = Row]
      /\ sessions' = sessions /\ raced' = raced /\ unlinked' = unlinked
      /\ asking' = [asking EXCEPT ![a] = r] /\ sessions[p].known
  BY DEF IssueSubsession, Become
<1>2. CapabilityTypeOK /\ stored[p].known
  BY <1>1 DEF CapabilitiesInv, Bound
<1>3. /\ stored' \in [Spawned -> SessionRow] /\ \A y \in Spawned \ {s} : stored'[y] = stored[y]
      /\ stored'[s].known /\ stored'[s].parent = NoParent
  <2>1. PICK u : u = stored'
    OBVIOUS
  <2>2. stored \in [Spawned -> SessionRow] /\ u = [stored EXCEPT ![s] = Row]
    BY <1>1, <1>2, <2>1 DEF CapabilityTypeOK
  <2>3. /\ u \in [Spawned -> SessionRow] /\ \A y \in Spawned \ {s} : u[y] = stored[y]
        /\ u[s].known /\ u[s].parent = NoParent
    BY <2>2, FreshIs
  <2> QED BY <2>1, <2>3
<1>4. /\ r \in Request /\ r.doing = "child" /\ r.of = s /\ r.parent = p
  <2>1. ChildRecord(sessions[p].record, q) \in Requested /\ (q.legacy \/ signable) \in BOOLEAN
    <3>1. q.legacy \in BOOLEAN
      <4>1. CASE q = Legacy
        BY <4>1 DEF Legacy
      <4>2. CASE \E e \in Envelope : q = Record(e)
        BY <4>2 DEF Record
      <4> QED BY <4>1, <4>2 DEF Requested
    <3>2. sessions[p].record \in Requested
      BY <1>2 DEF CapabilityTypeOK, SessionRow
    <3> QED BY <3>1, <3>2 DEF ChildRecord
  <2> QED BY <2>1, RecordsKnown DEF Request, Idle
<1> HIDE DEF r
<1>5. CapabilityTypeOK' /\ asking'[a] = r
  BY <1>1, <1>2, <1>3, <1>4 DEF CapabilityTypeOK
<1>6. ~sessions[s].known
  BY <1>1 DEF CapabilitiesInv, Bound
<1>7. Step(a, s)
  BY <1>1, <1>2, <1>3 DEF Step, CapabilityTypeOK
<1>8. sessions'[s].parent # NoParent => sessions'[sessions'[s].parent].known
  BY <1>1 DEF CapabilitiesInv, Descends
<1>9. Asked(asking[a])'
  <2>1. stored'[p].known
    BY <1>2, <1>7 DEF Step
  <2> QED BY <1>1, <1>2, <1>3, <1>4, <1>5, <1>6, <2>1 DEF Asked
<1>11. \A b \in Asker \ {a} : Apart(a, b)'
  BY <1>1, <1>4, <1>5, <1>7, NewIsAlone DEF Apart, Step
<1>12. CapabilitiesInv'
  BY <1>1, <1>3, <1>5, <1>6, <1>7, <1>8, <1>9, <1>11, NewIsAlone, StepKeeps
<1> QED BY <1>1, <1>12, SameTightens

(* The request a in progress, and the two copies of the session's row.     *)
LEMMA InProgress ==
  ASSUME CapabilitiesInv, NEW a \in Asker, asking[a].doing # "none"
  PROVE  /\ asking[a] \in Request /\ Asked(asking[a]) /\ asking[a].of \in Spawned
         /\ asking[a].record \in Requested /\ asking \in [Asker -> Request]
         /\ stored \in [Spawned -> SessionRow] /\ sessions \in [Spawned -> SessionRow]
         /\ Descends(stored) /\ Descends(sessions)
         /\ stored[asking[a].of] \in SessionRow /\ sessions[asking[a].of] \in SessionRow
<1>1. asking[a] \in Request /\ Asked(asking[a])
  BY DEF CapabilitiesInv, CapabilityTypeOK
<1>2. asking[a].of \in Spawned /\ asking[a].record \in Requested
  BY <1>1 DEF Asked, Request
<1> QED BY <1>1, <1>2 DEF CapabilitiesInv, CapabilityTypeOK

LEMMA LogCreatedStep ==
  ASSUME CapabilitiesInv, NEW a \in Asker, LogCreated(a)
  PROVE  CapabilitiesInv' /\ Tightens
<1>1. PICK q, x, r, u : /\ q = asking[a] /\ x = q.of /\ r = [q EXCEPT !.logged = TRUE]
                        /\ u = stored'
  OBVIOUS
<1>2. /\ q.doing = "create" /\ u = Amended(stored, x, q.record)
      /\ asking' = [asking EXCEPT ![a] = r]
      /\ sessions' = sessions /\ raced' = raced /\ unlinked' = unlinked
  BY <1>1 DEF LogCreated, Become
<1>3. /\ q \in Request /\ Asked(q) /\ x \in Spawned /\ q.record \in Requested
      /\ asking \in [Asker -> Request] /\ stored \in [Spawned -> SessionRow]
      /\ sessions \in [Spawned -> SessionRow] /\ Descends(stored) /\ Descends(sessions)
  BY <1>1, <1>2, InProgress
<1>4. /\ u \in [Spawned -> SessionRow] /\ \A y \in Spawned \ {x} : u[y] = stored[y]
      /\ u[x].known = stored[x].known /\ u[x].parent = stored[x].parent
      /\ ~q.record.legacy /\ stored[x].known => u[x].record = q.record
  BY <1>2, <1>3, AmendedIs
<1>5. /\ r \in Request /\ r.doing = "create" /\ r.of = x /\ r.record = q.record
  BY <1>1, <1>2, <1>3 DEF Request
<1>6. asking'[a] = r /\ CapabilityTypeOK'
  BY <1>1, <1>2, <1>3, <1>4, <1>5 DEF CapabilityTypeOK
<1>7. stored[x].known /\ ~sessions[x].known
  BY <1>1, <1>2, <1>3 DEF Asked
<1>8. Step(a, x)
  BY <1>1, <1>2, <1>3, <1>4 DEF Step
<1>9. /\ sessions'[x].parent # NoParent => sessions'[sessions'[x].parent].known
      /\ stored'[x].parent # NoParent => stored'[stored'[x].parent].known
  <2>1. stored[x].parent \in Spawned \cup {NoParent}
    BY <1>3 DEF SessionRow
  <2> QED BY <1>1, <1>2, <1>3, <1>4, <1>8, <2>1 DEF Descends, Step
<1>10. Asked(asking[a])'
  BY <1>1, <1>2, <1>4, <1>5, <1>6, <1>7, <1>3 DEF Asked
<1>11. \A b \in Asker \ {a} : asking[b].doing # "none" => asking[b].of # x
  BY <1>1, <1>2, CreatorIsAlone
<1>12. \A b \in Asker \ {a} : Apart(a, b)'
  BY <1>5, <1>6, <1>8, <1>11 DEF Apart, Step
<1>13. CapabilitiesInv'
  BY <1>2, <1>3, <1>6, <1>7, <1>8, <1>9, <1>10, <1>11, <1>12, StepKeeps
<1> QED BY <1>2, <1>13, SameTightens

LEMMA ApplyCreatedStep ==
  ASSUME CapabilitiesInv, NEW a \in Asker, ApplyCreated(a)
  PROVE  CapabilitiesInv' /\ Tightens
<1>1. PICK q, x, t, u : /\ q = asking[a] /\ x = q.of /\ t = [sessions EXCEPT ![x] = Row]
                        /\ u = sessions'
  OBVIOUS
<1>2. /\ q.doing = "create" /\ q.logged /\ u = Amended(t, x, q.record)
      /\ asking' = [asking EXCEPT ![a] = Idle]
      /\ stored' = stored /\ raced' = raced /\ unlinked' = unlinked
  BY <1>1 DEF ApplyCreated, Become
<1>3. /\ q \in Request /\ Asked(q) /\ x \in Spawned /\ q.record \in Requested
      /\ asking \in [Asker -> Request] /\ stored \in [Spawned -> SessionRow]
      /\ sessions \in [Spawned -> SessionRow] /\ Descends(stored) /\ Descends(sessions)
  BY <1>1, <1>2, InProgress
<1>4. /\ t \in [Spawned -> SessionRow] /\ \A y \in Spawned \ {x} : t[y] = sessions[y]
      /\ t[x].known /\ t[x].parent = NoParent /\ t[x].record = Legacy
  BY <1>1, <1>3, RecordsKnown
<1>5. /\ u \in [Spawned -> SessionRow] /\ \A y \in Spawned \ {x} : u[y] = sessions[y]
      /\ u[x].known /\ u[x].parent = NoParent
      /\ q.record.legacy => u[x].record = Legacy
      /\ ~q.record.legacy => u[x].record = q.record
  BY <1>2, <1>3, <1>4, AmendedIs
<1>6. asking'[a] = Idle /\ CapabilityTypeOK'
  BY <1>1, <1>2, <1>3, <1>5, RecordsKnown DEF CapabilityTypeOK
<1>7. stored[x].known /\ ~sessions[x].known
  BY <1>1, <1>2, <1>3 DEF Asked
<1>8. Step(a, x)
  BY <1>1, <1>2, <1>3, <1>5 DEF Step
<1>9. /\ sessions'[x].parent # NoParent => sessions'[sessions'[x].parent].known
      /\ stored'[x].parent # NoParent => stored'[stored'[x].parent].known
  BY <1>1, <1>2, <1>3, <1>5 DEF Descends
<1>10. Bound(x)'
  <2>1. ~q.record.legacy => stored[x].record = q.record
    BY <1>1, <1>2, <1>3 DEF Asked
  <2>2. stored[x].record \in Requested
    BY <1>3 DEF SessionRow
  <2>3. Within(stored[x].record, u[x].record)
    BY <1>5, <2>1, <2>2, RecordsKnown
  <2>4. Within(stored'[x].record, sessions'[x].record)
    BY <1>1, <1>2, <2>3
  <2> QED BY <1>1, <1>2, <1>5, <1>7, <2>4 DEF Bound
<1>11. \A b \in Asker \ {a} : asking[b].doing # "none" => asking[b].of # x
  BY <1>1, <1>2, CreatorIsAlone
<1>12. \A b \in Asker \ {a} : Apart(a, b)'
  BY <1>6, RecordsKnown DEF Apart
<1>13. CapabilitiesInv'
  BY <1>3, <1>6, <1>8, <1>9, <1>10, <1>11, <1>12, RecordsKnown, StepKeeps
<1>14. Tightens
  BY <1>1, <1>3, <1>5, <1>7, TightensElsewhere
<1> QED BY <1>13, <1>14

LEMMA ShowChildStep ==
  ASSUME CapabilitiesInv, NEW a \in Asker, ShowChild(a)
  PROVE  CapabilitiesInv' /\ Tightens
<1>1. PICK q, x, r, u : /\ q = asking[a] /\ x = q.of /\ r = [q EXCEPT !.doing = "fork"]
                        /\ u = sessions'
  OBVIOUS
<1>2. /\ q.doing = "child" /\ u = [sessions EXCEPT ![x] = Row]
      /\ asking' = [asking EXCEPT ![a] = r] \/ asking' = [asking EXCEPT ![a] = Idle]
      /\ stored' = stored /\ raced' = raced /\ unlinked' = unlinked
  BY <1>1 DEF ShowChild, Become
<1>3. /\ q \in Request /\ Asked(q) /\ x \in Spawned
      /\ asking \in [Asker -> Request] /\ stored \in [Spawned -> SessionRow]
      /\ sessions \in [Spawned -> SessionRow] /\ Descends(stored) /\ Descends(sessions)
  BY <1>1, <1>2, InProgress
<1>5. /\ u \in [Spawned -> SessionRow] /\ \A y \in Spawned \ {x} : u[y] = sessions[y]
      /\ u[x].known /\ u[x].parent = NoParent /\ u[x].record = Legacy
  BY <1>2, <1>3, RecordsKnown
<1>4. r \in Request /\ r.doing = "fork" /\ r.of = x /\ r.parent = q.parent
  BY <1>1, <1>3 DEF Request
<1>6. (asking'[a] = Idle \/ asking'[a] = r) /\ CapabilityTypeOK'
  BY <1>1, <1>2, <1>3, <1>4, <1>5, RecordsKnown DEF CapabilityTypeOK
<1>7. stored[x].known /\ ~sessions[x].known
  BY <1>1, <1>2, <1>3 DEF Asked
<1>8. Step(a, x)
  BY <1>1, <1>2, <1>3, <1>5 DEF Step
<1>9. /\ sessions'[x].parent # NoParent => sessions'[sessions'[x].parent].known
      /\ stored'[x].parent # NoParent => stored'[stored'[x].parent].known
  <2>1. \A y \in Spawned : stored[y].parent # NoParent => stored[stored[y].parent].known
    BY <1>3 DEF Descends
  <2> QED BY <1>1, <1>2, <1>3, <1>5, <2>1
<1>10. Bound(x)'
  <2>1. Within(stored[x].record, u[x].record)
    <3>1. stored[x].record \in Requested
      BY <1>3 DEF SessionRow
    <3> QED BY <1>5, <3>1, RecordsKnown
  <2>2. Within(stored'[x].record, sessions'[x].record)
    BY <1>1, <1>2, <2>1
  <2> QED BY <1>1, <1>2, <1>5, <1>7, <2>2 DEF Bound
<1>11. asking'[a].doing # "none" => Asked(asking[a])'
  <2>1. q.parent \in Spawned /\ sessions[q.parent].known /\ stored[q.parent].known
    BY <1>2, <1>3 DEF Asked
  <2>2. u[q.parent].known
    BY <1>1, <1>8, <2>1 DEF Step
  <2>3. SUFFICES ASSUME asking'[a] = r PROVE Asked(asking[a])'
    BY <1>6, RecordsKnown
  <2> QED BY <1>1, <1>2, <1>4, <1>5, <1>7, <2>1, <2>2, <2>3 DEF Asked
<1>12. \A b \in Asker \ {a} : asking[b].doing # "none" => asking[b].of # x
  BY <1>1, <1>2, CreatorIsAlone
<1>13. \A b \in Asker \ {a} : Apart(a, b)'
  BY <1>4, <1>6, <1>8, <1>12, RecordsKnown DEF Apart, Step
<1>14. CapabilitiesInv'
  BY <1>3, <1>6, <1>8, <1>9, <1>10, <1>11, <1>12, <1>13, StepKeeps
<1>15. Tightens
  BY <1>1, <1>3, <1>5, <1>7, TightensElsewhere
<1> QED BY <1>14, <1>15

(* Where two requests have x in hand, the one does not disturb the other:   *)
(* x is raced, and one of them patches it.                                 *)
LEMMA SharedAsked ==
  ASSUME CapabilitiesInv, NEW a \in Asker, NEW b \in Asker \ {a}, NEW x \in Spawned, Step(a, x),
         asking[a].doing # "none", asking[b].doing # "none", asking[a].of = x, asking[b].of = x,
         asking[a].doing = "patch" =>
           /\ sessions'[x].parent = sessions[x].parent /\ stored'[x].parent = stored[x].parent
           /\ unlinked' = unlinked
  PROVE  Asked(asking[b])'
<1>1. PICK q, r : q = asking[a] /\ r = asking[b]
  OBVIOUS
<1>2. x \in raced /\ (q.doing = "patch" \/ r.doing = "patch") /\ Asked(q) /\ Asked(r)
  BY <1>1 DEF CapabilitiesInv, Apart
<1>3. asking'[b] = r /\ x \in raced'
  BY <1>1, <1>2 DEF Step
<1>4. stored'[x].known /\ sessions[x].known /\ sessions'[x].known
  BY <1>1, <1>2 DEF Asked, Step
<1>5. r.doing \in {"fork", "link"} => sessions'[r.parent].known /\ stored'[r.parent].known
  BY <1>2 DEF Asked, Step
<1>6. r.doing \notin {"create", "child"}
  BY <1>1, <1>2, <1>4 DEF Asked
<1>7. r.of = x
  BY <1>1
<1>8. CASE r.doing = "patch"
  BY <1>2, <1>3, <1>4, <1>7, <1>8 DEF Asked
<1>9. CASE r.doing # "patch"
  <2>1. /\ sessions'[x].parent = sessions[x].parent /\ stored'[x].parent = stored[x].parent
        /\ unlinked' = unlinked
    BY <1>1, <1>2, <1>9
  <2> QED BY <1>2, <1>3, <1>4, <1>5, <1>6, <1>7, <1>9, <2>1 DEF Asked
<1> QED BY <1>8, <1>9

LEMMA LogForkStep ==
  ASSUME CapabilitiesInv, NEW a \in Asker, NEW written \in BOOLEAN, LogFork(a, written)
  PROVE  CapabilitiesInv' /\ Tightens
<1>1. PICK q, x, r, u : /\ q = asking[a] /\ x = q.of /\ r = [q EXCEPT !.doing = "link"]
                        /\ u = stored'
  OBVIOUS
<1>2. /\ q.doing = "fork" /\ asking' = [asking EXCEPT ![a] = r]
      /\ written => u = ChildOf(stored, x, q.parent) /\ unlinked' = unlinked
      /\ ~written => u = stored /\ unlinked' = unlinked \cup {x}
      /\ sessions' = sessions /\ raced' = raced
  BY <1>1 DEF LogFork, Become
<1>3. /\ q \in Request /\ Asked(q) /\ x \in Spawned
      /\ asking \in [Asker -> Request] /\ stored \in [Spawned -> SessionRow]
      /\ sessions \in [Spawned -> SessionRow] /\ Descends(stored) /\ Descends(sessions)
  BY <1>1, <1>2, InProgress
<1>4. /\ q.parent \in Spawned /\ sessions[q.parent].known /\ stored[q.parent].known
      /\ stored[x].known /\ sessions[x].known /\ sessions[x].parent = NoParent
      /\ x \notin raced => sessions[x].record = Legacy
  BY <1>1, <1>2, <1>3 DEF Asked
<1>5. /\ u \in [Spawned -> SessionRow] /\ \A y \in Spawned \ {x} : u[y] = stored[y]
      /\ u[x].known /\ u[x].record = stored[x].record
      /\ u[x].parent = IF written THEN q.parent ELSE stored[x].parent
  <2>1. CASE written
    BY <1>2, <1>3, <1>4, <2>1, ChildOfIs
  <2>2. CASE ~written
    BY <1>2, <1>3, <1>4, <2>2
  <2> QED BY <2>1, <2>2
<1>6. r \in Request /\ r.doing = "link" /\ r.of = x /\ r.parent = q.parent
  BY <1>1, <1>3 DEF Request
<1>7. asking'[a] = r /\ CapabilityTypeOK'
  BY <1>1, <1>2, <1>3, <1>5, <1>6 DEF CapabilityTypeOK
<1>8. Step(a, x)
  BY <1>1, <1>2, <1>3, <1>5 DEF Step
<1>9. /\ sessions'[x].parent # NoParent => sessions'[sessions'[x].parent].known
      /\ stored'[x].parent # NoParent => stored'[stored'[x].parent].known
  <2>1. stored[x].parent # NoParent => stored[x].parent \in Spawned /\ stored[stored[x].parent].known
    BY <1>3 DEF Descends, SessionRow
  <2> QED BY <1>1, <1>2, <1>4, <1>5, <1>8, <2>1 DEF Step
<1>10. Bound(x)'
  <2>1. x \notin raced => Within(u[x].record, sessions[x].record)
    BY <1>3, <1>4, <1>5 DEF CapabilitiesInv, Bound
  <2> QED BY <1>1, <1>2, <1>4, <1>5, <2>1 DEF Bound
<1>11. Asked(asking[a])'
  <2>1. sessions'[q.parent].known /\ stored'[q.parent].known
    BY <1>4, <1>8 DEF Step
  <2>2. x \notin unlinked' => written
    BY <1>2
  <2> QED BY <1>1, <1>2, <1>3, <1>4, <1>5, <1>6, <1>7, <2>1, <2>2 DEF Asked
<1>12. \A b \in Asker \ {a} : asking[b].doing # "none" /\ asking[b].of = x => Asked(asking[b])'
  BY <1>1, <1>2, <1>3, <1>8, SharedAsked
<1>13. \A b \in Asker \ {a} : Apart(a, b)'
  <2>1. \A b \in Asker \ {a} : Apart(a, b)
    BY DEF CapabilitiesInv
  <2> QED BY <1>1, <1>2, <1>6, <1>7, <1>8, <2>1 DEF Apart, Step
<1>14. CapabilitiesInv'
  BY <1>3, <1>7, <1>8, <1>9, <1>10, <1>11, <1>12, <1>13, StepKeeps
<1> QED BY <1>2, <1>14, SameTightens

LEMMA LinkChildStep ==
  ASSUME CapabilitiesInv, NEW a \in Asker, NEW written \in BOOLEAN, LinkChild(a, written)
  PROVE  CapabilitiesInv' /\ Tightens
<1>1. PICK q, x, t, u, v : /\ q = asking[a] /\ x = q.of /\ t = ChildOf(sessions, x, q.parent)
                           /\ u = stored' /\ v = sessions'
  OBVIOUS
<1>2. /\ q.doing = "link" /\ asking' = [asking EXCEPT ![a] = Idle]
      /\ written => u = Amended(stored, x, q.record) /\ v = Amended(t, x, q.record)
      /\ ~written => u = stored /\ v = t
      /\ unlinked' = unlinked /\ raced' = raced
  BY <1>1 DEF LinkChild, Become
<1>3. /\ q \in Request /\ Asked(q) /\ x \in Spawned /\ q.record \in Requested
      /\ asking \in [Asker -> Request] /\ stored \in [Spawned -> SessionRow]
      /\ sessions \in [Spawned -> SessionRow] /\ Descends(stored) /\ Descends(sessions)
  BY <1>1, <1>2, InProgress
<1>4. /\ q.parent \in Spawned /\ sessions[q.parent].known /\ stored[q.parent].known
      /\ stored[x].known /\ sessions[x].known /\ sessions[x].parent = NoParent
      /\ x \notin raced => sessions[x].record = Legacy
      /\ x \notin unlinked => stored[x].parent = q.parent
  BY <1>1, <1>2, <1>3 DEF Asked
<1>5. /\ t \in [Spawned -> SessionRow] /\ \A y \in Spawned \ {x} : t[y] = sessions[y]
      /\ t[x].known /\ t[x].parent = q.parent /\ t[x].record = sessions[x].record
  <2>1. t = ChildOf(sessions, x, q.parent)
    BY <1>1
  <2> QED BY <1>3, <1>4, <2>1, ChildOfIs
<1>6. /\ u \in [Spawned -> SessionRow] /\ \A y \in Spawned \ {x} : u[y] = stored[y]
      /\ u[x].known /\ u[x].parent = stored[x].parent
      /\ u[x].record = IF written /\ ~q.record.legacy THEN q.record ELSE stored[x].record
  <2>1. CASE written
    BY <1>2, <1>3, <1>4, <2>1, AmendedIs
  <2>2. CASE ~written
    BY <1>2, <1>3, <1>4, <2>2
  <2> QED BY <2>1, <2>2
<1>7. /\ v \in [Spawned -> SessionRow] /\ \A y \in Spawned \ {x} : v[y] = sessions[y]
      /\ v[x].known /\ v[x].parent = q.parent
      /\ v[x].record = IF written /\ ~q.record.legacy THEN q.record ELSE sessions[x].record
  <2>1. CASE written
    <3>1. v = Amended(t, x, q.record)
      BY <1>2, <2>1
    <3>2. /\ v \in [Spawned -> SessionRow] /\ \A y \in Spawned \ {x} : v[y] = t[y]
          /\ v[x].known /\ v[x].parent = t[x].parent
          /\ q.record.legacy => v[x].record = t[x].record
          /\ ~q.record.legacy => v[x].record = q.record
      BY <1>3, <1>5, <3>1, AmendedIs
    <3> QED BY <1>5, <2>1, <3>2
  <2>2. CASE ~written
    BY <1>2, <1>5, <2>2
  <2> QED BY <2>1, <2>2
<1>8. asking'[a] = Idle /\ CapabilityTypeOK'
  BY <1>1, <1>2, <1>3, <1>6, <1>7, RecordsKnown DEF CapabilityTypeOK
<1>9. Step(a, x)
  BY <1>1, <1>2, <1>3, <1>6, <1>7 DEF Step
<1>10. /\ sessions'[x].parent # NoParent => sessions'[sessions'[x].parent].known
       /\ stored'[x].parent # NoParent => stored'[stored'[x].parent].known
  <2>1. stored[x].parent # NoParent => stored[x].parent \in Spawned /\ stored[stored[x].parent].known
    BY <1>3 DEF Descends, SessionRow
  <2> QED BY <1>1, <1>4, <1>6, <1>7, <1>9, <2>1 DEF Step
<1>11. sessions[x].record \in Requested
  BY <1>3 DEF SessionRow
<1>12. Bound(x)'
  <2>1. x \notin raced => Within(u[x].record, v[x].record)
    BY <1>3, <1>4, <1>6, <1>7, RecordsKnown DEF CapabilitiesInv, Bound
  <2> QED BY <1>1, <1>2, <1>4, <1>6, <1>7, <2>1 DEF Bound
<1>13. \A b \in Asker \ {a} : asking[b].doing # "none" /\ asking[b].of = x => Asked(asking[b])'
  BY <1>1, <1>2, <1>3, <1>9, SharedAsked
<1>14. \A b \in Asker \ {a} : Apart(a, b)'
  BY <1>8, RecordsKnown DEF Apart
<1>15. CapabilitiesInv'
  BY <1>3, <1>8, <1>9, <1>10, <1>12, <1>13, <1>14, RecordsKnown, StepKeeps
<1>16. Tightens
  <2>1. x \notin raced => Within(v[x].record, sessions[x].record)
    BY <1>3, <1>4, <1>7, <1>11, RecordsKnown
  <2> QED BY <1>1, <1>3, <1>4, <1>7, <2>1, TightensElsewhere
<1> QED BY <1>15, <1>16

LEMMA PatchSessionStep ==
  ASSUME CapabilitiesInv, NEW a \in Asker, NEW s \in Spawned, NEW e \in Envelope,
         PatchSession(a, s, e)
  PROVE  CapabilitiesInv' /\ Tightens
<1>1. PICK r, f : /\ r = [Idle EXCEPT !.doing = "patch", !.of = s, !.record = Record(e)]
                  /\ f = sessions[s].record
  OBVIOUS
<1>2. /\ asking[a].doing = "none" /\ sessions[s].known /\ MayPatch(sessions[s], e)
      /\ asking' = [asking EXCEPT ![a] = r] /\ stored' = stored /\ sessions' = sessions
      /\ raced' = (IF InHand(s) = {} THEN raced ELSE raced \cup {s}) /\ unlinked' = unlinked
  BY <1>1 DEF PatchSession, Become
<1>3. /\ CapabilityTypeOK /\ Descends(stored) /\ Descends(sessions) /\ Bound(s) /\ f \in Requested
  BY <1>1, <1>2 DEF CapabilitiesInv, CapabilityTypeOK, SessionRow
<1>4. /\ r \in Request /\ r.doing = "patch" /\ r.of = s /\ r.record = Record(e) /\ ~r.logged
  <2>1. Record(e) \in Requested
    BY RecordsKnown
  <2> QED BY <1>1, <2>1, RecordsKnown DEF Request, Idle
<1>5. asking'[a] = r /\ CapabilityTypeOK'
  BY <1>2, <1>3, <1>4 DEF CapabilityTypeOK
<1>6. Step(a, s)
  BY <1>2, <1>3 DEF Step, CapabilityTypeOK
<1>7. /\ sessions'[s].parent # NoParent => sessions'[sessions'[s].parent].known
      /\ stored'[s].parent # NoParent => stored'[stored'[s].parent].known
  BY <1>2, <1>3 DEF Descends
<1>8. Bound(s)'
  BY <1>2, <1>3, <1>6 DEF Bound, Step
<1>9. Within(Record(e), f) /\ ~Record(e).legacy
  <2>1. CASE f.legacy
    <3>1. f = Legacy
      BY <1>3, <2>1, RecordsKnown DEF Requested
    <3> QED BY <3>1, RecordsKnown
  <2>2. CASE ~f.legacy
    <3>1. IsNarrowerThan(e, f)
      BY <1>1, <1>2, <2>2 DEF MayPatch
    <3> QED BY <1>3, <3>1, NarrowerIsWithin, RecordsKnown
  <2> QED BY <2>1, <2>2
<1>10. Asked(asking[a])'
  <2>1. stored[s].known
    BY <1>3 DEF Bound
  <2> QED BY <1>1, <1>2, <1>4, <1>5, <1>9, <2>1 DEF Asked
<1>11. \A b \in Asker \ {a} : asking[b].doing # "none" /\ asking[b].of = s =>
         Asked(asking[b])' /\ s \in raced'
  <2>1. SUFFICES ASSUME NEW b \in Asker \ {a}, asking[b].doing # "none", asking[b].of = s
                 PROVE  Asked(asking[b])' /\ s \in raced'
    OBVIOUS
  <2>2. s \in raced'
    BY <1>2, <2>1 DEF InHand
  <2>3. Asked(asking[b]) /\ asking'[b] = asking[b]
    BY <1>6, <2>1 DEF CapabilitiesInv, Step
  <2> QED BY <1>2, <2>1, <2>2, <2>3 DEF Asked
<1>12. \A b \in Asker \ {a} : Apart(a, b)'
  BY <1>4, <1>5, <1>6, <1>11 DEF Apart, Step
<1>13. CapabilitiesInv'
  BY <1>5, <1>6, <1>7, <1>8, <1>10, <1>11, <1>12, StepKeeps
<1> QED BY <1>2, <1>13, SameTightens

LEMMA LogPatchStep ==
  ASSUME CapabilitiesInv, NEW a \in Asker, NEW written \in BOOLEAN, LogPatch(a, written)
  PROVE  CapabilitiesInv' /\ Tightens
<1>1. PICK q, x, r, u : /\ q = asking[a] /\ x = q.of /\ u = stored'
                        /\ r = IF written THEN [q EXCEPT !.logged = TRUE] ELSE Idle
  OBVIOUS
<1>2. /\ q.doing = "patch" /\ asking' = [asking EXCEPT ![a] = r]
      /\ u = IF written THEN Amended(stored, x, q.record) ELSE stored
      /\ sessions' = sessions /\ raced' = raced /\ unlinked' = unlinked
  BY <1>1 DEF LogPatch, Become
<1>3. /\ q \in Request /\ Asked(q) /\ x \in Spawned /\ q.record \in Requested
      /\ asking \in [Asker -> Request] /\ stored \in [Spawned -> SessionRow]
      /\ sessions \in [Spawned -> SessionRow] /\ Descends(stored) /\ Descends(sessions)
  BY <1>1, <1>2, InProgress
<1>4. /\ stored[x].known /\ sessions[x].known /\ ~q.record.legacy
      /\ x \notin raced => Within(q.record, sessions[x].record)
  BY <1>1, <1>2, <1>3 DEF Asked
<1>5. /\ u \in [Spawned -> SessionRow] /\ \A y \in Spawned \ {x} : u[y] = stored[y]
      /\ u[x].known /\ u[x].parent = stored[x].parent
      /\ u[x].record = IF written THEN q.record ELSE stored[x].record
  <2>1. CASE written
    <3>1. u = Amended(stored, x, q.record)
      BY <1>2, <2>1
    <3> QED BY <1>3, <1>4, <2>1, <3>1, AmendedIs
  <2>2. CASE ~written
    BY <1>2, <1>3, <1>4, <2>2
  <2> QED BY <2>1, <2>2
<1>6. /\ r \in Request
      /\ r.doing = "none" \/ (r.doing = "patch" /\ written)
      /\ written => r.of = x /\ r.record = q.record
  <2>1. CASE written
    BY <1>1, <1>2, <1>3, <2>1 DEF Request
  <2>2. CASE ~written
    BY <1>1, <2>2, RecordsKnown
  <2> QED BY <2>1, <2>2
<1>7. asking'[a] = r /\ CapabilityTypeOK'
  BY <1>1, <1>2, <1>3, <1>5, <1>6 DEF CapabilityTypeOK
<1>8. Step(a, x)
  BY <1>1, <1>2, <1>3, <1>5 DEF Step
<1>9. /\ sessions'[x].parent # NoParent => sessions'[sessions'[x].parent].known
      /\ stored'[x].parent # NoParent => stored'[stored'[x].parent].known
  <2>1. stored[x].parent # NoParent => stored[x].parent \in Spawned /\ stored[stored[x].parent].known
    BY <1>3 DEF Descends, SessionRow
  <2>2. sessions[x].parent # NoParent => sessions[sessions[x].parent].known
    BY <1>3 DEF Descends
  <2> QED BY <1>1, <1>2, <1>5, <1>8, <2>1, <2>2 DEF Step
<1>10. Bound(x)'
  <2>1. Bound(x)
    BY <1>3, <1>4 DEF CapabilitiesInv
  <2>2. x \notin raced => Within(u[x].record, sessions[x].record)
    BY <1>4, <1>5, <2>1 DEF Bound
  <2> QED BY <1>1, <1>2, <1>4, <1>5, <2>1, <2>2 DEF Bound
<1>11. asking'[a].doing # "none" => Asked(asking[a])'
  BY <1>1, <1>2, <1>3, <1>4, <1>5, <1>6, <1>7 DEF Asked
<1>12. \A b \in Asker \ {a} : asking[b].doing # "none" /\ asking[b].of = x => Asked(asking[b])'
  BY <1>1, <1>2, <1>3, <1>5, <1>8, SharedAsked
<1>13. \A b \in Asker \ {a} : Apart(a, b)'
  <2>1. \A b \in Asker \ {a} : Apart(a, b)
    BY DEF CapabilitiesInv
  <2> QED BY <1>1, <1>2, <1>6, <1>7, <1>8, <2>1 DEF Apart, Step
<1>14. CapabilitiesInv'
  BY <1>3, <1>7, <1>8, <1>9, <1>10, <1>11, <1>12, <1>13, StepKeeps
<1> QED BY <1>2, <1>14, SameTightens

LEMMA ApplyPatchStep ==
  ASSUME CapabilitiesInv, NEW a \in Asker, ApplyPatch(a)
  PROVE  CapabilitiesInv' /\ Tightens
<1>1. PICK q, x, u : q = asking[a] /\ x = q.of /\ u = sessions'
  OBVIOUS
<1>2. /\ q.doing = "patch" /\ q.logged /\ asking' = [asking EXCEPT ![a] = Idle]
      /\ u = Amended(sessions, x, q.record)
      /\ stored' = stored /\ raced' = raced /\ unlinked' = unlinked
  BY <1>1 DEF ApplyPatch, Become
<1>3. /\ q \in Request /\ Asked(q) /\ x \in Spawned /\ q.record \in Requested
      /\ asking \in [Asker -> Request] /\ stored \in [Spawned -> SessionRow]
      /\ sessions \in [Spawned -> SessionRow] /\ Descends(stored) /\ Descends(sessions)
  BY <1>1, <1>2, InProgress
<1>4. /\ stored[x].known /\ sessions[x].known /\ ~q.record.legacy
      /\ x \notin raced => Within(q.record, sessions[x].record) /\ stored[x].record = q.record
  BY <1>1, <1>2, <1>3 DEF Asked
<1>5. /\ u \in [Spawned -> SessionRow] /\ \A y \in Spawned \ {x} : u[y] = sessions[y]
      /\ u[x].known /\ u[x].parent = sessions[x].parent /\ u[x].record = q.record
  BY <1>2, <1>3, <1>4, AmendedIs
<1>6. asking'[a] = Idle /\ CapabilityTypeOK'
  BY <1>1, <1>2, <1>3, <1>5, RecordsKnown DEF CapabilityTypeOK
<1>7. Step(a, x)
  BY <1>1, <1>2, <1>3, <1>5 DEF Step
<1>8. /\ sessions'[x].parent # NoParent => sessions'[sessions'[x].parent].known
      /\ stored'[x].parent # NoParent => stored'[stored'[x].parent].known
  <2>1. sessions[x].parent # NoParent =>
          sessions[x].parent \in Spawned /\ sessions[sessions[x].parent].known
    BY <1>3 DEF Descends, SessionRow
  <2>2. stored[x].parent # NoParent => stored[stored[x].parent].known
    BY <1>3 DEF Descends
  <2> QED BY <1>1, <1>2, <1>5, <1>7, <2>1, <2>2 DEF Step
<1>9. Bound(x)'
  <2>1. Bound(x)
    BY <1>3, <1>4 DEF CapabilitiesInv
  <2>2. x \notin raced => Within(stored[x].record, u[x].record)
    BY <1>3, <1>4, <1>5, RecordsKnown
  <2> QED BY <1>1, <1>2, <1>4, <1>5, <2>1, <2>2 DEF Bound
<1>10. \A b \in Asker \ {a} : asking[b].doing # "none" /\ asking[b].of = x => Asked(asking[b])'
  BY <1>1, <1>2, <1>3, <1>5, <1>7, SharedAsked
<1>11. \A b \in Asker \ {a} : Apart(a, b)'
  BY <1>6, RecordsKnown DEF Apart
<1>12. CapabilitiesInv'
  BY <1>3, <1>6, <1>7, <1>8, <1>9, <1>10, <1>11, RecordsKnown, StepKeeps
<1>13. Tightens
  BY <1>1, <1>3, <1>4, <1>5, TightensElsewhere
<1> QED BY <1>12, <1>13

LEMMA StartSessionStep ==
  ASSUME CapabilitiesInv, NEW s \in Spawned, StartSession(s)
  PROVE  CapabilitiesInv' /\ Tightens
<1>1. PICK u, v : u = stored' /\ v = sessions'
  OBVIOUS
<1>2. /\ u = [stored EXCEPT ![s].started = TRUE] /\ v = [sessions EXCEPT ![s].started = TRUE]
      /\ asking' = asking /\ raced' = raced /\ unlinked' = unlinked
  BY <1>1 DEF StartSession
<1>3. /\ asking \in [Asker -> Request] /\ stored \in [Spawned -> SessionRow]
      /\ sessions \in [Spawned -> SessionRow] /\ Descends(stored) /\ Descends(sessions)
  BY DEF CapabilitiesInv, CapabilityTypeOK
<1>4. /\ u \in [Spawned -> SessionRow]
      /\ \A y \in Spawned : /\ u[y].known = stored[y].known /\ u[y].parent = stored[y].parent
                            /\ u[y].record = stored[y].record
  BY <1>2, <1>3 DEF SessionRow
<1>5. /\ v \in [Spawned -> SessionRow]
      /\ \A y \in Spawned : /\ v[y].known = sessions[y].known /\ v[y].parent = sessions[y].parent
                            /\ v[y].record = sessions[y].record
  BY <1>2, <1>3 DEF SessionRow
<1>6. CapabilityTypeOK'
  BY <1>1, <1>2, <1>3, <1>4, <1>5 DEF CapabilityTypeOK
<1>7. \A y \in Spawned : /\ stored[y].parent \in Spawned \cup {NoParent}
                         /\ sessions[y].parent \in Spawned \cup {NoParent}
                         /\ sessions[y].record \in Requested
  BY <1>3 DEF SessionRow
<1>8. Descends(stored)' /\ Descends(sessions)'
  BY <1>1, <1>3, <1>4, <1>5, <1>7 DEF Descends
<1>9. ASSUME NEW x \in Spawned, sessions'[x].known PROVE Bound(x)'
  <2>1. Bound(x)
    BY <1>1, <1>5, <1>9 DEF CapabilitiesInv
  <2> QED BY <1>1, <1>2, <1>4, <1>5, <2>1 DEF Bound
<1>10. ASSUME NEW a \in Asker, asking'[a].doing # "none" PROVE Asked(asking[a])'
  <2>1. Asked(asking[a])
    BY <1>2, <1>10 DEF CapabilitiesInv
  <2> QED BY <1>1, <1>2, <1>4, <1>5, <2>1 DEF Asked
<1>11. \A a, b \in Asker : a # b => Apart(a, b)'
  BY <1>2 DEF CapabilitiesInv, Apart
<1>12. Tightens
  BY <1>1, <1>5, <1>7, RecordsKnown DEF Tightens
<1> QED BY <1>6, <1>8, <1>9, <1>10, <1>11, <1>12 DEF CapabilitiesInv

LEMMA RebootStep ==
  ASSUME CapabilitiesInv, Reboot
  PROVE  CapabilitiesInv' /\ Tightens
<1>1. /\ sessions' = stored /\ stored' = stored /\ raced' = raced /\ unlinked' = unlinked
      /\ \A a \in Asker : asking'[a] = Idle
      /\ asking' \in [Asker -> Request]
  BY RecordsKnown DEF Reboot
<1>2. stored \in [Spawned -> SessionRow] /\ Descends(stored)
  BY DEF CapabilitiesInv, CapabilityTypeOK
<1>3. \A x \in Spawned : stored[x].record \in Requested
  BY <1>2 DEF SessionRow
<1>4. CapabilityTypeOK' /\ Descends(stored)' /\ Descends(sessions)'
  BY <1>1, <1>2 DEF CapabilityTypeOK, Descends
<1>5. ASSUME NEW x \in Spawned, sessions'[x].known PROVE Bound(x)'
  BY <1>1, <1>3, <1>5, RecordsKnown DEF Bound
<1>6. \A a \in Asker : asking'[a].doing = "none"
  BY <1>1, RecordsKnown
<1>7. Tightens
  BY <1>1 DEF CapabilitiesInv, Bound, Tightens
<1> QED BY <1>4, <1>5, <1>6, <1>7 DEF CapabilitiesInv, Apart

(* A session that the log holds at the start has no record, and its parent *)
(* is there.                                                               *)
LEMMA CapabilitiesBegin == CapabilityInit => CapabilitiesInv
<1> SUFFICES ASSUME CapabilityInit PROVE CapabilitiesInv
  OBVIOUS
<1>1. /\ stored = [s \in Spawned |-> Found(s)] /\ sessions = stored
      /\ asking = [a \in Asker |-> Idle]
  BY DEF CapabilityInit
<1>2. ASSUME NEW s \in Spawned
      PROVE  /\ Found(s) \in SessionRow
             /\ Found(s).parent # NoParent =>
                  Found(s).parent \in Spawned /\ Found(Found(s).parent).known
  <2>1. CASE s \in DOMAIN ParentOf
    <3>1. PICK p \in Spawned : p = ParentOf[s]
      BY <2>1, CapabilityAssumption
    <3>2. Found(s) = [Row EXCEPT !.parent = p]
      BY <2>1, <3>1 DEF Found
    <3>3. Found(s) \in SessionRow /\ Found(s).parent = p
      BY <3>2, RecordsKnown DEF SessionRow
    <3>4. CASE p \in DOMAIN ParentOf
      <4>1. PICK g \in Spawned : g = ParentOf[p]
        BY <3>4, CapabilityAssumption
      <4>2. Found(p) = [Row EXCEPT !.parent = g]
        BY <3>4, <4>1 DEF Found
      <4>3. Found(p).known
        BY <4>2, RecordsKnown DEF SessionRow
      <4> QED BY <3>3, <4>3
    <3>5. CASE p \notin DOMAIN ParentOf
      <4>1. Found(p) = Row
        BY <2>1, <3>1, <3>5 DEF Found
      <4> QED BY <3>3, <4>1, RecordsKnown
    <3> QED BY <3>4, <3>5
  <2>2. CASE s \notin DOMAIN ParentOf
    <3>1. Found(s) = Row \/ Found(s) = Missing
      BY <2>2 DEF Found
    <3> QED BY <3>1, RecordsKnown
  <2> QED BY <2>1, <2>2
<1>3. CapabilityTypeOK
  BY <1>1, <1>2, RecordsKnown DEF CapabilityTypeOK
<1>4. Descends(stored) /\ Descends(sessions)
  BY <1>1, <1>2 DEF Descends
<1>5. \A x \in Spawned : sessions[x].known => Bound(x)
  <2>1. \A x \in Spawned : stored[x].record \in Requested
    BY <1>3 DEF CapabilityTypeOK, SessionRow
  <2> QED BY <1>1, <2>1, RecordsKnown DEF Bound
<1>6. \A a \in Asker : asking[a].doing = "none"
  BY <1>1, RecordsKnown
<1> QED BY <1>3, <1>4, <1>5, <1>6 DEF CapabilitiesInv, Apart

LEMMA CapabilitiesStep ==
  ASSUME CapabilitiesInv, CapabilityNext
  PROVE  CapabilitiesInv' /\ Tightens
<1>1. CASE \E a \in Asker, s \in Spawned, q \in Requested, signable \in BOOLEAN :
             \/ IssueSession(a, s, q, signable)
             \/ \E p \in Spawned : IssueSubsession(a, s, p, q, signable)
  BY <1>1, IssueSessionStep, IssueSubsessionStep
<1>2. CASE \E a \in Asker : LogCreated(a) \/ ApplyCreated(a) \/ ShowChild(a) \/ ApplyPatch(a)
  BY <1>2, LogCreatedStep, ApplyCreatedStep, ShowChildStep, ApplyPatchStep
<1>3. CASE \E a \in Asker, written \in BOOLEAN :
             LogFork(a, written) \/ LinkChild(a, written) \/ LogPatch(a, written)
  BY <1>3, LogForkStep, LinkChildStep, LogPatchStep
<1>4. CASE \E a \in Asker, s \in Spawned, e \in Envelope : PatchSession(a, s, e)
  BY <1>4, PatchSessionStep
<1>5. CASE \E s \in Spawned : StartSession(s)
  BY <1>5, StartSessionStep
<1>6. CASE Reboot
  BY <1>6, RebootStep
<1> QED BY <1>1, <1>2, <1>3, <1>4, <1>5, <1>6 DEF CapabilityNext

(* The inductive invariant of envelopes: types, parents that are known, and *)
(* a log that binds a known session at least as the views do, unless two    *)
(* requests raced for it or its fork is not in the log.                     *)
THEOREM CapabilitiesCorrect == CapabilitySpec => []CapabilitiesInv
<1>1. CapabilityInit => CapabilitiesInv
  BY CapabilitiesBegin
<1>2. CapabilitiesInv /\ [CapabilityNext]_capabilityVars => CapabilitiesInv'
  <2>1. CASE CapabilityNext
    BY <2>1, CapabilitiesStep
  <2>2. CASE UNCHANGED capabilityVars
    BY <2>2 DEF CapabilitiesInv, CapabilityTypeOK, Descends, Bound, Asked, Apart, capabilityVars
  <2> QED BY <2>1, <2>2
<1> QED BY <1>1, <1>2, PTL DEF CapabilitySpec

(* What a session may do never grows (authorize_capability), neither by a   *)
(* patch, a fork, a late or failed append of it or of an ancestor, nor by a *)
(* restart; for any sessions, envelopes, requests and depth of the lineage. *)
THEOREM AuthorityOnlyNarrows == CapabilitySpec => AuthorityNarrows
<1>1. CapabilitiesInv /\ [CapabilityNext]_capabilityVars =>
        [sessions' = sessions \/ \A s \in Spawned : Narrowed(s)]_capabilityVars
  <2>1. CASE CapabilityNext
    BY <2>1, CapabilitiesStep, TightensNarrows
  <2>2. CASE UNCHANGED capabilityVars
    BY <2>2
  <2> QED BY <2>1, <2>2
<1> QED BY <1>1, CapabilitiesCorrect, PTL DEF CapabilitySpec, AuthorityNarrows

=============================================================================
