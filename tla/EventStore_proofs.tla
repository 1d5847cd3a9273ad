--------------------------- MODULE EventStore_proofs ---------------------------
(***************************************************************************)
(* Theorems about the event log and the views, for any number of sessions, *)
(* cards, projects, handlers and boots.                                    *)
(***************************************************************************)
EXTENDS EventStore, FiniteSetTheorems, SequenceTheorems, WellFoundedInduction, TLAPS

USE StoreAssumption

-----------------------------------------------------------------------------
(***************************************************************************)
(* Types.                                                                  *)
(***************************************************************************)
SessionTypes ==
  {"created", "archived", "message", "attached", "context_attached", "context_detached",
   "forked", "handover", "linked"}
Event ==
  [type : {"created"}, session : Session, source : {"stellarc", "cli"}, titled : BOOLEAN]
    \cup [type : {"archived"}, session : Session]
    \cup [type : {"message"}, session : Session, id : Int, by : {"axis", "orbit"}]
    \cup [type : {"attached", "context_detached"}, session : Session, project : Project]
    \cup [type : {"context_attached"}, session : Session, project : Project,
          mode : {"read", "write"}]
    \cup [type : {"forked", "handover"}, session : Session, parent : Session]
    \cup [type : {"linked", "assigned"}, session : Session, card : Card]
    \cup [type : {"reassigned"}, session : Session, card : Card, previous : Session \cup {None}]
    \cup [type : CardOnly, card : Card]
    \cup [type : ProjectOnly, project : Project]

SessionRow ==
  [source : {None, "stellarc", "cli"}, titled : BOOLEAN, archived : BOOLEAN,
   parent : Session \cup {None}, card : Card \cup {None}, project : Project \cup {None},
   context : [Project -> {None, "read", "write"}], count : Nat]
CardRow ==
  [status : {None, "todo", "assigned", "moved", "done"}, session : Session \cup {None},
   attempts : Seq([session : Session, outcome : {"running", "reassigned", "done"}])]
ProjectRow ==
  [status : {None, "live", "deleted"}, edits : SUBSET {"project_updated", "project_layout"}]
Hot == {q \in Seq(Int) : Len(q) <= Window}
Views ==
  [sessions : [Session -> SessionRow], cards : [Card -> CardRow],
   projects : [Project -> ProjectRow], messages : {{}},
   hot : [Session -> Hot]]

Steps == [op : {"append", "apply"}, events : Seq(Event), drops : {0, 1, 3}]

(* What an event has, by its type.                                         *)
Fields(e) ==
  /\ e.type \in SessionTypes \cup {"assigned", "reassigned"} => e.session \in Session
  /\ e.type \in CardOnly \cup {"linked", "assigned", "reassigned"} => e.card \in Card
  /\ e.type \in ProjectOnly \cup {"attached", "context_attached", "context_detached"} =>
       e.project \in Project
  /\ e.type \in {"forked", "handover"} => e.parent \in Session
  /\ e.type = "created" =>
       /\ e = Created(e.session, e.source, e.titled)
       /\ e.source \in {"stellarc", "cli"} /\ e.titled \in BOOLEAN
  /\ e.type = "message" => e = Message(e.session, e.id, e.by) /\ e.id \in Int
  /\ e.type = "context_attached" => e.mode \in {"read", "write"}
  /\ e.type = "reassigned" => e.previous \in Session \cup {None}
  /\ e.type \in CardOnly => e = CardEvent(e.type, e.card)
  /\ e.type \in ProjectOnly => e = ProjectEvent(e.type, e.project)
  /\ e.type \in SessionTypes \cup {"assigned", "reassigned"} \cup CardOnly \cup ProjectOnly

LEMMA EventFields ==
  ASSUME NEW e \in Event
  PROVE  Fields(e)
<1> USE DEF Fields, SessionTypes, CardOnly, ProjectOnly
<1>1. CASE e \in [type : {"created"}, session : Session, source : {"stellarc", "cli"},
                  titled : BOOLEAN]
  BY <1>1 DEF Created
<1>2. CASE e \in [type : {"archived"}, session : Session]
  BY <1>2
<1>3. CASE e \in [type : {"message"}, session : Session, id : Int, by : {"axis", "orbit"}]
  BY <1>3 DEF Message
<1>4. CASE e \in [type : {"attached", "context_detached"}, session : Session,
                  project : Project]
  BY <1>4
<1>5. CASE e \in [type : {"context_attached"}, session : Session, project : Project,
                  mode : {"read", "write"}]
  BY <1>5
<1>6. CASE e \in [type : {"forked", "handover"}, session : Session, parent : Session]
  BY <1>6
<1>7. CASE e \in [type : {"linked", "assigned"}, session : Session, card : Card]
  BY <1>7
<1>8. CASE e \in [type : {"reassigned"}, session : Session, card : Card,
                  previous : Session \cup {None}]
  BY <1>8
<1>9. CASE e \in [type : CardOnly, card : Card]
  BY <1>9 DEF CardEvent
<1>10. CASE e \in [type : ProjectOnly, project : Project]
  BY <1>10 DEF ProjectEvent
<1> QED BY <1>1, <1>2, <1>3, <1>4, <1>5, <1>6, <1>7, <1>8, <1>9, <1>10 DEF Event

(***************************************************************************)
(* One event, applied to the views.                                        *)
(***************************************************************************)
LEMMA SessionsTyped ==
  ASSUME NEW t \in [Session -> SessionRow], NEW e \in Event
  PROVE  ViewSessions(t, e) \in [Session -> SessionRow]
<1>0. Fields(e)
  BY EventFields
<1> USE DEF Fields, SessionTypes, CardOnly, ProjectOnly, Amend
<1>1. CASE e.type = "created"
  <2>1. Fresh(e) \in SessionRow
    BY <1>0, <1>1 DEF Fresh, NoSession, SessionRow
  <2> QED BY <1>0, <1>1, <2>1 DEF ViewSessions
<1>2. CASE e.type = "archived"
  <2>2. ASSUME NEW row \in SessionRow, NEW b \in BOOLEAN
        PROVE  [row EXCEPT !.archived = b] \in SessionRow
    BY DEF SessionRow
  <2>1. [t[e.session] EXCEPT !.archived = TRUE] \in SessionRow
    BY <1>0, <1>2, <2>2
  <2> QED BY <1>0, <1>2, <2>1 DEF ViewSessions
<1>3. CASE e.type = "message"
  <2>3. t[e.session] \in SessionRow /\ t[e.session].count + 1 \in Nat
    BY <1>0, <1>3 DEF SessionRow
  <2>1. [t[e.session] EXCEPT !.count = @ + 1] \in SessionRow
    <3>1. \A row \in SessionRow, n \in Nat : [row EXCEPT !.count = n] \in SessionRow
      BY DEF SessionRow
    <3>2. \A row : [row EXCEPT !.count = @ + 1] = [row EXCEPT !.count = row.count + 1]
      OBVIOUS
    <3> QED BY <2>3, <3>1, <3>2
  <2>2. [t EXCEPT ![e.session].count = @ + 1]
          = [t EXCEPT ![e.session] = [t[e.session] EXCEPT !.count = @ + 1]]
    BY <1>0, <1>3
  <2> QED BY <1>0, <1>3, <2>1, <2>2 DEF ViewSessions
<1>4. CASE e.type = "attached"
  <2>1. [t[e.session] EXCEPT !.project = e.project] \in SessionRow
    BY <1>0, <1>4 DEF SessionRow
  <2> QED BY <1>0, <1>4, <2>1 DEF ViewSessions
<1>5. ASSUME e.type \in {"context_attached", "context_detached"},
             NEW mode \in {None, "read", "write"}
      PROVE  Context(t, e, mode) \in [Session -> SessionRow]
  <2>1. [t[e.session].context EXCEPT ![e.project] = mode] \in [Project -> {None, "read", "write"}]
    BY <1>0, <1>5 DEF SessionRow
  <2>2. [t[e.session] EXCEPT !.context[e.project] = mode]
          = [t[e.session] EXCEPT !.context = [t[e.session].context EXCEPT ![e.project] = mode]]
    BY <1>0, <1>5
  <2>3. [t[e.session] EXCEPT !.context[e.project] = mode] \in SessionRow
    BY <1>0, <1>5, <2>1, <2>2 DEF SessionRow
  <2> QED BY <1>0, <1>5, <2>3 DEF Context
<1>6. CASE e.type = "context_attached"
  BY <1>0, <1>5, <1>6 DEF ViewSessions
<1>7. CASE e.type = "context_detached"
  BY <1>0, <1>5, <1>7 DEF ViewSessions
<1>8. CASE e.type = "forked"
  <2>1. Child(t, e) \in SessionRow
    <3> DEFINE row == [t[e.session] EXCEPT !.parent = e.parent]
    <3>1. row \in SessionRow
      BY <1>0, <1>8 DEF SessionRow
    <3>2. t[e.parent].card \in Card \cup {None} /\ t[e.parent].project \in Project \cup {None}
      BY <1>0, <1>8 DEF SessionRow
    <3>3. Child(t, e) = IF Known(t, e.parent)
                        THEN [row EXCEPT !.card = t[e.parent].card,
                                         !.project = t[e.parent].project]
                        ELSE row
      BY DEF Child
    <3> HIDE DEF row
    <3>4. [row EXCEPT !.card = t[e.parent].card, !.project = t[e.parent].project] \in SessionRow
      BY <3>1, <3>2 DEF SessionRow
    <3> QED BY <3>1, <3>3, <3>4
  <2> QED BY <1>0, <1>8, <2>1 DEF ViewSessions
<1>9. CASE e.type = "handover"
  <2>1. Target(t, e) \in SessionRow
    <3> DEFINE row == [t[e.session] EXCEPT !.parent = e.parent]
    <3>1. row \in SessionRow
      BY <1>0, <1>9 DEF SessionRow
    <3>2. t[e.parent].card \in Card \cup {None}
      BY <1>0, <1>9 DEF SessionRow
    <3>3. Target(t, e) = IF t[e.parent].card # None
                         THEN [row EXCEPT !.card = t[e.parent].card] ELSE row
      BY DEF Target
    <3> HIDE DEF row
    <3>4. [row EXCEPT !.card = t[e.parent].card] \in SessionRow
      BY <3>1, <3>2 DEF SessionRow
    <3> QED BY <3>1, <3>3, <3>4
  <2> QED BY <1>0, <1>9, <2>1 DEF ViewSessions
<1>10. CASE e.type = "linked"
  <2>1. ASSUME NEW s \in Session
        PROVE  [t[s] EXCEPT !.card = e.card] \in SessionRow
    BY <1>0, <1>10 DEF SessionRow
  <2> QED BY <1>0, <1>10, <2>1 DEF ViewSessions, LinkTree
<1>11. CASE e.type \notin SessionTypes
  BY <1>11 DEF ViewSessions
<1> QED BY <1>1, <1>2, <1>3, <1>4, <1>6, <1>7, <1>8, <1>9, <1>10, <1>11

(* A session is known once it is created, and stays so.                    *)
LEMMA KnownThen ==
  ASSUME NEW t \in [Session -> SessionRow], NEW e \in Event, NEW s \in Session
  PROVE  Known(ViewSessions(t, e), s) <=> Known(t, s) \/ Creates(e, s)
<1>0. Fields(e)
  BY EventFields
<1> USE DEF Fields, SessionTypes, CardOnly, ProjectOnly, Amend, Known, Creates
<1>1. CASE e.type = "created"
  <2>1. Fresh(e).source = e.source /\ e.source # None
    BY <1>0, <1>1 DEF Fresh, NoSession, None
  <2> QED BY <1>0, <1>1, <2>1 DEF ViewSessions
<1>2. CASE e.type = "archived"
  <2>1. [t[e.session] EXCEPT !.archived = TRUE].source = t[e.session].source
    BY <1>0, <1>2 DEF SessionRow
  <2> QED BY <1>0, <1>2, <2>1 DEF ViewSessions
<1>3. CASE e.type = "message"
  <2>1. [t[e.session] EXCEPT !.count = @ + 1].source = t[e.session].source
    BY <1>0, <1>3 DEF SessionRow
  <2>2. [t EXCEPT ![e.session].count = @ + 1]
          = [t EXCEPT ![e.session] = [t[e.session] EXCEPT !.count = @ + 1]]
    BY <1>0, <1>3
  <2> QED BY <1>0, <1>3, <2>1, <2>2 DEF ViewSessions
<1>4. CASE e.type = "attached"
  <2>1. [t[e.session] EXCEPT !.project = e.project].source = t[e.session].source
    BY <1>0, <1>4 DEF SessionRow
  <2> QED BY <1>0, <1>4, <2>1 DEF ViewSessions
<1>5. ASSUME e.type \in {"context_attached", "context_detached"},
             NEW mode \in {None, "read", "write"}
      PROVE  Known(Context(t, e, mode), s) <=> Known(t, s)
  <2>1. [t[e.session] EXCEPT !.context[e.project] = mode].source = t[e.session].source
    BY <1>0, <1>5 DEF SessionRow
  <2> QED BY <1>0, <1>5, <2>1 DEF Context
<1>6. CASE e.type = "context_attached"
  BY <1>0, <1>5, <1>6 DEF ViewSessions
<1>7. CASE e.type = "context_detached"
  BY <1>0, <1>5, <1>7 DEF ViewSessions
<1>8. CASE e.type = "forked"
  <2>1. Child(t, e).source = t[e.session].source
    BY <1>0, <1>8 DEF Child, SessionRow
  <2> QED BY <1>0, <1>8, <2>1 DEF ViewSessions
<1>9. CASE e.type = "handover"
  <2>1. Target(t, e).source = t[e.session].source
    BY <1>0, <1>9 DEF Target, SessionRow
  <2> QED BY <1>0, <1>9, <2>1 DEF ViewSessions
<1>10. CASE e.type = "linked"
  <2>1. [t[s] EXCEPT !.card = e.card].source = t[s].source
    BY <1>0, <1>10 DEF SessionRow
  <2> QED BY <1>0, <1>10, <2>1 DEF ViewSessions, LinkTree
<1>11. CASE e.type \notin SessionTypes
  BY <1>11 DEF ViewSessions
<1> QED BY <1>1, <1>2, <1>3, <1>4, <1>6, <1>7, <1>8, <1>9, <1>10, <1>11

(* What the window holds after one more message: it, and what it held      *)
(* before if that was not full.                                            *)
LEMMA HotAfter ==
  ASSUME NEW hot \in [Session -> Hot], NEW e \in Event, NEW s \in Session
  PROVE  /\ ViewMessages(hot, e) \in [Session -> Hot]
         /\ e.type # "message" => ViewMessages(hot, e) = hot
         /\ e.type = "message" /\ e.session = s =>
              LET after == ViewMessages(hot, e)[s]
              IN  /\ after # <<>> /\ after[Len(after)] = e.id
                  /\ Len(after) >= Len(hot[s])
                  /\ \A n \in 1..Len(after) : after[n] = e.id \/ \E m \in 1..Len(hot[s]) : after[n] = hot[s][m]
                  /\ Len(after) = Window \/ \A m \in 1..Len(hot[s]) : after[m] = hot[s][m]
         /\ e.type = "message" /\ e.session # s => ViewMessages(hot, e)[s] = hot[s]
<1>0. Fields(e)
  BY EventFields
<1>1. CASE e.type # "message"
  BY <1>1 DEF ViewMessages
<1>2. CASE e.type = "message"
  <2> DEFINE old == hot[e.session]
             all == Append(old, e.id)
             cut == SubSeq(all, IF Len(all) > Window THEN 2 ELSE 1, Len(all))
  <2>1. e.session \in Session /\ e.id \in Int
    BY <1>0, <1>2 DEF Fields, SessionTypes
  <2>2. old \in Seq(Int) /\ Len(old) \in Nat /\ Len(old) <= Window
    BY <2>1 DEF Hot
  <2>3. /\ all \in Seq(Int) /\ Len(all) = Len(old) + 1 /\ all[Len(old) + 1] = e.id
        /\ \A m \in 1..Len(old) : all[m] = old[m]
    BY <2>1, <2>2
  <2>4. ViewMessages(hot, e) = [hot EXCEPT ![e.session] = cut]
    BY <1>2 DEF ViewMessages
  <2>5. CASE Len(old) < Window
    <3>1. cut = SubSeq(all, 1, Len(all))
      <4> HIDE DEF all, old
      <4> QED BY <2>2, <2>3, <2>5 DEF StoreAssumption
    <3>2. cut = all
      <4> HIDE DEF all, cut
      <4> QED BY <2>3, <3>1, SubSeqFull
    <3>3. all \in Hot
      BY <2>2, <2>3, <2>5 DEF Hot
    <3> HIDE DEF all, cut
    <3>4. ViewMessages(hot, e) \in [Session -> Hot]
      BY <2>1, <2>4, <3>2, <3>3
    <3>5. e.session = s => ViewMessages(hot, e)[s] = all
      BY <2>4, <3>2
    <3>6. e.session # s => ViewMessages(hot, e)[s] = hot[s]
      BY <2>4
    <3>7. /\ all # <<>> /\ all[Len(all)] = e.id /\ Len(all) >= Len(old)
          /\ \A n \in 1..Len(all) : all[n] = e.id \/ \E m \in 1..Len(old) : all[n] = old[m]
      <4>1. all # <<>>
        BY <2>2, <2>3
      <4>2. ASSUME NEW n \in 1..Len(all)
            PROVE  all[n] = e.id \/ \E m \in 1..Len(old) : all[n] = old[m]
        <5>1. n = Len(old) + 1 \/ n \in 1..Len(old)
          BY <2>2, <2>3
        <5> HIDE DEF all, old
        <5> QED BY <2>3, <5>1
      <4> HIDE DEF all, old
      <4> QED BY <2>2, <2>3, <4>1, <4>2
    <3> QED BY <1>2, <2>3, <3>4, <3>5, <3>6, <3>7
  <2>6. CASE Len(old) = Window
    <3>1. cut = SubSeq(all, 2, Len(all))
      BY <2>2, <2>3, <2>6
    <3>2. /\ cut \in Seq(Int) /\ Len(cut) = Len(old)
          /\ \A n \in 1..Len(old) : cut[n] = all[n + 1]
      <4>1. 2 \in 1..(Len(all) + 1) /\ Len(all) \in Nat
        BY <2>2, <2>3, <2>6
      <4> HIDE DEF all, cut
      <4>2. \A n \in 2..Len(all) : all[n] \in Int
        BY <2>3
      <4> QED BY <3>1, <2>2, <2>3, <4>1, <4>2, SubSeqProperties
    <3>3. cut \in Hot
      BY <2>2, <3>2 DEF Hot
    <3>4. cut[Len(cut)] = e.id /\ cut # <<>>
      <4> HIDE DEF all, cut
      <4>1. Len(old) \in 1..Len(old)
        BY <2>2, <2>6
      <4> QED BY <2>2, <2>3, <2>6, <3>2, <4>1
    <3>5. \A n \in 1..Len(cut) : cut[n] = e.id \/ \E m \in 1..Len(old) : cut[n] = old[m]
      <4> HIDE DEF all, cut
      <4>1. ASSUME NEW n \in 1..Len(cut)
            PROVE  cut[n] = e.id \/ \E m \in 1..Len(old) : cut[n] = old[m]
        <5>1. n = Len(old) \/ n + 1 \in 1..Len(old)
          BY <2>2, <3>2
        <5>2. cut[n] = all[n + 1]
          BY <3>2
        <5> HIDE DEF old
        <5> QED BY <2>3, <5>1, <5>2
      <4> QED BY <4>1
    <3> HIDE DEF all, cut
    <3>6. ViewMessages(hot, e) \in [Session -> Hot]
      BY <2>1, <2>4, <3>3
    <3>7. e.session = s => ViewMessages(hot, e)[s] = cut
      BY <2>4
    <3>8. e.session # s => ViewMessages(hot, e)[s] = hot[s]
      BY <2>4
    <3> QED BY <1>2, <2>2, <2>6, <3>2, <3>4, <3>5, <3>6, <3>7, <3>8
  <2> QED BY <2>2, <2>5, <2>6
<1> QED BY <1>1, <1>2

LEMMA CardsAfter ==
  ASSUME NEW t \in [Card -> CardRow], NEW e \in Event
  PROVE  /\ ViewCards(t, e) \in [Card -> CardRow]
         /\ \A k \in Card : ViewCards(t, e)[k].status # None
                              <=> t[k].status # None \/ e = CardEvent("card_created", k)
<1>0. Fields(e)
  BY EventFields
<1> DEFINE Tried == [session : Session, outcome : {"running", "reassigned", "done"}]
           Noticed(k) == ViewCards(t, e)[k].status # None
                        <=> t[k].status # None \/ e = CardEvent("card_created", k)
<1>1. \A k \in Card : e = CardEvent("card_created", k) <=> e.type = "card_created" /\ e.card = k
  BY <1>0 DEF Fields, CardEvent, CardOnly
<1>2. CASE e.type = "card_created"
  <2>1. e.card \in Card
    BY <1>0, <1>2 DEF Fields, CardOnly
  <2>2. [NoCard EXCEPT !.status = "todo"] \in CardRow
    <3>1. [NoCard EXCEPT !.status = "todo"]
            = [status |-> "todo", session |-> None, attempts |-> <<>>]
      BY DEF NoCard
    <3>2. <<>> \in Seq(Tried)
      OBVIOUS
    <3> QED BY <3>1, <3>2 DEF CardRow
  <2>3. [NoCard EXCEPT !.status = "todo"].status = "todo"
    BY DEF NoCard
  <2>4. ViewCards(t, e) = [t EXCEPT ![e.card] = [NoCard EXCEPT !.status = "todo"]]
    BY <1>2 DEF ViewCards
  <2>5. ViewCards(t, e) \in [Card -> CardRow]
    BY <2>1, <2>2, <2>4
  <2>6. ASSUME NEW k \in Card PROVE Noticed(k)
    BY <1>1, <1>2, <2>1, <2>3, <2>4 DEF None
  <2> QED BY <2>5, <2>6
<1>3. CASE e.type \notin CardOnly \cup {"assigned", "reassigned"} \/
             (e.type # "card_created" /\ t[e.card].status = None)
  <2>1. e.type # "card_created" /\ ViewCards(t, e) = t
    BY <1>3 DEF ViewCards, CardOnly
  <2> QED BY <1>1, <2>1
<1>4. CASE e.type \in (CardOnly \ {"card_created"}) \cup {"assigned", "reassigned"} /\
             t[e.card].status # None
  <2> DEFINE row == t[e.card]
  <2>1. e.card \in Card /\ row \in CardRow /\ row.attempts \in Seq(Tried)
    BY <1>0, <1>4 DEF Fields, CardOnly, CardRow
  <2>2. ASSUME NEW new \in CardRow, new.status # None, ViewCards(t, e) = [t EXCEPT ![e.card] = new]
        PROVE  ViewCards(t, e) \in [Card -> CardRow] /\ \A k \in Card : Noticed(k)
    BY <1>1, <1>4, <2>1, <2>2
  <2>3. ASSUME NEW a \in Seq(Tried), e.session \in Session
        PROVE  Attempt(a, e) \in CardRow /\ Attempt(a, e).status # None
    <3>1. Running(e) \in Tried
      BY <2>3 DEF Running
    <3>2. Append(a, Running(e)) \in Seq(Tried)
      BY <3>1
    <3> QED BY <2>3, <3>2 DEF Attempt, CardRow, None
  <2>4. CASE e.type = "assigned"
    <3>1. ViewCards(t, e) = [t EXCEPT ![e.card] = Attempt(row.attempts, e)]
      BY <1>4, <2>4 DEF ViewCards, CardOnly
    <3>2. e.session \in Session
      BY <1>0, <2>4 DEF Fields, SessionTypes
    <3> QED BY <2>1, <2>2, <2>3, <3>1, <3>2
  <2>5. CASE e.type = "reassigned"
    <3>1. ViewCards(t, e) = [t EXCEPT ![e.card] = Attempt(Superseded(row.attempts, e), e)]
      BY <1>4, <2>5 DEF ViewCards, CardOnly
    <3>2. e.session \in Session
      BY <1>0, <2>5 DEF Fields, SessionTypes
    <3>3. Superseded(row.attempts, e) \in Seq(Tried)
      <4>1. \A a \in Tried : [a EXCEPT !.outcome = "reassigned"] \in Tried
        OBVIOUS
      <4>0. \A i \in 1..Len(row.attempts) : row.attempts[i] \in Tried
        <5> HIDE DEF Tried, row
        <5> QED BY <2>1
      <4> DEFINE new == Superseded(row.attempts, e)
      <4>2. new = [i \in 1..Len(row.attempts) |-> new[i]]
        BY <2>1 DEF Superseded
      <4>3. \A i \in 1..Len(row.attempts) : new[i] \in Tried
        <5> HIDE DEF Tried, row
        <5> QED BY <2>1, <4>0, <4>1 DEF Superseded, new
      <4> HIDE DEF new, row
      <4>4. new \in [1..Len(row.attempts) -> Tried]
        BY <4>2, <4>3
      <4> QED BY <2>1, <4>4 DEF new, row
    <3> QED BY <2>1, <2>2, <2>3, <3>1, <3>2, <3>3
  <2>6. CASE e.type = "card_done"
    <3> DEFINE done == LastDone(row.attempts)
               new == [row EXCEPT !.status = "done", !.attempts = done]
    <3>1. ViewCards(t, e) = [t EXCEPT ![e.card] = new]
      BY <1>4, <2>6 DEF ViewCards, CardOnly
    <3>2. done \in Seq(Tried)
      <4>1. \A a \in Tried : [a EXCEPT !.outcome = "done"] \in Tried
        OBVIOUS
      <4>0. \A i \in 1..Len(row.attempts) : row.attempts[i] \in Tried
        <5> HIDE DEF Tried, row
        <5> QED BY <2>1
      <4>2. done = [i \in 1..Len(row.attempts) |-> done[i]]
        BY <2>1 DEF LastDone
      <4>3. \A i \in 1..Len(row.attempts) : done[i] \in Tried
        <5> HIDE DEF Tried, row
        <5> QED BY <2>1, <4>0, <4>1 DEF LastDone, done
      <4> HIDE DEF done, row
      <4>4. done \in [1..Len(row.attempts) -> Tried]
        BY <4>2, <4>3
      <4> QED BY <2>1, <4>4 DEF row
    <3>3. new \in CardRow /\ new.status = "done"
      <4> HIDE DEF done, row
      <4> QED BY <2>1, <3>2 DEF CardRow
    <3> QED BY <2>2, <3>1, <3>3 DEF None
  <2>7. CASE e.type = "card_moved"
    <3> DEFINE new == [row EXCEPT !.status = "moved"]
    <3>1. ViewCards(t, e) = [t EXCEPT ![e.card] = new]
      BY <1>4, <2>7 DEF ViewCards, CardOnly
    <3>2. new \in CardRow /\ new.status = "moved"
      BY <2>1 DEF CardRow
    <3> QED BY <2>2, <3>1, <3>2 DEF None
  <2> QED BY <1>4, <2>4, <2>5, <2>6, <2>7 DEF CardOnly
<1> QED BY <1>2, <1>3, <1>4 DEF CardOnly

(* A project is live from its creation to its deletion.                    *)
LEMMA ProjectsAfter ==
  ASSUME NEW t \in [Project -> ProjectRow], NEW e \in Event
  PROVE  /\ ViewProjects(t, e) \in [Project -> ProjectRow]
         /\ \A p \in Project : ViewProjects(t, e)[p].status = "live" =>
              \/ e = ProjectEvent("project_created", p)
              \/ t[p].status = "live" /\ e # ProjectEvent("project_deleted", p)
<1>0. Fields(e)
  BY EventFields
<1>1. \A p \in Project, type \in ProjectOnly :
        e = ProjectEvent(type, p) <=> e.type = type /\ e.project = p
  BY <1>0 DEF Fields, ProjectEvent, ProjectOnly
<1> DEFINE Lives(p) ==
             ViewProjects(t, e)[p].status = "live" =>
               \/ e.type = "project_created" /\ e.project = p
               \/ t[p].status = "live" /\ ~(e.type = "project_deleted" /\ e.project = p)
<1>2. CASE e.type \notin ProjectOnly \/ (e.type # "project_created" /\ t[e.project].status = None)
  <2>1. ViewProjects(t, e) = t
    BY <1>2 DEF ViewProjects, ProjectOnly
  <2>2. \A p \in Project : Lives(p)
    BY <1>2, <2>1 DEF ProjectOnly, None
  <2> QED BY <1>1, <2>1, <2>2 DEF ProjectOnly
<1>3. CASE e.type \in ProjectOnly /\ (e.type = "project_created" \/ t[e.project].status # None)
  <2>1. e.project \in Project /\ t[e.project] \in ProjectRow
    BY <1>0, <1>3 DEF Fields
  <2>2. ASSUME NEW new \in ProjectRow, ViewProjects(t, e) = [t EXCEPT ![e.project] = new],
               new.status = "live" =>
                 e.type = "project_created" \/ (t[e.project].status = "live" /\ e.type # "project_deleted")
        PROVE  ViewProjects(t, e) \in [Project -> ProjectRow] /\ \A p \in Project : Lives(p)
    BY <2>1, <2>2
  <2>3. CASE e.type = "project_created"
    <3>1. [NoProject EXCEPT !.status = "live"] \in ProjectRow
      BY DEF NoProject, ProjectRow
    <3> QED BY <1>1, <2>2, <2>3, <3>1 DEF ViewProjects, ProjectOnly
  <2>4. CASE e.type = "project_deleted"
    <3> DEFINE new == [t[e.project] EXCEPT !.status = "deleted"]
    <3>1. new \in ProjectRow /\ new.status = "deleted"
      BY <2>1 DEF ProjectRow
    <3>2. ViewProjects(t, e) = [t EXCEPT ![e.project] = new]
      BY <1>3, <2>4, <2>1 DEF ViewProjects
    <3> HIDE DEF new
    <3> QED BY <1>1, <2>2, <2>4, <3>1, <3>2 DEF ProjectOnly
  <2>5. CASE e.type \in {"project_updated", "project_layout"}
    <3> DEFINE new == [t[e.project] EXCEPT !.edits = t[e.project].edits \cup {e.type}]
    <3>1. new \in ProjectRow /\ new.status = t[e.project].status
      BY <2>1, <2>5 DEF ProjectRow
    <3>2. ViewProjects(t, e) = [t EXCEPT ![e.project] = new]
      BY <1>3, <2>5, <2>1 DEF ViewProjects
    <3> HIDE DEF new
    <3> QED BY <1>1, <2>2, <2>5, <3>1, <3>2 DEF ProjectOnly
  <2> QED BY <1>3, <2>3, <2>4, <2>5 DEF ProjectOnly
<1> QED BY <1>2, <1>3

(* The log q has what e shows.                                             *)
Vouched(e, q) ==
  /\ e.type = "created" => \E i \in DOMAIN q : Creates(q[i], e.session)
  /\ e.type = "message" => \E i \in DOMAIN q :
       q[i].type = "message" /\ q[i].session = e.session /\ q[i].id = e.id
  /\ e.type \in {"card_created", "project_created"} => \E i \in DOMAIN q : q[i] = e

LEMMA ViewAfter ==
  ASSUME NEW v \in Views, NEW e \in Event
  PROVE  /\ ApplyView(v, e) \in Views
         /\ ApplyView(v, e).sessions = ViewSessions(v.sessions, e)
         /\ ApplyView(v, e).hot = ViewMessages(v.hot, e)
         /\ ApplyView(v, e).cards = ViewCards(v.cards, e)
         /\ ApplyView(v, e).projects = ViewProjects(v.projects, e)
<1>1. /\ v.sessions \in [Session -> SessionRow] /\ v.cards \in [Card -> CardRow]
      /\ v.projects \in [Project -> ProjectRow] /\ v.hot \in [Session -> Hot]
      /\ v.messages = {}
  BY DEF Views
<1>2. /\ ViewSessions(v.sessions, e) \in [Session -> SessionRow]
      /\ ViewCards(v.cards, e) \in [Card -> CardRow]
      /\ ViewProjects(v.projects, e) \in [Project -> ProjectRow]
  BY <1>1, SessionsTyped, CardsAfter, ProjectsAfter
<1>3. ViewMessages(v.hot, e) \in [Session -> Hot]
  <2>1. CASE Session = {}
    <3>1. e.type # "message"
      BY <2>1, EventFields DEF Fields, SessionTypes
    <3> QED BY <1>1, <3>1 DEF ViewMessages
  <2>2. CASE Session # {}
    BY <1>1, <2>2, HotAfter
  <2> QED BY <2>1, <2>2
<1>5. PICK a, b, c, d : /\ a = ViewSessions(v.sessions, e) /\ b = ViewCards(v.cards, e)
                        /\ c = ViewProjects(v.projects, e) /\ d = ViewMessages(v.hot, e)
  OBVIOUS
<1>6. ApplyView(v, e) = [v EXCEPT !.sessions = a, !.hot = d, !.cards = b, !.projects = c]
  BY <1>5 DEF ApplyView
<1>7. /\ a \in [Session -> SessionRow] /\ b \in [Card -> CardRow]
      /\ c \in [Project -> ProjectRow] /\ d \in [Session -> Hot]
  BY <1>2, <1>3, <1>5
<1>8. /\ ApplyView(v, e) \in Views /\ ApplyView(v, e).sessions = a
      /\ ApplyView(v, e).hot = d /\ ApplyView(v, e).cards = b /\ ApplyView(v, e).projects = c
  <2>1. v \in [sessions : [Session -> SessionRow], cards : [Card -> CardRow],
               projects : [Project -> ProjectRow], messages : {{}}, hot : [Session -> Hot]]
    BY DEF Views
  <2>2. PICK A, B, C, D, E :
          /\ A = [Session -> SessionRow] /\ B = [Card -> CardRow] /\ C = [Project -> ProjectRow]
          /\ D = {{}} /\ E = [Session -> Hot]
    OBVIOUS
  <2>3. v \in [sessions : A, cards : B, projects : C, messages : D, hot : E]
    BY <2>1, <2>2
  <2>4. a \in A /\ b \in B /\ c \in C /\ d \in E
    BY <1>7, <2>2
  <2>5. PICK x : x = ApplyView(v, e)
    OBVIOUS
  <2>6. /\ x \in [sessions : A, cards : B, projects : C, messages : D, hot : E]
        /\ x.sessions = a /\ x.hot = d /\ x.cards = b /\ x.projects = c
    BY <1>6, <2>3, <2>4, <2>5
  <2>7. [sessions : A, cards : B, projects : C, messages : D, hot : E] = Views
    BY <2>2 DEF Views
  <2> QED BY <2>5, <2>6, <2>7
<1> QED BY <1>5, <1>8

(* What the log has may be shown.                                          *)
LEMMA StaysInLog ==
  ASSUME NEW v \in Views, NEW e \in Event, NEW q, ShownIsIn(v, q), Vouched(e, q)
  PROVE  ShownIsIn(ApplyView(v, e), q)
<1> DEFINE w == ApplyView(v, e)
<1>1. /\ v.sessions \in [Session -> SessionRow] /\ v.cards \in [Card -> CardRow]
      /\ v.hot \in [Session -> Hot]
      /\ w.sessions = ViewSessions(v.sessions, e) /\ w.hot = ViewMessages(v.hot, e)
      /\ w.cards = ViewCards(v.cards, e)
  BY ViewAfter DEF Views
<1> HIDE DEF w
<1>2. ASSUME NEW s \in Session, Known(w.sessions, s)
      PROVE  \E i \in DOMAIN q : Creates(q[i], s)
  <2>1. Known(v.sessions, s) \/ Creates(e, s)
    BY <1>1, <1>2, KnownThen
  <2>2. CASE Known(v.sessions, s)
    BY <2>2 DEF ShownIsIn
  <2>3. CASE Creates(e, s)
    BY <2>3 DEF Vouched, Creates
  <2> QED BY <2>1, <2>2, <2>3
<1>3. ASSUME NEW s \in Session, NEW n \in DOMAIN w.hot[s]
      PROVE  \E i \in DOMAIN q :
               q[i].type = "message" /\ q[i].session = s /\ q[i].id = w.hot[s][n]
  <2>1. CASE e.type = "message" /\ e.session = s
    <3>1. w.hot[s] \in Seq(Int)
      BY <1>1, HotAfter DEF Hot
    <3>2. w.hot[s][n] = e.id \/ \E m \in 1..Len(v.hot[s]) : w.hot[s][n] = v.hot[s][m]
      <4>1. n \in 1..Len(w.hot[s])
        BY <1>3, <3>1
      <4> QED BY <1>1, <2>1, <4>1, HotAfter
    <3>3. \A m \in 1..Len(v.hot[s]) : m \in DOMAIN v.hot[s]
      BY <1>1 DEF Hot
    <3>4. CASE w.hot[s][n] = e.id
      BY <2>1, <3>4 DEF Vouched
    <3>5. CASE \E m \in 1..Len(v.hot[s]) : w.hot[s][n] = v.hot[s][m]
      BY <3>3, <3>5 DEF ShownIsIn
    <3> QED BY <3>2, <3>4, <3>5
  <2>2. CASE ~(e.type = "message" /\ e.session = s)
    <3>1. w.hot[s] = v.hot[s]
      BY <1>1, <2>2, HotAfter
    <3> QED BY <1>3, <3>1 DEF ShownIsIn
  <2> QED BY <2>1, <2>2
<1>4. ASSUME NEW k \in Card, w.cards[k].status # None
      PROVE  \E i \in DOMAIN q : q[i] = CardEvent("card_created", k)
  <2>1. v.cards[k].status # None \/ e = CardEvent("card_created", k)
    BY <1>1, <1>4, CardsAfter
  <2>2. CASE v.cards[k].status # None
    BY <2>2 DEF ShownIsIn
  <2>3. CASE e = CardEvent("card_created", k)
    <3>1. e.type = "card_created"
      BY <2>3 DEF CardEvent
    <3> QED BY <2>3, <3>1 DEF Vouched
  <2> QED BY <2>1, <2>2, <2>3
<1> QED BY <1>2, <1>3, <1>4 DEF ShownIsIn, w

(* What is applied is shown, and stays so.                                 *)
LEMMA AppliedIsShown ==
  ASSUME NEW v \in Views, NEW e \in Event, NEW f \in Event
  PROVE  /\ IsShown(ApplyView(v, e), e)
         /\ IsShown(v, f) => IsShown(ApplyView(v, e), f)
<1> DEFINE w == ApplyView(v, e)
<1>1. /\ v.sessions \in [Session -> SessionRow] /\ v.cards \in [Card -> CardRow]
      /\ v.hot \in [Session -> Hot] /\ w.hot \in [Session -> Hot]
      /\ w.sessions = ViewSessions(v.sessions, e) /\ w.hot = ViewMessages(v.hot, e)
      /\ w.cards = ViewCards(v.cards, e)
  BY ViewAfter DEF Views
<1> HIDE DEF w
<1>2. Fields(e) /\ Fields(f)
  BY EventFields
<1>3. ASSUME NEW g \in Event, g.type = "created", g = e \/ IsShown(v, g)
      PROVE  Known(w.sessions, g.session)
  <2>1. g.session \in Session
    BY <1>3, EventFields DEF Fields, SessionTypes
  <2>2. Known(v.sessions, g.session) \/ Creates(e, g.session)
    BY <1>3 DEF IsShown, Creates
  <2> QED BY <1>1, <2>1, <2>2, KnownThen
<1>4. ASSUME NEW g \in Event, g.type = "message", g = e \/ IsShown(v, g)
      PROVE  Len(w.hot[g.session]) = Window \/ g.id \in ToSet(w.hot[g.session])
  <2> DEFINE s == g.session
  <2>1. s \in Session
    BY <1>4, EventFields DEF Fields, SessionTypes
  <2>2. /\ w.hot[s] \in Seq(Int) /\ v.hot[s] \in Seq(Int) /\ Len(w.hot[s]) <= Window
        /\ Len(v.hot[s]) <= Window /\ Len(v.hot[s]) \in Nat /\ Len(w.hot[s]) \in Nat
    BY <1>1, <2>1 DEF Hot
  <2> HIDE DEF s
  <2>3. CASE e.type = "message" /\ e.session = s
    <3>1. /\ w.hot[s] # <<>> /\ w.hot[s][Len(w.hot[s])] = e.id
          /\ Len(w.hot[s]) >= Len(v.hot[s])
          /\ Len(w.hot[s]) = Window \/ \A m \in 1..Len(v.hot[s]) : w.hot[s][m] = v.hot[s][m]
      BY <1>1, <2>1, <2>3, HotAfter
    <3>2. CASE g = e
      <4>1. Len(w.hot[s]) \in DOMAIN w.hot[s]
        BY <2>2, <3>1, EmptySeq
      <4> QED BY <3>1, <3>2, <4>1 DEF ToSet, s
    <3>3. CASE IsShown(v, g)
      <4>1. Len(v.hot[s]) = Window \/ g.id \in ToSet(v.hot[s])
        BY <1>4, <3>3 DEF IsShown, s
      <4>2. CASE Len(v.hot[s]) = Window
        BY <2>2, <3>1, <4>2 DEF StoreAssumption, s
      <4>3. CASE g.id \in ToSet(v.hot[s]) /\ Len(w.hot[s]) # Window
        <5>1. PICK m \in 1..Len(v.hot[s]) : g.id = v.hot[s][m]
          <6>1. DOMAIN v.hot[s] = 1..Len(v.hot[s])
            BY <2>2
          <6> QED BY <4>3, <6>1 DEF ToSet
        <5>2. m \in DOMAIN w.hot[s] /\ w.hot[s][m] = g.id
          BY <2>2, <3>1, <4>3, <5>1
        <5> QED BY <5>2 DEF ToSet, s
      <4> QED BY <4>1, <4>2, <4>3 DEF s
    <3> QED BY <1>4, <3>2, <3>3
  <2>4. CASE ~(e.type = "message" /\ e.session = s)
    <3>1. w.hot[s] = v.hot[s]
      BY <1>1, <2>1, <2>4, HotAfter
    <3>2. g # e
      BY <1>4, <2>4 DEF s
    <3> QED BY <1>4, <3>1, <3>2 DEF IsShown, s
  <2> QED BY <2>3, <2>4
<1>5. ASSUME NEW g \in Event, g.type = "card_created", g = e \/ IsShown(v, g)
      PROVE  w.cards[g.card].status # None
  <2>1. g.card \in Card /\ g = CardEvent("card_created", g.card)
    BY <1>5, EventFields DEF Fields, CardOnly
  <2>2. v.cards[g.card].status # None \/ e = CardEvent("card_created", g.card)
    BY <1>5, <2>1 DEF IsShown
  <2> QED BY <1>1, <2>1, <2>2, CardsAfter
<1> QED BY <1>3, <1>4, <1>5 DEF IsShown, w

LEMMA LiveAfter ==
  ASSUME NEW v \in Views, NEW e \in Event, NEW p \in Live(ApplyView(v, e))
  PROVE  \/ e = ProjectEvent("project_created", p)
         \/ p \in Live(v) /\ e # ProjectEvent("project_deleted", p)
<1>1. v.projects \in [Project -> ProjectRow] /\ p \in Project
  BY DEF Views, Live
<1>2. ViewProjects(v.projects, e)[p].status = "live"
  BY ViewAfter DEF Live
<1> QED BY <1>1, <1>2, ProjectsAfter DEF Live

(***************************************************************************)
(* Events in order.  Induction is over sets of numbers: a set that holds   *)
(* 0 and the successor of what it holds is Nat.                            *)
(***************************************************************************)
LEMMA SetInduction ==
  ASSUME NEW T \in SUBSET Nat, 0 \in T, \A n \in T : n + 1 \in T
  PROVE  T = Nat
<1> SUFFICES ASSUME Nat \ T # {} PROVE FALSE
  OBVIOUS
<1>1. PICK x \in Nat \ T : \A y \in Nat \ T : ~ (<<y, x>> \in OpToRel(<, Nat))
  <2>1. Nat \ T \subseteq Nat
    OBVIOUS
  <2> HIDE DEF IsWellFoundedOn, OpToRel
  <2> QED BY <2>1, NatLessThanWellFounded, WFMin
<1>2. \A y \in Nat \ T : ~(y < x)
  BY <1>1 DEF OpToRel
<1>3. x # 0 /\ x - 1 \in Nat /\ x - 1 \notin Nat \ T
  BY <1>2
<1> QED BY <1>3

LEMMA UpTo ==
  ASSUME NEW N \in Nat, NEW T, 0 \in T, \A n \in 0..(N - 1) : n \in T => n + 1 \in T
  PROVE  \A n \in 0..N : n \in T
<1> DEFINE U == {n \in Nat : n <= N => n \in T}
<1>1. 0 \in U
  OBVIOUS
<1>2. \A n \in U : n + 1 \in U
  OBVIOUS
<1>3. U = Nat
  <2>1. U \in SUBSET Nat
    OBVIOUS
  <2> HIDE DEF U
  <2> QED BY <1>1, <1>2, <2>1, SetInduction
<1> QED BY <1>3

(* ShowAll goes through one view per event.                                *)
IsShowing(f, v, q, m) == f = [n \in 0..m |-> IF n = 0 THEN v ELSE ApplyView(f[n - 1], q[n])]

LEMMA ShowingExists ==
  ASSUME NEW v, NEW q, Len(q) \in Nat
  PROVE  \E f : IsShowing(f, v, q, Len(q))
<1> DEFINE T == {m \in Nat : \E f : IsShowing(f, v, q, m)}
<1>1. 0 \in T
  <2>1. IsShowing([n \in 0..0 |-> v], v, q, 0)
    BY DEF IsShowing
  <2> QED BY <2>1
<1>2. ASSUME NEW m \in T PROVE m + 1 \in T
  <2>1. PICK f : IsShowing(f, v, q, m)
    OBVIOUS
  <2> DEFINE g == [n \in 0..(m + 1) |-> IF n = m + 1 THEN ApplyView(f[m], q[m + 1]) ELSE f[n]]
  <2>2. ASSUME NEW n \in 0..(m + 1)
        PROVE  g[n] = IF n = 0 THEN v ELSE ApplyView(g[n - 1], q[n])
    <3>1. m \in Nat
      OBVIOUS
    <3>2. CASE n = m + 1
      <4>1. g[n - 1] = f[m] /\ n # 0
        BY <3>1, <3>2
      <4> QED BY <4>1, <3>1, <3>2
    <3>3. CASE n # m + 1 /\ n # 0
      <4>1. n \in 0..m /\ n - 1 \in 0..m /\ g[n - 1] = f[n - 1] /\ g[n] = f[n]
        BY <3>1, <3>3
      <4>2. f[n] = ApplyView(f[n - 1], q[n])
        BY <2>1, <3>3, <4>1 DEF IsShowing
      <4> QED BY <3>3, <4>1, <4>2
    <3>4. CASE n # m + 1 /\ n = 0
      BY <2>1, <3>1, <3>4 DEF IsShowing
    <3> QED BY <3>2, <3>3, <3>4
  <2>3. IsShowing(g, v, q, m + 1)
    BY <2>2 DEF IsShowing
  <2>4. \E h : IsShowing(h, v, q, m + 1)
    <3> HIDE DEF g
    <3> QED BY <2>3
  <2> QED BY <2>4
<1>3. T = Nat
  <2>1. T \in SUBSET Nat
    OBVIOUS
  <2> HIDE DEF T
  <2> QED BY <1>1, <1>2, <2>1, SetInduction
<1> QED BY <1>3

LEMMA ShowAllIs ==
  ASSUME NEW v \in Views, NEW q \in Seq(Event)
  PROVE  \E f \in [0..Len(q) -> Views] :
           /\ f[0] = v /\ ShowAll(v, q) = f[Len(q)]
           /\ \A n \in 1..Len(q) : f[n] = ApplyView(f[n - 1], q[n])
<1> DEFINE f == CHOOSE f : f = [n \in 0..Len(q) |-> IF n = 0 THEN v ELSE ApplyView(f[n - 1], q[n])]
<1>0. Len(q) \in Nat
  OBVIOUS
<1>1. f = [n \in 0..Len(q) |-> IF n = 0 THEN v ELSE ApplyView(f[n - 1], q[n])]
  BY <1>0, ShowingExists DEF IsShowing
<1>2. ShowAll(v, q) = f[Len(q)]
  BY DEF ShowAll
<1> HIDE DEF f
<1>3. f[0] = v
  BY <1>0, <1>1
<1>4. \A n \in 1..Len(q) : f[n] = ApplyView(f[n - 1], q[n])
  <2>1. ASSUME NEW n \in 1..Len(q)
        PROVE  f[n] = ApplyView(f[n - 1], q[n])
    <3>1. n \in 0..Len(q) /\ n # 0
      BY <1>0
    <3> QED BY <1>1, <3>1
  <2> QED BY <2>1
<1>5. \A n \in 0..Len(q) : f[n] \in Views
  <2> DEFINE T == {n \in 0..Len(q) : f[n] \in Views}
  <2>1. 0 \in T
    BY <1>0, <1>3
  <2>2. ASSUME NEW n \in 0..(Len(q) - 1), n \in T
        PROVE  n + 1 \in T
    <3>1. n + 1 \in 1..Len(q) /\ n + 1 - 1 = n /\ f[n] \in Views
      BY <1>0, <2>2
    <3>2. q[n + 1] \in Event /\ f[n + 1] = ApplyView(f[n], q[n + 1])
      BY <1>4, <3>1
    <3>3. f[n + 1] \in Views
      BY <3>1, <3>2, ViewAfter
    <3> QED BY <3>1, <3>3
  <2> HIDE DEF T
  <2>3. \A n \in 0..Len(q) : n \in T
    BY <1>0, <2>1, <2>2, UpTo
  <2> QED BY <2>3 DEF T
<1>6. f \in [0..Len(q) -> Views]
  <2>1. f = [n \in 0..Len(q) |-> f[n]]
    BY <1>1
  <2> QED BY <1>5, <2>1
<1> QED BY <1>2, <1>3, <1>4, <1>6

LEMMA AllTyped ==
  ASSUME NEW v \in Views, NEW q \in Seq(Event)
  PROVE  ShowAll(v, q) \in Views
<1>1. PICK f \in [0..Len(q) -> Views] : ShowAll(v, q) = f[Len(q)]
  BY ShowAllIs
<1>2. Len(q) \in 0..Len(q)
  OBVIOUS
<1> QED BY <1>1, <1>2

LEMMA AllStayInLog ==
  ASSUME NEW v \in Views, NEW q \in Seq(Event), NEW r, ShownIsIn(v, r),
         \A i \in 1..Len(q) : Vouched(q[i], r)
  PROVE  ShownIsIn(ShowAll(v, q), r)
<1>1. PICK f \in [0..Len(q) -> Views] :
        /\ f[0] = v /\ ShowAll(v, q) = f[Len(q)]
        /\ \A n \in 1..Len(q) : f[n] = ApplyView(f[n - 1], q[n])
  BY ShowAllIs
<1> DEFINE T == {n \in 0..Len(q) : ShownIsIn(f[n], r)}
<1>2. 0 \in T
  BY <1>1
<1>3. ASSUME NEW n \in 0..(Len(q) - 1), n \in T
      PROVE  n + 1 \in T
  <2>1. n + 1 \in 1..Len(q) /\ n + 1 - 1 = n /\ n \in 0..Len(q)
    OBVIOUS
  <2>2. f[n] \in Views /\ q[n + 1] \in Event /\ f[n + 1] = ApplyView(f[n], q[n + 1])
    BY <1>1, <2>1
  <2>3. ShownIsIn(f[n], r) /\ Vouched(q[n + 1], r)
    BY <1>3, <2>1
  <2>4. ShownIsIn(f[n + 1], r)
    BY <2>2, <2>3, StaysInLog
  <2> QED BY <2>1, <2>4
<1> HIDE DEF T
<1>5. Len(q) \in Nat /\ Len(q) \in 0..Len(q)
  OBVIOUS
<1>4. \A n \in 0..Len(q) : n \in T
  BY <1>2, <1>3, <1>5, UpTo
<1> QED BY <1>1, <1>4, <1>5 DEF T

LEMMA AllAreShown ==
  ASSUME NEW v \in Views, NEW q \in Seq(Event)
  PROVE  /\ \A i \in 1..Len(q) : IsShown(ShowAll(v, q), q[i])
         /\ \A e \in Event : IsShown(v, e) => IsShown(ShowAll(v, q), e)
<1>1. PICK f \in [0..Len(q) -> Views] :
        /\ f[0] = v /\ ShowAll(v, q) = f[Len(q)]
        /\ \A n \in 1..Len(q) : f[n] = ApplyView(f[n - 1], q[n])
  BY ShowAllIs
<1> DEFINE Fine(n) == /\ \A i \in 1..n : IsShown(f[n], q[i])
                      /\ \A e \in Event : IsShown(v, e) => IsShown(f[n], e)
           T == {n \in 0..Len(q) : Fine(n)}
<1>2. 0 \in T
  BY <1>1
<1>3. ASSUME NEW n \in 0..(Len(q) - 1), n \in T
      PROVE  n + 1 \in T
  <2>1. n + 1 \in 1..Len(q) /\ n + 1 - 1 = n /\ n \in 0..Len(q)
    OBVIOUS
  <2>2. f[n] \in Views /\ q[n + 1] \in Event /\ f[n + 1] = ApplyView(f[n], q[n + 1])
    BY <1>1, <2>1
  <2>3. IsShown(f[n + 1], q[n + 1]) /\ \A e \in Event : IsShown(f[n], e) => IsShown(f[n + 1], e)
    BY <2>2, AppliedIsShown
  <2>4. ASSUME NEW i \in 1..(n + 1) PROVE IsShown(f[n + 1], q[i])
    <3>1. CASE i = n + 1
      BY <2>3, <3>1
    <3>2. CASE i \in 1..n
      <4>1. q[i] \in Event /\ IsShown(f[n], q[i])
        BY <1>3, <3>2
      <4> QED BY <2>3, <4>1
    <3> QED BY <3>1, <3>2
  <2>5. \A e \in Event : IsShown(v, e) => IsShown(f[n + 1], e)
    BY <1>3, <2>3
  <2> QED BY <2>1, <2>4, <2>5
<1> HIDE DEF T
<1>5. Len(q) \in Nat /\ Len(q) \in 0..Len(q)
  OBVIOUS
<1>4. \A n \in 0..Len(q) : n \in T
  BY <1>2, <1>3, <1>5, UpTo
<1> QED BY <1>1, <1>4, <1>5 DEF T

LEMMA AllLive ==
  ASSUME NEW v \in Views, NEW q \in Seq(Event), NEW p \in Live(ShowAll(v, q))
  PROVE  \/ Stands(p, q, Len(q))
         \/ p \in Live(v) /\ \A i \in 1..Len(q) : q[i] # ProjectEvent("project_deleted", p)
<1>1. PICK f \in [0..Len(q) -> Views] :
        /\ f[0] = v /\ ShowAll(v, q) = f[Len(q)]
        /\ \A n \in 1..Len(q) : f[n] = ApplyView(f[n - 1], q[n])
  BY ShowAllIs
<1> DEFINE Fine(n) == p \in Live(f[n]) =>
             \/ Stands(p, q, n)
             \/ p \in Live(v) /\ \A i \in 1..n : q[i] # ProjectEvent("project_deleted", p)
           T == {n \in 0..Len(q) : Fine(n)}
<1>2. 0 \in T
  BY <1>1
<1>3. ASSUME NEW n \in 0..(Len(q) - 1), n \in T
      PROVE  n + 1 \in T
  <2>1. n + 1 \in 1..Len(q) /\ n + 1 - 1 = n /\ n \in 0..Len(q) /\ n \in Nat
    OBVIOUS
  <2>2. f[n] \in Views /\ q[n + 1] \in Event /\ f[n + 1] = ApplyView(f[n], q[n + 1])
    BY <1>1, <2>1
  <2>3. ASSUME p \in Live(f[n + 1])
        PROVE  \/ Stands(p, q, n + 1)
               \/ p \in Live(v) /\ \A i \in 1..(n + 1) : q[i] # ProjectEvent("project_deleted", p)
    <3>1. \/ q[n + 1] = ProjectEvent("project_created", p)
          \/ p \in Live(f[n]) /\ q[n + 1] # ProjectEvent("project_deleted", p)
      BY <2>2, <2>3, LiveAfter
    <3>2. CASE q[n + 1] = ProjectEvent("project_created", p)
      <4>1. q[n + 1] # ProjectEvent("project_deleted", p)
        BY <3>2 DEF ProjectEvent
      <4> QED BY <2>1, <3>2, <4>1 DEF Stands
    <3>3. CASE p \in Live(f[n]) /\ q[n + 1] # ProjectEvent("project_deleted", p)
      <4>1. CASE Stands(p, q, n)
        <5>1. PICK j \in 1..n : /\ q[j] = ProjectEvent("project_created", p)
                                /\ \A l \in j..n : q[l] # ProjectEvent("project_deleted", p)
          BY <4>1 DEF Stands
        <5>2. \A l \in j..(n + 1) : q[l] # ProjectEvent("project_deleted", p)
          BY <2>1, <3>3, <5>1
        <5>3. j \in 1..(n + 1)
          BY <2>1
        <5> QED BY <5>1, <5>2, <5>3 DEF Stands
      <4>2. CASE p \in Live(v) /\ \A i \in 1..n : q[i] # ProjectEvent("project_deleted", p)
        BY <2>1, <3>3, <4>2
      <4> QED BY <1>3, <3>3, <4>1, <4>2
    <3> QED BY <3>1, <3>2, <3>3
  <2> QED BY <2>1, <2>3
<1> HIDE DEF T
<1>5. Len(q) \in Nat /\ Len(q) \in 0..Len(q)
  OBVIOUS
<1>4. \A n \in 0..Len(q) : n \in T
  BY <1>2, <1>3, <1>5, UpTo
<1> QED BY <1>1, <1>4, <1>5 DEF T

(***************************************************************************)
(* What a boot retains: a subsequence, with every event of the columns.    *)
(***************************************************************************)
IsRetaining(f, q, C, m) ==
  f = [n \in 0..m |-> IF n = 0 THEN <<>> ELSE Retain(f[n - 1], q[n], C)]

(* at[i] is the place in the first n events of q of the i-th of r.         *)
Places(at, r, q, C, n) ==
  /\ r \in Seq(Event) /\ at \in [1..Len(r) -> 1..n]
  /\ \A i \in 1..Len(r) : r[i] = q[at[i]]
  /\ \A i, j \in 1..Len(r) : i < j => at[i] < at[j]
  /\ \A l \in 1..n : Column(q[l]) \in C => \E i \in 1..Len(r) : at[i] = l

LEMMA RetainingExists ==
  ASSUME NEW q, NEW C, Len(q) \in Nat
  PROVE  \E f : IsRetaining(f, q, C, Len(q))
<1> DEFINE T == {m \in Nat : \E f : IsRetaining(f, q, C, m)}
<1>1. 0 \in T
  <2>1. IsRetaining([n \in 0..0 |-> <<>>], q, C, 0)
    BY DEF IsRetaining
  <2> QED BY <2>1
<1>2. ASSUME NEW m \in T PROVE m + 1 \in T
  <2>1. PICK f : IsRetaining(f, q, C, m)
    OBVIOUS
  <2> DEFINE g == [n \in 0..(m + 1) |-> IF n = m + 1 THEN Retain(f[m], q[m + 1], C) ELSE f[n]]
  <2>2. ASSUME NEW n \in 0..(m + 1)
        PROVE  g[n] = IF n = 0 THEN <<>> ELSE Retain(g[n - 1], q[n], C)
    <3>1. m \in Nat
      OBVIOUS
    <3>2. CASE n = m + 1
      <4>1. g[n - 1] = f[m] /\ n # 0
        BY <3>1, <3>2
      <4> QED BY <4>1, <3>1, <3>2
    <3>3. CASE n # m + 1 /\ n # 0
      <4>1. n \in 0..m /\ n - 1 \in 0..m /\ g[n - 1] = f[n - 1] /\ g[n] = f[n]
        BY <3>1, <3>3
      <4>2. f[n] = Retain(f[n - 1], q[n], C)
        BY <2>1, <3>3, <4>1 DEF IsRetaining
      <4> QED BY <3>3, <4>1, <4>2
    <3>4. CASE n # m + 1 /\ n = 0
      BY <2>1, <3>1, <3>4 DEF IsRetaining
    <3> QED BY <3>2, <3>3, <3>4
  <2>3. IsRetaining(g, q, C, m + 1)
    BY <2>2 DEF IsRetaining
  <2>4. \E h : IsRetaining(h, q, C, m + 1)
    <3> HIDE DEF g
    <3> QED BY <2>3
  <2> QED BY <2>4
<1>3. T = Nat
  <2>1. T \in SUBSET Nat
    OBVIOUS
  <2> HIDE DEF T
  <2> QED BY <1>1, <1>2, <2>1, SetInduction
<1> QED BY <1>3

LEMMA PlacesGrow ==
  ASSUME NEW q \in Seq(Event), NEW C, NEW n \in 0..(Len(q) - 1), NEW at, NEW r,
         Places(at, r, q, C, n)
  PROVE  /\ Column(q[n + 1]) \notin C => Places(at, r, q, C, n + 1)
         /\ Column(q[n + 1]) \in C =>
              Places([i \in 1..(Len(r) + 1) |-> IF i = Len(r) + 1 THEN n + 1 ELSE at[i]],
                     Append(r, q[n + 1]), q, C, n + 1)
<1>0. /\ n \in Nat /\ Len(q) \in Nat /\ n + 1 \in 1..Len(q) /\ q[n + 1] \in Event
      /\ \A l \in 1..(n + 1) : l = n + 1 \/ l \in 1..n
  OBVIOUS
<1>1. /\ r \in Seq(Event) /\ at \in [1..Len(r) -> 1..n] /\ Len(r) \in Nat
      /\ \A i \in 1..Len(r) : r[i] = q[at[i]]
      /\ \A i, j \in 1..Len(r) : i < j => at[i] < at[j]
      /\ \A l \in 1..n : Column(q[l]) \in C => \E i \in 1..Len(r) : at[i] = l
  BY DEF Places
<1>2. CASE Column(q[n + 1]) \notin C
  <2>1. at \in [1..Len(r) -> 1..(n + 1)]
    BY <1>0, <1>1
  <2>2. \A l \in 1..(n + 1) : Column(q[l]) \in C => \E i \in 1..Len(r) : at[i] = l
    BY <1>0, <1>1, <1>2
  <2> QED BY <1>1, <1>2, <2>1, <2>2 DEF Places
<1>3. CASE Column(q[n + 1]) \in C
  <2> DEFINE N == Len(r) + 1
             to == [i \in 1..N |-> IF i = N THEN n + 1 ELSE at[i]]
             s == Append(r, q[n + 1])
  <2>1. /\ s \in Seq(Event) /\ Len(s) = N /\ s[N] = q[n + 1]
        /\ \A i \in 1..Len(r) : s[i] = r[i]
    BY <1>0, <1>1
  <2>2. /\ N \in Nat /\ N \in 1..N /\ \A i \in 1..N : i = N \/ i \in 1..Len(r)
        /\ \A i \in 1..Len(r) : i \in 1..N /\ i # N
    BY <1>1
  <2>3. /\ to[N] = n + 1 /\ \A i \in 1..Len(r) : to[i] = at[i] /\ to[i] \in 1..n
    BY <1>1, <2>2
  <2>4. to \in [1..N -> 1..(n + 1)]
    <3>1. ASSUME NEW i \in 1..N PROVE to[i] \in 1..(n + 1)
      <4> HIDE DEF to, N
      <4>1. CASE i = N
        BY <1>0, <2>3, <4>1
      <4>2. CASE i \in 1..Len(r)
        BY <1>0, <2>3, <4>2
      <4> QED BY <2>2, <4>1, <4>2
    <3>2. to = [i \in 1..N |-> to[i]]
      OBVIOUS
    <3> HIDE DEF to
    <3> QED BY <3>1, <3>2
  <2> HIDE DEF to, s, N
  <2>5. ASSUME NEW i \in 1..N PROVE s[i] = q[to[i]]
    BY <1>1, <2>1, <2>2, <2>3, <2>5
  <2>6. ASSUME NEW i \in 1..N, NEW j \in 1..N, i < j PROVE to[i] < to[j]
    <3>1. i \in 1..Len(r)
      BY <2>2, <2>6
    <3>2. CASE j = N
      BY <1>0, <2>3, <3>1, <3>2
    <3>3. CASE j \in 1..Len(r)
      BY <1>1, <2>3, <2>6, <3>1, <3>3
    <3> QED BY <2>2, <3>2, <3>3
  <2>7. ASSUME NEW l \in 1..(n + 1), Column(q[l]) \in C
        PROVE  \E i \in 1..N : to[i] = l
    <3>1. CASE l = n + 1
      BY <2>2, <2>3, <3>1
    <3>2. CASE l \in 1..n
      <4>1. PICK i \in 1..Len(r) : at[i] = l
        BY <1>1, <2>7, <3>2
      <4> QED BY <2>2, <2>3, <4>1
    <3> QED BY <1>0, <3>1, <3>2
  <2>8. Places(to, s, q, C, n + 1)
    BY <2>1, <2>4, <2>5, <2>6, <2>7 DEF Places
  <2> QED BY <1>3, <2>8 DEF to, s, N
<1> QED BY <1>2, <1>3

LEMMA RetainedIs ==
  ASSUME NEW q \in Seq(Event), NEW C
  PROVE  \E at : Places(at, Retained(q, C), q, C, Len(q))
<1> DEFINE f == CHOOSE f : f = [n \in 0..Len(q) |->
                                  IF n = 0 THEN <<>> ELSE Retain(f[n - 1], q[n], C)]
<1>0. Len(q) \in Nat /\ Len(q) \in 0..Len(q)
  OBVIOUS
<1>1. IsRetaining(f, q, C, Len(q))
  BY <1>0, RetainingExists DEF IsRetaining
<1>2. Retained(q, C) = f[Len(q)]
  BY DEF Retained
<1> HIDE DEF f
<1>3. /\ f[0] = <<>>
      /\ \A n \in 0..(Len(q) - 1) :
           f[n + 1] = Retain(f[n], q[n + 1], C)
  <2>1. f[0] = <<>>
    BY <1>0, <1>1 DEF IsRetaining
  <2>2. ASSUME NEW n \in 0..(Len(q) - 1)
        PROVE  f[n + 1] = Retain(f[n], q[n + 1], C)
    <3>1. n + 1 \in 0..Len(q) /\ n + 1 # 0 /\ n + 1 - 1 = n
      BY <1>0
    <3> QED BY <1>1, <3>1 DEF IsRetaining
  <2> QED BY <2>1, <2>2
<1> DEFINE T == {n \in 0..Len(q) : \E at : Places(at, f[n], q, C, n)}
<1>4. 0 \in T
  <2>1. [i \in 1..0 |-> 0] \in [1..0 -> 1..0]
    OBVIOUS
  <2>2. Places([i \in 1..0 |-> 0], <<>>, q, C, 0)
    BY <2>1 DEF Places
  <2> QED BY <1>0, <1>3, <2>2
<1>5. ASSUME NEW n \in 0..(Len(q) - 1), n \in T
      PROVE  n + 1 \in T
  <2>1. PICK at : Places(at, f[n], q, C, n)
    BY <1>5
  <2>2. \E to : Places(to, f[n + 1], q, C, n + 1)
    <3>1. f[n + 1] = Retain(f[n], q[n + 1], C)
      BY <1>3
    <3>2. CASE Column(q[n + 1]) \notin C
      BY <2>1, <3>1, <3>2, PlacesGrow DEF Retain
    <3>3. CASE Column(q[n + 1]) \in C
      <4>1. f[n + 1] = Append(f[n], q[n + 1])
        BY <3>1, <3>3 DEF Retain
      <4> QED BY <2>1, <3>3, <4>1, PlacesGrow
    <3> QED BY <3>2, <3>3
  <2> QED BY <1>0, <2>2
<1> HIDE DEF T
<1>6. \A n \in 0..Len(q) : n \in T
  BY <1>0, <1>4, <1>5, UpTo
<1> QED BY <1>0, <1>2, <1>6 DEF T

(***************************************************************************)
(* Handlers.  ShownTypes are the types of the events that a view shows by        *)
(* themselves; f says what e stores.                                       *)
(***************************************************************************)
ShownTypes == {"created", "message", "card_created", "project_created"}
Agree(e, f) ==
  /\ e.type = f.type
  /\ e.type \in {"created", "message"} => e.session = f.session
  /\ e.type = "message" => e.id = f.id
  /\ e.type \in {"card_created", "project_created"} => e = f
Fits(shows, stores) ==
  /\ \A n \in DOMAIN shows : shows[n].type \in ShownTypes =>
       \E m \in DOMAIN stores : Agree(stores[m], shows[n])
  /\ \A m \in DOMAIN stores : stores[m].type \in ShownTypes =>
       \E n \in DOMAIN shows : Agree(stores[m], shows[n])
Quiet(events) == \A n \in DOMAIN events : events[n].type \notin ShownTypes

(* What handlers store and show: nothing that needs the views' lock, and   *)
(* nothing in Orbit's name.                                                *)
Plain(e) ==
  /\ e.type \in {"created", "archived", "message", "forked", "handover", "linked", "assigned",
                 "reassigned", "project_created"} \cup CardOnly
  /\ e.type = "message" => e.by = "axis"

(* What is appended is applied by the next step; and where the handler     *)
(* goes on after a failure there is nothing to show that it did not store. *)
Shape(steps) ==
  \A i \in 1..Len(steps) :
    /\ \A n \in DOMAIN steps[i].events : Plain(steps[i].events[n])
    /\ steps[i].op = "append" =>
         /\ i < Len(steps) /\ steps[i + 1].op = "apply"
         /\ Fits(steps[i + 1].events, steps[i].events)
         /\ i + 1 + steps[i].drops <= Len(steps) =>
              \/ steps[i + 1 + steps[i].drops].op = "append"
              \/ Quiet(steps[i + 1 + steps[i].drops].events)
    /\ steps[i].op = "apply" /\ i < Len(steps) => steps[i + 1].op = "append"

Showing(steps) == steps # <<>> /\ steps[1].op = "apply"
(* A handler that is about to show something has stored it.                *)
Ready(steps, q) ==
  Showing(steps) => \A n \in DOMAIN steps[1].events : Vouched(steps[1].events[n], q)
(* It is about to show e.                                                  *)
Pending(steps, e) ==
  Showing(steps) /\ \E n \in DOMAIN steps[1].events : Agree(e, steps[1].events[n])

StoreTypeOK ==
  /\ log \in Seq(Event) /\ view \in Views /\ handlers \in [Handlers -> Seq(Steps)]
  /\ begun \in Nat /\ arrived \in Nat
  /\ backend \in {"sqlite", "postgres"}

Handled ==
  \A h \in Handlers :
    /\ Shape(handlers[h]) /\ Ready(handlers[h], log)
    /\ h > begun => handlers[h] = <<>>

(* Every event of the log that a view shows by itself is shown, or a       *)
(* handler is about to, or the import's replay will.                       *)
Covered ==
  indexing # "replay" =>
    \A i \in DOMAIN log : log[i].type \in ShownTypes /\ log[i] \notin late =>
      IsShown(view, log[i]) \/ \E h \in Handlers : Pending(handlers[h], log[i])

LiveStands == \A p \in Live(view) \ revived : Stands(p, log, Len(log))

(* No message of Orbit's is there twice, and those that are were noted.    *)
Orbits(h) == Message(h, 0, "orbit")
Noted(q, seen) ==
  \A h \in HermesId : \A i \in DOMAIN q : q[i] = Orbits(h) => <<h, 0>> \in seen
NotTwice(q) ==
  \A h \in HermesId : \A i, j \in DOMAIN q : q[i] = Orbits(h) /\ q[j] = Orbits(h) => i = j

OnceObserved == backend = "sqlite" => ObservedOnce /\ Noted(log, observed)

StoreInv ==
  /\ StoreTypeOK /\ Handled
  /\ ShownIsStored /\ Covered
  /\ LiveStands /\ ProjectsExist /\ OnceObserved

(* The greatest of -1 and what a window holds.                             *)
LEMMA NextIdTyped ==
  ASSUME NEW s \in Session, view \in Views
  PROVE  NextId(s) \in Int
<1> DEFINE q == view.hot[s]
           S(n) == {-1} \cup {q[i] : i \in 1..n}
           T == {n \in 0..Len(q) : \E m \in S(n) : \A x \in S(n) : m >= x}
<1>1. q \in Seq(Int)
  BY DEF Views, Hot
<1> HIDE DEF q
<1>2. Len(q) \in Nat /\ Len(q) \in 0..Len(q) /\ \A i \in 1..Len(q) : q[i] \in Int
  BY <1>1
<1>3. 0 \in T
  <2>1. \A x \in S(0) : x = -1
    OBVIOUS
  <2>2. -1 \in S(0) /\ -1 >= -1
    OBVIOUS
  <2> HIDE DEF S
  <2>3. \E m \in S(0) : \A x \in S(0) : m >= x
    BY <2>1, <2>2
  <2> QED BY <1>2, <2>3
<1>4. ASSUME NEW n \in 0..(Len(q) - 1), n \in T
      PROVE  n + 1 \in T
  <2>1. PICK m \in S(n) : \A x \in S(n) : m >= x
    BY <1>4
  <2>2. S(n + 1) = S(n) \cup {q[n + 1]}
    <3>1. \A i : i \in 1..(n + 1) <=> i \in 1..n \/ i = n + 1
      BY <1>2
    <3> QED BY <3>1
  <2>3. q[n + 1] \in Int /\ m \in Int /\ \A x \in S(n) : x \in Int
    BY <1>2
  <2>4. \E l \in S(n + 1) : \A x \in S(n + 1) : l >= x
    <3> HIDE DEF S
    <3>1. CASE m >= q[n + 1]
      BY <2>1, <2>2, <3>1
    <3>2. CASE ~(m >= q[n + 1])
      BY <2>1, <2>2, <2>3, <3>2
    <3> QED BY <3>1, <3>2
  <2> HIDE DEF S
  <2> QED BY <1>2, <2>4
<1> HIDE DEF T
<1>5. \A n \in 0..Len(q) : n \in T
  BY <1>2, <1>3, <1>4, UpTo
<1>6. PICK m \in S(Len(q)) : \A x \in S(Len(q)) : m >= x
  BY <1>2, <1>5 DEF T
<1>7. S(Len(q)) = {-1} \cup ToSet(q)
  BY <1>1 DEF ToSet
<1>8. Max({-1} \cup ToSet(q)) \in S(Len(q))
  <2> HIDE DEF S
  <2> QED BY <1>6, <1>7 DEF Max
<1>9. \A x \in S(Len(q)) : x \in Int
  BY <1>2
<1> HIDE DEF S
<1> QED BY <1>8, <1>9 DEF NextId, q

LEMMA SetToSeqTyped ==
  ASSUME NEW S, IsFiniteSet(S)
  PROVE  SetToSeq(S) \in Seq(S)
<1>1. Cardinality(S) \in Nat /\ ExistsBijection(1..Cardinality(S), S)
  BY FS_CardinalityType
<1>2. \E f \in [1..Cardinality(S) -> S] : IsInjective(f)
  BY <1>1 DEF ExistsBijection, Bijection, Injection, IsInjective
<1>3. SetToSeq(S) \in [1..Cardinality(S) -> S]
  BY <1>2 DEF SetToSeq
<1> QED BY <1>1, <1>3

LEMMA EmptyTyped ==
  /\ Empty \in Views /\ Live(Empty) = {}
  /\ \A q : ShownIsIn(Empty, q)
<1>1. NoSession \in SessionRow
  <2>1. [p \in Project |-> None] \in [Project -> {None, "read", "write"}]
    OBVIOUS
  <2> QED BY <2>1 DEF NoSession, SessionRow
<1>2. NoCard \in CardRow
  <2>1. <<>> \in Seq([session : Session, outcome : {"running", "reassigned", "done"}])
    OBVIOUS
  <2> QED BY <2>1 DEF NoCard, CardRow
<1>3. NoProject \in ProjectRow
  BY DEF NoProject, ProjectRow
<1>4. <<>> \in Hot
  BY DEF Hot, StoreAssumption
<1>5. Empty \in Views
  <2>1. /\ [s \in Session |-> NoSession] \in [Session -> SessionRow]
        /\ [k \in Card |-> NoCard] \in [Card -> CardRow]
        /\ [p \in Project |-> NoProject] \in [Project -> ProjectRow]
        /\ [s \in Session |-> <<>>] \in [Session -> Hot]
    BY <1>1, <1>2, <1>3, <1>4
  <2> QED BY <2>1 DEF Empty, Views
<1>6. Live(Empty) = {}
  <2>1. \A p \in Project : Empty.projects[p].status = None
    BY DEF Empty, NoProject
  <2> QED BY <2>1 DEF Live, None
<1>7. ASSUME NEW q PROVE ShownIsIn(Empty, q)
  <2>1. \A s \in Session : ~Known(Empty.sessions, s)
    BY DEF Known, Empty, NoSession
  <2>2. \A s \in Session : DOMAIN Empty.hot[s] = {}
    BY DEF Empty
  <2>3. \A k \in Card : Empty.cards[k].status = None
    BY DEF Empty, NoCard
  <2> QED BY <2>1, <2>2, <2>3 DEF ShownIsIn
<1> QED BY <1>5, <1>6, <1>7

(* The events that handlers make are events.                               *)
LEMMA EventsTyped ==
  /\ \A s \in Session, source \in {"stellarc", "cli"}, b \in BOOLEAN : Created(s, source, b) \in Event
  /\ \A s \in Session : Archived(s) \in Event
  /\ \A s \in Session, id \in Int, by \in {"axis", "orbit"} : Message(s, id, by) \in Event
  /\ \A s \in Session, p \in Project : Attached(s, p) \in Event /\ ContextDetached(s, p) \in Event
  /\ \A s \in Session, p \in Project, mode \in {"read", "write"} :
       ContextAttached(s, p, mode) \in Event
  /\ \A s, r \in Session : Forked(s, r) \in Event /\ HandedOver(s, r) \in Event
  /\ \A s \in Session, k \in Card : Linked(s, k) \in Event /\ Assigned(k, s) \in Event
  /\ \A s \in Session, k \in Card, r \in Session \cup {None} : Reassigned(k, s, r) \in Event
  /\ \A type \in CardOnly, k \in Card : CardEvent(type, k) \in Event
  /\ \A type \in ProjectOnly, p \in Project : ProjectEvent(type, p) \in Event
BY DEF Event, Created, Archived, Message, Attached, ContextDetached, ContextAttached, Forked,
       HandedOver, Linked, Assigned, Reassigned, CardEvent, ProjectEvent

LEMMA EarlierTyped ==
  Earlier \in Seq(Event)
<1> DEFINE seq == SetToSeq(Stored)
           start(x) == IF x \in NativeId THEN Created(x, "stellarc", FALSE)
                       ELSE CardEvent("card_created", x)
           at(i) == IF seq[i] \in Project THEN ProjectEvent("project_created", seq[i])
                    ELSE start(seq[i])
<1>1. seq \in Seq(Stored)
  BY SetToSeqTyped DEF StoreAssumption
<1> HIDE DEF seq
<1>2. ASSUME NEW i \in 1..Len(seq) PROVE at(i) \in Event
  <2>1. seq[i] \in NativeId \cup Card \cup Project
    BY <1>1 DEF StoreAssumption
  <2>2. CASE seq[i] \in Project
    BY <2>2, EventsTyped DEF ProjectOnly
  <2>3. CASE seq[i] \notin Project /\ seq[i] \in NativeId
    BY <2>3, EventsTyped DEF Session
  <2>4. CASE seq[i] \notin Project /\ seq[i] \notin NativeId
    BY <2>1, <2>4, EventsTyped DEF CardOnly
  <2> QED BY <2>2, <2>3, <2>4
<1>3. Earlier = [i \in 1..Len(seq) |-> at(i)]
  BY <1>1 DEF Earlier, seq
<1> HIDE DEF at
<1>4. Earlier \in [1..Len(seq) -> Event]
  BY <1>2, <1>3
<1> QED BY <1>1, <1>4

(***************************************************************************)
(* The steps of handlers.                                                  *)
(***************************************************************************)
LEMMA SuffixIs ==
  ASSUME NEW S, NEW q \in Seq(S), NEW d \in Nat \ {0}
  PROVE  LET r == SubSeq(q, d, Len(q))
         IN  /\ r \in Seq(S)
             /\ Len(r) = IF d <= Len(q) THEN Len(q) - d + 1 ELSE 0
             /\ \A i \in 1..Len(r) : r[i] = q[i + d - 1] /\ i + d - 1 \in 1..Len(q)
<1>1. Len(q) \in Nat /\ \A i \in 1..Len(q) : q[i] \in S
  OBVIOUS
<1>2. CASE d <= Len(q)
  <2>1. d \in 1..(Len(q) + 1) /\ \A i \in d..Len(q) : q[i] \in S
    BY <1>1, <1>2
  <2> DEFINE r == SubSeq(q, d, Len(q))
  <2>2. /\ r \in Seq(S) /\ Len(r) = Len(q) - d + 1
        /\ \A i \in 1..(Len(q) - d + 1) : r[i] = q[d + i - 1]
    BY <1>1, <1>2, <2>1, SubSeqProperties
  <2> HIDE DEF r
  <2>3. \A i \in 1..Len(r) : r[i] = q[i + d - 1] /\ i + d - 1 \in 1..Len(q)
    BY <1>1, <2>2
  <2> QED BY <1>2, <2>2, <2>3 DEF r
<1>3. CASE ~(d <= Len(q))
  <2>1. SubSeq(q, d, Len(q)) = <<>>
    BY <1>1, <1>3
  <2> QED BY <1>3, <2>1
<1> QED BY <1>2, <1>3

LEMMA SuffixShaped ==
  ASSUME NEW steps \in Seq(Steps), Shape(steps), NEW d \in Nat \ {0}
  PROVE  Shape(SubSeq(steps, d, Len(steps)))
<1> DEFINE r == SubSeq(steps, d, Len(steps))
<1>1. /\ r \in Seq(Steps) /\ Len(steps) \in Nat /\ Len(r) \in Nat
      /\ Len(r) = IF d <= Len(steps) THEN Len(steps) - d + 1 ELSE 0
      /\ \A i \in 1..Len(r) : r[i] = steps[i + d - 1] /\ i + d - 1 \in 1..Len(steps)
  BY SuffixIs
<1> HIDE DEF r
<1>2. ASSUME NEW i \in 1..Len(r)
      PROVE  /\ \A n \in DOMAIN r[i].events : Plain(r[i].events[n])
             /\ r[i].op = "append" =>
                  /\ i < Len(r) /\ r[i + 1].op = "apply"
                  /\ Fits(r[i + 1].events, r[i].events)
                  /\ i + 1 + r[i].drops <= Len(r) =>
                       \/ r[i + 1 + r[i].drops].op = "append"
                       \/ Quiet(r[i + 1 + r[i].drops].events)
             /\ r[i].op = "apply" /\ i < Len(r) => r[i + 1].op = "append"
  <2> DEFINE j == i + d - 1
  <2>1. /\ j \in 1..Len(steps) /\ r[i] = steps[j] /\ Len(r) = Len(steps) - d + 1
        /\ j + 1 = (i + 1) + d - 1 /\ (i < Len(r) <=> j < Len(steps))
    <3>1. j \in 1..Len(steps) /\ r[i] = steps[j]
      BY <1>1
    <3>2. Len(r) = Len(steps) - d + 1
      <4>1. i \in Int /\ d \in Int /\ i + d - 1 <= Len(steps) /\ i >= 1
        BY <1>1
      <4>2. d <= Len(steps)
        BY <1>1, <4>1
      <4> QED BY <1>1, <4>2
    <3>3. i \in Int /\ d \in Int /\ Len(steps) \in Int
      BY <1>1
    <3>4. j + 1 = (i + 1) + d - 1
      BY <3>3
    <3>5. i < Len(r) <=> j < Len(steps)
      BY <3>2, <3>3
    <3> HIDE DEF j
    <3> QED BY <3>1, <3>2, <3>4, <3>5
  <2>2. \A n \in 1..Len(r) : r[n] = steps[n + d - 1]
    BY <1>1
  <2>3. i < Len(r) => r[i + 1] = steps[j + 1]
    BY <1>1, <2>1, <2>2
  <2>4. r[i].drops \in {0, 1, 3}
    <3>1. r[i] \in Steps
      BY <1>1
    <3> QED BY <3>1 DEF Steps
  <2>5. i + 1 + r[i].drops <= Len(r) =>
          /\ j + 1 + steps[j].drops <= Len(steps)
          /\ r[i + 1 + r[i].drops] = steps[j + 1 + steps[j].drops]
    <3>1. ASSUME NEW n \in Nat, i + 1 + n <= Len(r)
          PROVE  j + 1 + n <= Len(steps) /\ r[i + 1 + n] = steps[j + 1 + n]
      <4>1. i + 1 + n \in 1..Len(r) /\ (i + 1 + n) + d - 1 = j + 1 + n
        BY <1>1, <3>1
      <4> QED BY <1>1, <2>1, <3>1, <4>1
    <3>2. PICK n \in Nat : n = r[i].drops /\ n = steps[j].drops
      BY <2>1, <2>4
    <3> HIDE DEF j
    <3> QED BY <3>1, <3>2
  <2> HIDE DEF j
  <2> QED BY <2>1, <2>3, <2>5 DEF Shape
<1> QED BY <1>2 DEF Shape, r

(* A handler's head is done, and perhaps more of its steps are dropped.    *)
LEMMA TailIsSuffix ==
  ASSUME NEW steps \in Seq(Steps), steps # <<>>, NEW d \in {0, 1, 3}
  PROVE  /\ Head(steps) = steps[1] /\ steps[1] \in Steps /\ Len(steps) >= 1 /\ Len(steps) \in Nat
         /\ Tail(steps) = SubSeq(steps, 2, Len(steps))
         /\ SubSeq(Tail(steps), d + 1, Len(Tail(steps))) = SubSeq(steps, d + 2, Len(steps))
<1>1. Len(steps) \in Nat /\ Len(steps) >= 1 /\ Head(steps) = steps[1] /\ steps[1] \in Steps
  OBVIOUS
<1>2. Tail(steps) = SubSeq(steps, 2, Len(steps))
  OBVIOUS
<1> DEFINE t == Tail(steps)
           a == SubSeq(t, d + 1, Len(t))
           b == SubSeq(steps, d + 2, Len(steps))
<1>3. t \in Seq(Steps) /\ Len(t) = Len(steps) - 1 /\ \A i \in 1..Len(t) : t[i] = steps[i + 1]
  OBVIOUS
<1> HIDE DEF t
<1>4. /\ a \in Seq(Steps) /\ Len(a) = IF d + 1 <= Len(t) THEN Len(t) - (d + 1) + 1 ELSE 0
      /\ \A i \in 1..Len(a) : a[i] = t[i + (d + 1) - 1] /\ i + (d + 1) - 1 \in 1..Len(t)
  BY <1>3, SuffixIs
<1>5. /\ b \in Seq(Steps) /\ Len(b) = IF d + 2 <= Len(steps) THEN Len(steps) - (d + 2) + 1 ELSE 0
      /\ \A i \in 1..Len(b) : b[i] = steps[i + (d + 2) - 1] /\ i + (d + 2) - 1 \in 1..Len(steps)
  BY SuffixIs
<1> HIDE DEF a, b
<1>6. Len(a) = Len(b)
  BY <1>1, <1>3, <1>4, <1>5
<1>7. ASSUME NEW i \in 1..Len(a) PROVE a[i] = b[i]
  <2>1. i + (d + 1) - 1 = i + d /\ i + d + 1 = i + (d + 2) - 1 /\ Len(a) \in Nat
    BY <1>4
  <2>2. a[i] = t[i + d] /\ i + d \in 1..Len(t)
    BY <1>4, <2>1
  <2>3. t[i + d] = steps[i + d + 1]
    BY <1>3, <2>2
  <2> QED BY <1>5, <1>6, <2>1, <2>2, <2>3
<1>8. a = b
  BY <1>4, <1>5, <1>6, <1>7, SeqEqual
<1> QED BY <1>1, <1>2, <1>8 DEF a, b, t

(* A handler that stores before it shows.                                  *)
Begins(steps) == steps \in Seq(Steps) /\ Shape(steps) /\ ~Showing(steps)
AllPlain(events) == \A n \in DOMAIN events : Plain(events[n])

LEMMA TwoSteps ==
  ASSUME NEW E \in Seq(Event), NEW F \in Seq(Event), AllPlain(E), AllPlain(F), Fits(F, E)
  PROVE  Begins(<<Store(E, 1), Show(F)>>)
<1> DEFINE a == Store(E, 1)
           b == Show(F)
           steps == <<a, b>>
<1>1. /\ a \in Steps /\ a.op = "append" /\ a.events = E /\ a.drops = 1
      /\ b \in Steps /\ b.op = "apply" /\ b.events = F /\ b.op # "append" /\ a.op # "apply"
  BY DEF Store, Show, Steps
<1> HIDE DEF a, b
<1>2. steps \in Seq(Steps) /\ Len(steps) = 2 /\ steps[1] = a /\ steps[2] = b
  BY <1>1
<1> HIDE DEF steps
<1>3. Shape(steps)
  <2>1. ASSUME NEW i \in 1..Len(steps)
        PROVE  /\ \A n \in DOMAIN steps[i].events : Plain(steps[i].events[n])
               /\ steps[i].op = "append" =>
                    /\ i < Len(steps) /\ steps[i + 1].op = "apply"
                    /\ Fits(steps[i + 1].events, steps[i].events)
                    /\ i + 1 + steps[i].drops <= Len(steps) =>
                         \/ steps[i + 1 + steps[i].drops].op = "append"
                         \/ Quiet(steps[i + 1 + steps[i].drops].events)
               /\ steps[i].op = "apply" /\ i < Len(steps) => steps[i + 1].op = "append"
    <3>1. CASE i = 1
      BY <1>1, <1>2, <3>1 DEF AllPlain
    <3>2. CASE i = 2
      BY <1>1, <1>2, <3>2 DEF AllPlain
    <3> QED BY <1>2, <3>1, <3>2
  <2> QED BY <2>1 DEF Shape
<1>4. ~Showing(steps)
  BY <1>1, <1>2 DEF Showing
<1> QED BY <1>2, <1>3, <1>4 DEF Begins, steps, a, b

LEMMA FourSteps ==
  ASSUME NEW E \in Seq(Event), NEW F \in Seq(Event), NEW G \in Seq(Event), NEW d \in {1, 3},
         AllPlain(E), AllPlain(F), AllPlain(G), Fits(F, E), Fits(G, G), Quiet(G)
  PROVE  Begins(<<Store(E, d), Show(F), Store(G, 0), Show(G)>>)
<1> DEFINE a == Store(E, d)
           b == Show(F)
           c == Store(G, 0)
           f == Show(G)
           steps == <<a, b, c, f>>
<1>1. /\ a \in Steps /\ a.op = "append" /\ a.events = E /\ a.drops = d
      /\ b \in Steps /\ b.op = "apply" /\ b.events = F /\ b.op # "append" /\ a.op # "apply"
      /\ c \in Steps /\ c.op = "append" /\ c.events = G /\ c.drops = 0
      /\ f \in Steps /\ f.op = "apply" /\ f.events = G /\ f.op # "append" /\ c.op # "apply"
  BY DEF Store, Show, Steps
<1> HIDE DEF a, b, c, f
<1>2. /\ steps \in Seq(Steps) /\ Len(steps) = 4
      /\ steps[1] = a /\ steps[2] = b /\ steps[3] = c /\ steps[4] = f
  BY <1>1
<1> HIDE DEF steps
<1>3. Shape(steps)
  <2>1. ASSUME NEW i \in 1..Len(steps)
        PROVE  /\ \A n \in DOMAIN steps[i].events : Plain(steps[i].events[n])
               /\ steps[i].op = "append" =>
                    /\ i < Len(steps) /\ steps[i + 1].op = "apply"
                    /\ Fits(steps[i + 1].events, steps[i].events)
                    /\ i + 1 + steps[i].drops <= Len(steps) =>
                         \/ steps[i + 1 + steps[i].drops].op = "append"
                         \/ Quiet(steps[i + 1 + steps[i].drops].events)
               /\ steps[i].op = "apply" /\ i < Len(steps) => steps[i + 1].op = "append"
    <3>1. CASE i = 1
      BY <1>1, <1>2, <3>1 DEF AllPlain
    <3>2. CASE i = 2
      BY <1>1, <1>2, <3>2 DEF AllPlain
    <3>3. CASE i = 3
      BY <1>1, <1>2, <3>3 DEF AllPlain
    <3>4. CASE i = 4
      BY <1>1, <1>2, <3>4 DEF AllPlain
    <3> QED BY <1>2, <3>1, <3>2, <3>3, <3>4
  <2> QED BY <2>1 DEF Shape
<1>4. ~Showing(steps)
  BY <1>1, <1>2 DEF Showing
<1> QED BY <1>2, <1>3, <1>4 DEF Begins, steps, a, b, c, f

LEMMA Singles ==
  ASSUME NEW e \in Event, NEW f \in Event, Plain(e)
  PROVE  /\ <<e>> \in Seq(Event) /\ AllPlain(<<e>>)
         /\ Agree(e, f) => Fits(<<f>>, <<e>>)
         /\ Agree(e, e) /\ Fits(<<e>>, <<e>>)
         /\ e.type \notin ShownTypes => Quiet(<<e>>)
<1>1. Agree(e, e)
  BY DEF Agree
<1>2. PICK E, F : E = <<e>> /\ F = <<f>>
  OBVIOUS
<1>3. DOMAIN E = {1} /\ E[1] = e /\ DOMAIN F = {1} /\ F[1] = f /\ E \in Seq(Event)
  BY <1>2
<1>4. AllPlain(E) /\ (e.type \notin ShownTypes => Quiet(E))
  BY <1>3 DEF AllPlain, Quiet
<1>5. Fits(E, E) /\ (Agree(e, f) => Fits(F, E))
  BY <1>1, <1>3 DEF Fits
<1> QED BY <1>1, <1>2, <1>3, <1>4, <1>5

LEMMA FitsItself ==
  ASSUME NEW q \in Seq(Event)
  PROVE  Fits(q, q)
BY DEF Fits, Agree

(* Every handler begins by storing.                                        *)
LEMMA ShownBegins ==
  ASSUME NEW e \in Event, Plain(e)
  PROVE  Begins(Shown(e))
BY Singles, TwoSteps DEF Shown

LEMMA ForkBegins ==
  ASSUME NEW s \in Session, NEW r \in Session
  PROVE  Begins(ForkSteps(s, r))
<1> DEFINE e == Created(s, "stellarc", FALSE)
           f == Created(s, "stellarc", TRUE)
           g == Forked(s, r)
<1>1. e \in Event /\ f \in Event /\ g \in Event
  BY EventsTyped
<1>2. /\ Plain(e) /\ Plain(f) /\ Agree(e, f)
      /\ Plain(g) /\ g.type \notin ShownTypes
  BY DEF Plain, Agree, ShownTypes, Created, Forked
<1> HIDE DEF e, f, g
<1>3. Begins(<<Store(<<e>>, 3), Show(<<f>>), Store(<<g>>, 0), Show(<<g>>)>>)
  <2>1. /\ <<e>> \in Seq(Event) /\ AllPlain(<<e>>) /\ Fits(<<f>>, <<e>>)
        /\ <<f>> \in Seq(Event) /\ AllPlain(<<f>>)
        /\ <<g>> \in Seq(Event) /\ AllPlain(<<g>>) /\ Fits(<<g>>, <<g>>) /\ Quiet(<<g>>)
    BY <1>1, <1>2, Singles
  <2> QED BY <2>1, FourSteps
<1> QED BY <1>3 DEF ForkSteps, e, f, g

(* Two steps and two steps.                                               *)
LEMMA FourInTwo ==
  \A a, b, c, d : <<a, b>> \o <<c, d>> = <<a, b, c, d>>
<1>1. ASSUME NEW S, NEW a \in S, NEW b \in S, NEW c \in S, NEW d \in S
      PROVE  <<a, b>> \o <<c, d>> = <<a, b, c, d>>
  <2>1. /\ <<a, b>> \in Seq(S) /\ <<c, d>> \in Seq(S) /\ <<a, b, c, d>> \in Seq(S)
        /\ Len(<<a, b>>) = 2 /\ Len(<<c, d>>) = 2 /\ Len(<<a, b, c, d>>) = 4
    OBVIOUS
  <2> DEFINE q == <<a, b>> \o <<c, d>>
             r == <<a, b, c, d>>
  <2>2. /\ q \in Seq(S) /\ Len(q) = 4 /\ q[1] = a /\ q[2] = b /\ q[3] = c /\ q[4] = d
    <3>1. q \in Seq(S) /\ Len(q) = 4
      BY <2>1
    <3>2. q[1] = <<a, b>>[1] /\ q[2] = <<a, b>>[2] /\ q[3] = <<c, d>>[1] /\ q[4] = <<c, d>>[2]
      BY <2>1
    <3> QED BY <3>1, <3>2
  <2>3. r \in Seq(S) /\ Len(r) = 4 /\ r[1] = a /\ r[2] = b /\ r[3] = c /\ r[4] = d
    BY <2>1
  <2> HIDE DEF q, r
  <2>4. \A i \in 1..4 : q[i] = r[i]
    <3>1. \A i \in 1..4 : i = 1 \/ i = 2 \/ i = 3 \/ i = 4
      OBVIOUS
    <3> QED BY <2>2, <2>3, <3>1
  <2>5. q = r
    BY <2>2, <2>3, <2>4, SeqEqual
  <2> QED BY <2>5 DEF q, r
<1>2. \A a, b, c, d : <<a, b>> \o <<c, d>> = <<a, b, c, d>>
  <2>1. TAKE a, b, c, d
  <2>2. a \in {a, b, c, d} /\ b \in {a, b, c, d} /\ c \in {a, b, c, d} /\ d \in {a, b, c, d}
    OBVIOUS
  <2> QED BY <1>1, <2>2
<1> QED BY <1>2

LEMMA TwiceBegins ==
  ASSUME NEW e \in Event, Plain(e), NEW g \in Event, Plain(g), g.type \notin ShownTypes
  PROVE  Begins(Shown(e) \o <<Store(<<g>>, 0), Show(<<g>>)>>)
<1>1. /\ <<e>> \in Seq(Event) /\ AllPlain(<<e>>) /\ Fits(<<e>>, <<e>>)
      /\ <<g>> \in Seq(Event) /\ AllPlain(<<g>>) /\ Fits(<<g>>, <<g>>) /\ Quiet(<<g>>)
  BY Singles
<1>2. Begins(<<Store(<<e>>, 1), Show(<<e>>), Store(<<g>>, 0), Show(<<g>>)>>)
  BY <1>1, FourSteps
<1> QED BY <1>2, FourInTwo DEF Shown

LEMMA HandoverBegins ==
  ASSUME NEW s \in Session, NEW from \in Session, view \in Views
  PROVE  LET copies == [i \in DOMAIN view.hot[from] |-> Message(s, i - 1, "axis")]
             batch == <<Created(s, "stellarc", view.sessions[from].titled)>> \o copies
                      \o <<HandedOver(s, from), Archived(from)>>
         IN  Begins(<<Store(batch, 1), Show(batch)>>)
<1> DEFINE copies == [i \in DOMAIN view.hot[from] |-> Message(s, i - 1, "axis")]
           a == Created(s, "stellarc", view.sessions[from].titled)
           b == HandedOver(s, from)
           c == Archived(from)
           P == {e \in Event : Plain(e)}
<1>1. a \in P /\ b \in P /\ c \in P
  <2>1. view.sessions[from].titled \in BOOLEAN
    BY DEF Views, SessionRow
  <2>2. a \in Event /\ b \in Event /\ c \in Event
    BY <2>1, EventsTyped
  <2>3. Plain(a) /\ Plain(b) /\ Plain(c)
    BY DEF Plain, Created, HandedOver, Archived
  <2> QED BY <2>2, <2>3
<1>2. copies \in Seq(P)
  <2>1. DOMAIN view.hot[from] = 1..Len(view.hot[from]) /\ Len(view.hot[from]) \in Nat
    BY DEF Views, Hot
  <2>2. \A i \in DOMAIN view.hot[from] : Message(s, i - 1, "axis") \in P
    <3>1. ASSUME NEW id \in Int PROVE Message(s, id, "axis") \in P
      <4>1. Message(s, id, "axis") \in Event
        BY EventsTyped
      <4>2. Plain(Message(s, id, "axis"))
        BY DEF Plain, Message
      <4> QED BY <4>1, <4>2
    <3> QED BY <2>1, <3>1
  <2> HIDE DEF P
  <2> QED BY <2>1, <2>2
<1> DEFINE batch == <<a>> \o copies \o <<b, c>>
<1>3. batch \in Seq(P)
  <2> HIDE DEF a, b, c, copies, P
  <2> QED BY <1>1, <1>2
<1> HIDE DEF batch
<1>4. batch \in Seq(Event) /\ AllPlain(batch)
  <2>1. \A n \in DOMAIN batch : batch[n] \in P
    <3> HIDE DEF P
    <3> QED BY <1>3
  <2>2. P \subseteq Event
    OBVIOUS
  <2>3. batch \in Seq(Event)
    <3> HIDE DEF P
    <3> QED BY <1>3, <2>2
  <2> QED BY <2>1, <2>3 DEF AllPlain
<1>5. Begins(<<Store(batch, 1), Show(batch)>>)
  BY <1>4, FitsItself, TwoSteps
<1> QED BY <1>5 DEF batch

(***************************************************************************)
(* The log grows: r is q, and then E.                                      *)
(***************************************************************************)
Grows(r, q, E) ==
  /\ r \in Seq(Event) /\ q \in Seq(Event) /\ E \in Seq(Event)
  /\ Len(q) \in Nat /\ Len(E) \in Nat /\ Len(r) = Len(q) + Len(E)
  /\ DOMAIN q = 1..Len(q) /\ DOMAIN r = 1..Len(r) /\ DOMAIN E = 1..Len(E)
  /\ \A i \in 1..Len(q) : i \in 1..Len(r) /\ r[i] = q[i]
  /\ \A j \in 1..Len(E) : Len(q) + j \in 1..Len(r) /\ r[Len(q) + j] = E[j]
  /\ \A i \in 1..Len(r) : i \in 1..Len(q) \/ \E j \in 1..Len(E) : i = Len(q) + j

LEMMA AppendGrows ==
  ASSUME NEW q \in Seq(Event), NEW E \in Seq(Event)
  PROVE  Grows(q \o E, q, E)
<1> DEFINE r == q \o E
<1>1. /\ Len(q) \in Nat /\ Len(E) \in Nat /\ Len(r) = Len(q) + Len(E) /\ r \in Seq(Event)
      /\ \A i \in 1..(Len(q) + Len(E)) : r[i] = IF i <= Len(q) THEN q[i] ELSE E[i - Len(q)]
  BY ConcatProperties
<1>2. DOMAIN q = 1..Len(q) /\ DOMAIN E = 1..Len(E)
  OBVIOUS
<1> HIDE DEF r
<1>3. DOMAIN r = 1..Len(r)
  BY <1>1
<1>4. \A i \in 1..Len(q) : i \in 1..Len(r) /\ r[i] = q[i]
  BY <1>1
<1>5. ASSUME NEW j \in 1..Len(E)
      PROVE  Len(q) + j \in 1..Len(r) /\ r[Len(q) + j] = E[j]
  <2>1. Len(q) + j \in 1..Len(r) /\ ~(Len(q) + j <= Len(q)) /\ Len(q) + j - Len(q) = j
    BY <1>1
  <2> QED BY <1>1, <2>1
<1>6. ASSUME NEW i \in 1..Len(r), i \notin 1..Len(q)
      PROVE  \E j \in 1..Len(E) : i = Len(q) + j
  <2>1. i - Len(q) \in 1..Len(E) /\ i = Len(q) + (i - Len(q))
    BY <1>1, <1>6
  <2> QED BY <2>1
<1> QED BY <1>1, <1>2, <1>3, <1>4, <1>5, <1>6 DEF Grows, r

LEMMA ShownGrows ==
  ASSUME NEW r, NEW q, NEW E, Grows(r, q, E), NEW v, ShownIsIn(v, q)
  PROVE  ShownIsIn(v, r)
<1>1. \A i \in DOMAIN q : i \in DOMAIN r /\ r[i] = q[i]
  BY DEF Grows
<1>2. ASSUME NEW s \in Session, Known(v.sessions, s)
      PROVE  \E i \in DOMAIN r : Creates(r[i], s)
  BY <1>1, <1>2 DEF ShownIsIn
<1>3. ASSUME NEW s \in Session, NEW n \in DOMAIN v.hot[s]
      PROVE  \E i \in DOMAIN r : r[i].type = "message" /\ r[i].session = s /\ r[i].id = v.hot[s][n]
  <2>1. PICK i \in DOMAIN q : q[i].type = "message" /\ q[i].session = s /\ q[i].id = v.hot[s][n]
    BY DEF ShownIsIn
  <2> QED BY <1>1, <2>1
<1>4. ASSUME NEW k \in Card, v.cards[k].status # None
      PROVE  \E i \in DOMAIN r : r[i] = CardEvent("card_created", k)
  BY <1>1, <1>4 DEF ShownIsIn
<1> QED BY <1>2, <1>3, <1>4 DEF ShownIsIn

LEMMA VouchedGrows ==
  ASSUME NEW r, NEW q, NEW E, Grows(r, q, E), NEW e, Vouched(e, q)
  PROVE  Vouched(e, r)
<1>1. \A i \in DOMAIN q : i \in DOMAIN r /\ r[i] = q[i]
  BY DEF Grows
<1>2. ASSUME e.type = "created"
      PROVE  \E i \in DOMAIN r : Creates(r[i], e.session)
  BY <1>1, <1>2 DEF Vouched
<1>3. ASSUME e.type = "message"
      PROVE  \E i \in DOMAIN r : r[i].type = "message" /\ r[i].session = e.session /\ r[i].id = e.id
  <2>1. PICK i \in DOMAIN q : q[i].type = "message" /\ q[i].session = e.session /\ q[i].id = e.id
    BY <1>3 DEF Vouched
  <2> QED BY <1>1, <2>1
<1>4. ASSUME e.type \in {"card_created", "project_created"}
      PROVE  \E i \in DOMAIN r : r[i] = e
  BY <1>1, <1>4 DEF Vouched
<1> QED BY <1>2, <1>3, <1>4 DEF Vouched

LEMMA StandsGrows ==
  ASSUME NEW r, NEW q, NEW E, Grows(r, q, E), NEW p, NEW n \in 0..Len(q), Stands(p, q, n)
  PROVE  /\ Stands(p, r, n)
         /\ n = Len(q) /\ (\A j \in 1..Len(E) : E[j] # ProjectEvent("project_deleted", p)) =>
              Stands(p, r, Len(r))
<1>1. PICK j \in 1..n : /\ q[j] = ProjectEvent("project_created", p)
                        /\ \A l \in j..n : q[l] # ProjectEvent("project_deleted", p)
  BY DEF Stands
<1>2. Len(q) \in Nat /\ Len(E) \in Nat /\ Len(r) = Len(q) + Len(E)
  BY DEF Grows
<1>3. \A l \in 1..n : r[l] = q[l]
  BY <1>2 DEF Grows
<1>4. j \in 1..n /\ r[j] = q[j] /\ \A l \in j..n : l \in 1..n
  BY <1>2, <1>3
<1>5. Stands(p, r, n)
  BY <1>1, <1>3, <1>4 DEF Stands
<1>6. ASSUME n = Len(q), \A i \in 1..Len(E) : E[i] # ProjectEvent("project_deleted", p)
      PROVE  Stands(p, r, Len(r))
  <2>1. ASSUME NEW l \in j..Len(r)
        PROVE  r[l] # ProjectEvent("project_deleted", p)
    <3>1. l \in 1..Len(r)
      BY <1>2
    <3>2. CASE l \in 1..Len(q)
      <4>1. l \in j..n /\ r[l] = q[l]
        BY <1>2, <1>3, <1>6, <3>2
      <4> QED BY <1>1, <4>1
    <3>3. CASE \E i \in 1..Len(E) : l = Len(q) + i
      BY <1>6, <3>3 DEF Grows
    <3> QED BY <3>1, <3>2, <3>3 DEF Grows
  <2>2. j \in 1..Len(r) /\ r[j] = ProjectEvent("project_created", p)
    BY <1>1, <1>2, <1>4
  <2> QED BY <2>1, <2>2 DEF Stands
<1> QED BY <1>5, <1>6

(* Every use of a project in q, but for those of P, finds it there.        *)
Uses(e) == e.type \in {"attached", "context_attached"}
Founded(q, P) ==
  \A i \in DOMAIN q : Uses(q[i]) /\ q[i].project \notin P => Stands(q[i].project, q, i - 1)

LEMMA FoundedGrows ==
  ASSUME NEW r, NEW q, NEW E, Grows(r, q, E), NEW P, NEW R, P \subseteq R, Founded(q, P),
         \A j \in 1..Len(E) : Uses(E[j]) /\ E[j].project \notin R =>
           j = 1 /\ Stands(E[j].project, q, Len(q))
  PROVE  Founded(r, R)
<1> SUFFICES ASSUME NEW i \in DOMAIN r, Uses(r[i]), r[i].project \notin R
             PROVE  Stands(r[i].project, r, i - 1)
  BY DEF Founded
<1>1. /\ i \in 1..Len(r) /\ Len(q) \in Nat /\ DOMAIN q = 1..Len(q)
      /\ i \in 1..Len(q) \/ \E j \in 1..Len(E) : i = Len(q) + j
  BY DEF Grows
<1>2. CASE i \in 1..Len(q)
  <2>1. r[i] = q[i] /\ i - 1 \in 0..Len(q)
    BY <1>1, <1>2 DEF Grows
  <2>2. Stands(q[i].project, q, i - 1)
    BY <1>1, <1>2, <2>1 DEF Founded
  <2> QED BY <2>1, <2>2, StandsGrows
<1>3. CASE \E j \in 1..Len(E) : i = Len(q) + j
  <2>1. PICK j \in 1..Len(E) : i = Len(q) + j
    BY <1>3
  <2>2. r[i] = E[j]
    BY <2>1 DEF Grows
  <2>3. j = 1 /\ Stands(E[j].project, q, Len(q))
    BY <2>2
  <2>4. i - 1 = Len(q) /\ Len(q) \in 0..Len(q)
    BY <1>1, <2>1, <2>3
  <2> QED BY <2>2, <2>3, <2>4, StandsGrows
<1> QED BY <1>1, <1>2, <1>3

LEMMA NotedGrows ==
  ASSUME NEW r, NEW q, NEW E, Grows(r, q, E), NEW seen, NEW now, seen \subseteq now,
         Noted(q, seen), NotTwice(q),
         \A h \in HermesId : \A j \in 1..Len(E) : E[j] = Orbits(h) =>
           j = 1 /\ <<h, 0>> \notin seen /\ <<h, 0>> \in now
  PROVE  Noted(r, now) /\ NotTwice(r)
<1>1. /\ Len(q) \in Nat /\ DOMAIN q = 1..Len(q) /\ DOMAIN r = 1..Len(r)
      /\ \A i \in 1..Len(q) : r[i] = q[i]
      /\ \A j \in 1..Len(E) : r[Len(q) + j] = E[j]
      /\ \A i \in 1..Len(r) : i \in 1..Len(q) \/ \E j \in 1..Len(E) : i = Len(q) + j
  BY DEF Grows
<1>2. ASSUME NEW h \in HermesId, NEW i \in DOMAIN r, r[i] = Orbits(h)
      PROVE  /\ <<h, 0>> \in now
             /\ <<h, 0>> \in seen => i \in 1..Len(q)
             /\ <<h, 0>> \notin seen => i = Len(q) + 1
  <2>1. CASE i \in 1..Len(q)
    <3>1. q[i] = Orbits(h) /\ i \in DOMAIN q
      BY <1>1, <1>2, <2>1
    <3> QED BY <2>1, <3>1 DEF Noted
  <2>2. CASE \E j \in 1..Len(E) : i = Len(q) + j
    <3>1. PICK j \in 1..Len(E) : i = Len(q) + j
      BY <2>2
    <3>2. E[j] = Orbits(h)
      BY <1>1, <1>2, <3>1
    <3> QED BY <3>1, <3>2
  <2> QED BY <1>1, <2>1, <2>2
<1>3. Noted(r, now)
  BY <1>2 DEF Noted
<1>4. ASSUME NEW h \in HermesId, NEW i \in DOMAIN r, NEW j \in DOMAIN r,
             r[i] = Orbits(h), r[j] = Orbits(h)
      PROVE  i = j
  <2>1. CASE <<h, 0>> \in seen
    <3>1. i \in DOMAIN q /\ j \in DOMAIN q /\ q[i] = Orbits(h) /\ q[j] = Orbits(h)
      BY <1>1, <1>2, <1>4, <2>1
    <3> QED BY <3>1 DEF NotTwice
  <2>2. CASE <<h, 0>> \notin seen
    BY <1>2, <1>4, <2>2
  <2> QED BY <2>1, <2>2
<1> QED BY <1>3, <1>4 DEF NotTwice

(***************************************************************************)
(* The steps.                                                              *)
(***************************************************************************)
LEMMA BeginStep ==
  ASSUME StoreInv, NEW steps, Begins(steps), Begin(steps)
  PROVE  StoreInv'
<1> USE DEF StoreInv
<1>1. /\ UNCHANGED <<log, view, observed, indexing, late, revived, arrived, backend>>
      /\ begun' = begun + 1 /\ begun \in Nat /\ arrived \in Nat /\ begun' \in Nat
      /\ handlers' = [handlers EXCEPT ![begun + 1] = steps]
      /\ handlers \in [Handlers -> Seq(Steps)]
  BY DEF Begin, StoreTypeOK
<1>2. begun + 1 \in Handlers /\ handlers[begun + 1] = <<>>
  <2>1. begun + arrived < MaxWork
    BY DEF Begin
  <2>2. begun + 1 \in Handlers
    BY <1>1, <2>1 DEF Handlers, StoreAssumption
  <2> QED BY <1>1, <2>2 DEF Handled
<1>3. /\ handlers' \in [Handlers -> Seq(Steps)] /\ handlers'[begun + 1] = steps
      /\ \A h \in Handlers : h # begun + 1 => handlers'[h] = handlers[h]
  BY <1>1, <1>2 DEF Begins
<1>4. StoreTypeOK'
  BY <1>1, <1>3 DEF StoreTypeOK
<1>5. Handled'
  <2>1. ASSUME NEW h \in Handlers
        PROVE  /\ Shape(handlers'[h]) /\ Ready(handlers'[h], log)
               /\ h > begun + 1 => handlers'[h] = <<>>
    <3>1. CASE h = begun + 1
      BY <1>1, <1>3, <3>1 DEF Begins, Ready
    <3>2. CASE h # begun + 1
      <4>1. h > begun + 1 => h > begun
        BY <1>1 DEF Handlers
      <4> QED BY <1>3, <3>2, <4>1 DEF Handled
    <3> QED BY <3>1, <3>2
  <2> QED BY <1>1, <2>1 DEF Handled
<1>6. Covered'
  <2>1. ASSUME NEW h \in Handlers, NEW e, Pending(handlers[h], e)
        PROVE  Pending(handlers'[h], e)
    <3>1. h # begun + 1
      BY <1>2, <2>1 DEF Pending, Showing
    <3> QED BY <1>3, <2>1, <3>1
  <2> QED BY <1>1, <2>1 DEF Covered
<1>7. ShownIsStored' /\ LiveStands'
  BY <1>1 DEF ShownIsStored, LiveStands
<1>8. ProjectsExist' /\ OnceObserved'
  BY <1>1 DEF ProjectsExist, OnceObserved, ObservedOnce
<1> QED BY <1>4, <1>5, <1>6, <1>7, <1>8

(* A batch that is not told anyone yet, without the use or the deletion of *)
(* a project.                                                              *)
LEMMA BatchStored ==
  ASSUME StoreInv, NEW E \in Seq(Event), log' = log \o E,
         \A j \in 1..Len(E) : ~Uses(E[j]) /\ E[j].type # "project_deleted",
         UNCHANGED <<view, revived, backend>>, observed \subseteq observed',
         \A h \in HermesId : \A j \in 1..Len(E) : E[j] = Orbits(h) /\ backend = "sqlite" =>
           j = 1 /\ <<h, 0>> \notin observed /\ <<h, 0>> \in observed'
  PROVE  /\ Grows(log', log, E)
         /\ ShownIsStored' /\ LiveStands' /\ ProjectsExist' /\ OnceObserved'
<1> USE DEF StoreInv
<1>1. log \in Seq(Event) /\ Grows(log', log, E)
  BY AppendGrows DEF StoreTypeOK
<1>2. ShownIsStored'
  BY <1>1, ShownGrows DEF ShownIsStored
<1>3. LiveStands'
  <2>1. ASSUME NEW p \in Live(view) \ revived PROVE Stands(p, log', Len(log'))
    <3>1. Stands(p, log, Len(log)) /\ Len(log) \in 0..Len(log)
      BY <1>1 DEF LiveStands
    <3>2. \A j \in 1..Len(E) : E[j] # ProjectEvent("project_deleted", p)
      BY DEF ProjectEvent
    <3> QED BY <1>1, <3>1, <3>2, StandsGrows
  <2> QED BY <2>1 DEF LiveStands, Live
<1>4. ProjectsExist'
  <2>1. Founded(log, revived)
    BY DEF ProjectsExist, Founded, Uses
  <2>2. Founded(log', revived)
    BY <1>1, <2>1, FoundedGrows
  <2> QED BY <2>2 DEF ProjectsExist, Founded, Uses
<1>5. OnceObserved'
  <2>1. SUFFICES ASSUME backend = "sqlite" PROVE ObservedOnce' /\ Noted(log', observed')
    BY DEF OnceObserved
  <2>2. Noted(log, observed) /\ NotTwice(log)
    BY <2>1 DEF OnceObserved, ObservedOnce, NotTwice, Orbits
  <2>4. \A h \in HermesId : \A j \in 1..Len(E) : E[j] = Orbits(h) =>
          j = 1 /\ <<h, 0>> \notin observed /\ <<h, 0>> \in observed'
    BY <2>1
  <2> HIDE DEF StoreInv
  <2>3. Noted(log', observed') /\ NotTwice(log')
    <3>1. PICK r, q, seen, now : r = log' /\ q = log /\ seen = observed /\ now = observed'
      OBVIOUS
    <3>2. Grows(r, q, E)
      BY ONLY <1>1, <3>1
    <3>3. seen \subseteq now
      BY <3>1
    <3>4. Noted(q, seen) /\ NotTwice(q)
      BY ONLY <2>2, <3>1
    <3>5. \A h \in HermesId : \A j \in 1..Len(E) : E[j] = Orbits(h) =>
            j = 1 /\ <<h, 0>> \notin seen /\ <<h, 0>> \in now
      <4>1. SUFFICES ASSUME NEW h \in HermesId, NEW j \in 1..Len(E), E[j] = Orbits(h)
                     PROVE  j = 1 /\ <<h, 0>> \notin seen /\ <<h, 0>> \in now
        OBVIOUS
      <4>2. j = 1 /\ <<h, 0>> \notin observed /\ <<h, 0>> \in observed'
        BY <2>4, <4>1, Zenon
      <4> QED BY <3>1, <4>2, Zenon
    <3>6. Noted(r, now) /\ NotTwice(r)
      BY ONLY <3>2, <3>3, <3>4, <3>5, NotedGrows
    <3> QED BY <3>1, <3>6
  <2> QED BY <2>3 DEF ObservedOnce, NotTwice, Orbits
<1> QED BY <1>1, <1>2, <1>3, <1>4, <1>5

(* What is shown satisfies what agrees with it.                            *)
LEMMA AgreeIsShown ==
  ASSUME NEW v, NEW e, NEW f, Agree(e, f), IsShown(v, f)
  PROVE  IsShown(v, e)
<1>1. e.type = f.type
  BY DEF Agree
<1>2. ASSUME e.type = "created" PROVE Known(v.sessions, e.session)
  BY <1>1, <1>2 DEF Agree, IsShown
<1>3. ASSUME e.type = "message"
      PROVE  Len(v.hot[e.session]) = Window \/ e.id \in ToSet(v.hot[e.session])
  BY <1>1, <1>3 DEF Agree, IsShown
<1>4. ASSUME e.type = "card_created" PROVE v.cards[e.card].status # None
  BY <1>1, <1>4 DEF Agree, IsShown
<1> QED BY <1>2, <1>3, <1>4 DEF IsShown

LEMMA AgreeIsVouched ==
  ASSUME NEW q, NEW i \in DOMAIN q, NEW f, Agree(q[i], f)
  PROVE  Vouched(f, q)
<1>1. ASSUME f.type = "created" PROVE Creates(q[i], f.session)
  BY <1>1 DEF Agree, Creates
<1>2. ASSUME f.type = "message"
      PROVE  q[i].type = "message" /\ q[i].session = f.session /\ q[i].id = f.id
  BY <1>2 DEF Agree
<1>3. ASSUME f.type \in {"card_created", "project_created"} PROVE q[i] = f
  BY <1>3 DEF Agree
<1> QED BY <1>1, <1>2, <1>3 DEF Vouched

(* What a handler does next: it stores, it fails to, or it shows.          *)
LEMMA StoreStep ==
  ASSUME StoreInv, NEW h \in Handlers, Do(h), Head(handlers[h]).op = "append",
         AppendBatch(Head(handlers[h]).events), handlers' = [handlers EXCEPT ![h] = Tail(handlers[h])],
         UNCHANGED <<view, revived>>
  PROVE  StoreInv'
<1> USE DEF StoreInv
<1> DEFINE steps == handlers[h]
           E == steps[1].events
           rest == SubSeq(steps, 2, Len(steps))
<1>1. /\ UNCHANGED <<view, observed, begun, indexing, late, revived, arrived, backend>>
      /\ handlers \in [Handlers -> Seq(Steps)] /\ steps \in Seq(Steps) /\ steps # <<>>
      /\ begun \in Nat
  BY DEF Do, StoreTypeOK
<1>2. /\ Head(steps) = steps[1] /\ steps[1] \in Steps /\ Len(steps) \in Nat /\ Len(steps) >= 1
      /\ Tail(steps) = rest
  BY <1>1, TailIsSuffix
<1>3. Shape(steps)
  BY DEF Handled
<1>4. E \in Seq(Event) /\ log' = log \o E /\ steps[1].op = "append"
  BY <1>2 DEF Steps, AppendBatch
<1>5. /\ \A n \in DOMAIN E : Plain(E[n])
      /\ 1 < Len(steps) /\ steps[2].op = "apply" /\ Fits(steps[2].events, E)
  <2>1. 1 \in 1..Len(steps)
    BY <1>2
  <2> QED BY <1>3, <1>4, <2>1 DEF Shape
<1>6. /\ rest \in Seq(Steps) /\ Shape(rest) /\ rest # <<>> /\ rest[1] = steps[2]
      /\ handlers' = [handlers EXCEPT ![h] = rest]
  <2>1. /\ rest \in Seq(Steps) /\ Len(rest) = Len(steps) - 1
        /\ \A i \in 1..Len(rest) : rest[i] = steps[i + 2 - 1]
    BY <1>1, <1>2, <1>5, SuffixIs
  <2>2. 1 \in 1..Len(rest)
    BY <1>2, <1>5, <2>1
  <2>3. Shape(rest)
    BY <1>1, <1>3, SuffixShaped
  <2> HIDE DEF rest
  <2>4. rest[1] = steps[2] /\ rest # <<>>
    BY <2>1, <2>2
  <2> QED BY <1>2, <2>1, <2>3, <2>4
<1> HIDE DEF rest, E
<1>7. handlers'[h] = rest /\ \A g \in Handlers : g # h => handlers'[g] = handlers[g]
  BY <1>1, <1>6
<1>8. /\ Grows(log', log, E)
      /\ ShownIsStored' /\ LiveStands' /\ ProjectsExist' /\ OnceObserved'
  <2>1. ASSUME NEW j \in 1..Len(E)
        PROVE  /\ ~Uses(E[j]) /\ E[j].type # "project_deleted"
               /\ \A o \in HermesId : E[j] # Orbits(o)
    <3>1. Plain(E[j])
      BY <1>4, <1>5
    <3> QED BY <3>1 DEF Plain, Uses, Orbits, Message, CardOnly
  <2> QED BY <1>1, <1>4, <2>1, BatchStored
<1>9. StoreTypeOK'
  <2>1. log' \in Seq(Event)
    BY <1>8 DEF Grows
  <2>2. handlers' \in [Handlers -> Seq(Steps)]
    BY <1>1, <1>6
  <2> QED BY <1>1, <2>1, <2>2 DEF StoreTypeOK
<1>10. Handled'
  <2>1. Ready(rest, log')
    <3>1. ASSUME NEW n \in DOMAIN rest[1].events
          PROVE  Vouched(rest[1].events[n], log')
      <4> DEFINE f == rest[1].events[n]
      <4>1. CASE f.type \in ShownTypes
        <5>1. PICK m \in DOMAIN E : Agree(E[m], f)
          BY <1>5, <1>6, <4>1 DEF Fits
        <5>2. Len(log) + m \in DOMAIN log' /\ log'[Len(log) + m] = E[m]
          BY <1>8, <5>1 DEF Grows
        <5> HIDE DEF f
        <5> QED BY <5>1, <5>2, AgreeIsVouched DEF f
      <4>2. CASE f.type \notin ShownTypes
        BY <4>2 DEF Vouched, ShownTypes
      <4> QED BY <4>1, <4>2
    <3> QED BY <3>1 DEF Ready
  <2>2. ASSUME NEW g \in Handlers, g # h PROVE Ready(handlers[g], log')
    <3>1. Ready(handlers[g], log)
      BY DEF Handled
    <3> QED BY <1>8, <3>1, VouchedGrows DEF Ready
  <2>3. h > begun => FALSE
    BY <1>1 DEF Handled
  <2>4. ASSUME NEW g \in Handlers
        PROVE  /\ Shape(handlers'[g]) /\ Ready(handlers'[g], log')
               /\ g > begun' => handlers'[g] = <<>>
    BY <1>1, <1>6, <1>7, <2>1, <2>2, <2>3 DEF Handled
  <2> QED BY <2>4 DEF Handled
<1>11. Covered'
  <2>1. SUFFICES ASSUME indexing # "replay", NEW i \in DOMAIN log', log'[i].type \in ShownTypes,
                        log'[i] \notin late
                 PROVE  IsShown(view, log'[i]) \/ \E g \in Handlers : Pending(handlers'[g], log'[i])
    BY <1>1 DEF Covered
  <2>2. i \in 1..Len(log) \/ \E j \in 1..Len(E) : i = Len(log) + j
    BY <1>8 DEF Grows
  <2>3. CASE i \in 1..Len(log)
    <3>1. i \in DOMAIN log /\ log'[i] = log[i]
      BY <1>8, <2>3 DEF Grows
    <3>2. IsShown(view, log[i]) \/ \E g \in Handlers : Pending(handlers[g], log[i])
      BY <2>1, <3>1 DEF Covered
    <3>3. ~Pending(handlers[h], log[i])
      BY <1>4 DEF Pending, Showing
    <3> QED BY <1>7, <3>1, <3>2, <3>3
  <2>4. CASE \E j \in 1..Len(E) : i = Len(log) + j
    <3>1. PICK j \in DOMAIN E : log'[i] = E[j]
      BY <1>8, <2>4 DEF Grows
    <3>2. PICK n \in DOMAIN rest[1].events : Agree(E[j], rest[1].events[n])
      BY <1>5, <1>6, <2>1, <3>1 DEF Fits
    <3>3. Pending(handlers'[h], log'[i])
      BY <1>5, <1>6, <1>7, <3>1, <3>2 DEF Pending, Showing
    <3> QED BY <3>3
  <2> QED BY <2>2, <2>3, <2>4
<1> QED BY <1>8, <1>9, <1>10, <1>11

LEMMA FailStep ==
  ASSUME StoreInv, NEW h \in Handlers, Do(h), Head(handlers[h]).op = "append",
         LET rest == Tail(handlers[h])
         IN  handlers' = [handlers EXCEPT ![h] =
                            SubSeq(rest, Head(handlers[h]).drops + 1, Len(rest))],
         UNCHANGED <<log, view, revived>>
  PROVE  StoreInv'
<1> USE DEF StoreInv
<1> DEFINE steps == handlers[h]
           d == steps[1].drops
           rest == SubSeq(steps, d + 2, Len(steps))
<1>1. /\ UNCHANGED <<view, observed, begun, indexing, late, revived, arrived, backend>>
      /\ handlers \in [Handlers -> Seq(Steps)] /\ steps \in Seq(Steps) /\ steps # <<>>
      /\ begun \in Nat
  BY DEF Do, StoreTypeOK
<1>2. /\ Head(steps) = steps[1] /\ steps[1] \in Steps /\ Len(steps) \in Nat /\ Len(steps) >= 1
  BY <1>1, TailIsSuffix
<1>3. d \in {0, 1, 3} /\ steps[1].op = "append"
  BY <1>2 DEF Steps
<1>4. handlers' = [handlers EXCEPT ![h] = rest]
  BY <1>1, <1>2, <1>3, TailIsSuffix
<1>5. Shape(steps)
  BY DEF Handled
<1>6. rest \in Seq(Steps) /\ Shape(rest)
  <2>1. d + 2 \in Nat \ {0}
    BY <1>3
  <2> QED BY <1>1, <1>5, <2>1, SuffixIs, SuffixShaped
<1>7. Ready(rest, log)
  <2>1. ASSUME rest # <<>>
        PROVE  rest[1] = steps[d + 2] /\ d + 2 <= Len(steps)
    <3>1. /\ Len(rest) = IF d + 2 <= Len(steps) THEN Len(steps) - (d + 2) + 1 ELSE 0
          /\ \A i \in 1..Len(rest) : rest[i] = steps[i + (d + 2) - 1] /\ i + (d + 2) - 1 \in 1..Len(steps)
      <4>1. d + 2 \in Nat \ {0}
        BY <1>3
      <4> QED BY <1>1, <4>1, SuffixIs
    <3> HIDE DEF rest, d
    <3>2. Len(rest) \in Nat /\ Len(rest) # 0
      BY <1>6, <2>1, EmptySeq
    <3>3. 1 \in 1..Len(rest) /\ 1 + (d + 2) - 1 = d + 2
      BY <1>3, <3>2
    <3> QED BY <1>2, <3>1, <3>2, <3>3
  <2>2. ASSUME rest # <<>> PROVE rest[1].op = "append" \/ Quiet(rest[1].events)
    <3>1. 1 + 1 + d = d + 2 /\ 1 \in 1..Len(steps)
      BY <1>2, <1>3
    <3> HIDE DEF rest
    <3> QED BY <1>3, <1>5, <2>1, <2>2, <3>1 DEF Shape
  <2> HIDE DEF rest
  <2>3. ASSUME Showing(rest), NEW n \in DOMAIN rest[1].events
        PROVE  Vouched(rest[1].events[n], log)
    <3>1. rest[1].events[n].type \notin ShownTypes
      BY <2>2, <2>3 DEF Showing, Quiet
    <3> QED BY <3>1 DEF Vouched, ShownTypes
  <2> QED BY <2>3 DEF Ready
<1> HIDE DEF rest
<1>8. handlers'[h] = rest /\ \A g \in Handlers : g # h => handlers'[g] = handlers[g]
  BY <1>1, <1>4
<1>9. StoreTypeOK'
  BY <1>1, <1>4, <1>6 DEF StoreTypeOK
<1>10. Handled'
  <2>1. h > begun => FALSE
    BY <1>1 DEF Handled
  <2>2. ASSUME NEW g \in Handlers
        PROVE  /\ Shape(handlers'[g]) /\ Ready(handlers'[g], log)
               /\ g > begun' => handlers'[g] = <<>>
    BY <1>1, <1>6, <1>7, <1>8, <2>1 DEF Handled
  <2> QED BY <1>1, <2>2 DEF Handled
<1>11. Covered'
  <2>1. ASSUME NEW g \in Handlers, NEW e, Pending(handlers[g], e)
        PROVE  Pending(handlers'[g], e)
    <3>1. g # h
      BY <1>3, <2>1 DEF Pending, Showing
    <3> QED BY <1>8, <2>1, <3>1
  <2> QED BY <1>1, <2>1 DEF Covered
<1>12. ShownIsStored' /\ LiveStands' /\ ProjectsExist' /\ OnceObserved'
  <2>1. ShownIsStored' /\ LiveStands'
    BY <1>1 DEF ShownIsStored, LiveStands
  <2>2. ProjectsExist' /\ OnceObserved'
    BY <1>1 DEF ProjectsExist, OnceObserved, ObservedOnce
  <2> QED BY <2>1, <2>2
<1> QED BY <1>9, <1>10, <1>11, <1>12

LEMMA ShowStep ==
  ASSUME StoreInv, NEW h \in Handlers, Do(h), Head(handlers[h]).op = "apply",
         view' = ShowAll(view, Head(handlers[h]).events),
         handlers' = [handlers EXCEPT ![h] = Tail(handlers[h])],
         revived' = revived \cup Revives(Head(handlers[h]).events),
         log' = log
  PROVE  StoreInv'
<1> USE DEF StoreInv
<1> DEFINE steps == handlers[h]
           F == steps[1].events
           rest == SubSeq(steps, 2, Len(steps))
<1>1. /\ UNCHANGED <<observed, begun, indexing, late, arrived, backend>>
      /\ handlers \in [Handlers -> Seq(Steps)] /\ steps \in Seq(Steps) /\ steps # <<>>
      /\ begun \in Nat /\ log \in Seq(Event) /\ view \in Views
  BY DEF Do, StoreTypeOK
<1>2. /\ Head(steps) = steps[1] /\ steps[1] \in Steps /\ Len(steps) \in Nat /\ Len(steps) >= 1
      /\ Tail(steps) = rest
  BY <1>1, TailIsSuffix
<1>3. F \in Seq(Event) /\ steps[1].op = "apply" /\ view' = ShowAll(view, F)
  BY <1>2 DEF Steps
<1>4. handlers' = [handlers EXCEPT ![h] = rest] /\ Shape(steps)
  BY <1>2 DEF Handled
<1>5. \A n \in 1..Len(F) : Vouched(F[n], log)
  <2>1. Showing(steps) /\ Ready(steps, log)
    BY <1>1, <1>3 DEF Showing, Handled
  <2>2. DOMAIN F = 1..Len(F)
    BY <1>3
  <2> QED BY <2>1, <2>2 DEF Ready
<1>6. rest \in Seq(Steps) /\ Shape(rest) /\ ~Showing(rest)
  <2>1. /\ rest \in Seq(Steps) /\ Shape(rest)
        /\ Len(rest) = IF 2 <= Len(steps) THEN Len(steps) - 2 + 1 ELSE 0
        /\ \A i \in 1..Len(rest) : rest[i] = steps[i + 2 - 1]
    BY <1>1, <1>4, SuffixIs, SuffixShaped
  <2>2. ASSUME rest # <<>> PROVE rest[1].op = "append"
    <3> HIDE DEF rest
    <3>1. Len(rest) \in Nat /\ Len(rest) # 0
      BY <2>1, <2>2, EmptySeq
    <3>2. 1 \in 1..Len(rest) /\ 1 + 2 - 1 = 2 /\ 2 <= Len(steps) /\ 1 \in 1..Len(steps)
      BY <1>2, <2>1, <3>1
    <3>3. rest[1] = steps[2]
      BY <2>1, <3>2
    <3> QED BY <1>2, <1>3, <1>4, <3>2, <3>3 DEF Shape
  <2> QED BY <2>1, <2>2 DEF Showing
<1> HIDE DEF rest, F
<1>7. handlers'[h] = rest /\ \A g \in Handlers : g # h => handlers'[g] = handlers[g]
  BY <1>1, <1>4
<1>8. StoreTypeOK'
  <2>1. view' \in Views
    BY <1>1, <1>3, AllTyped
  <2>2. handlers' \in [Handlers -> Seq(Steps)]
    BY <1>1, <1>4, <1>6
  <2> QED BY <1>1, <2>1, <2>2 DEF StoreTypeOK
<1>9. Handled'
  <2>1. h > begun => FALSE
    BY <1>1 DEF Handled
  <2>2. ASSUME NEW g \in Handlers
        PROVE  /\ Shape(handlers'[g]) /\ Ready(handlers'[g], log)
               /\ g > begun' => handlers'[g] = <<>>
    BY <1>1, <1>6, <1>7, <2>1 DEF Handled, Ready
  <2> QED BY <1>1, <2>2 DEF Handled
<1>10. ShownIsStored'
  <2>1. ShownIsIn(view, log)
    BY DEF ShownIsStored
  <2>2. ShownIsIn(ShowAll(view, F), log)
    BY <1>1, <1>3, <1>5, <2>1, AllStayInLog
  <2> QED BY <1>3, <2>2 DEF ShownIsStored
<1>11. Covered'
  <2>1. SUFFICES ASSUME indexing # "replay", NEW i \in DOMAIN log, log[i].type \in ShownTypes,
                        log[i] \notin late
                 PROVE  IsShown(view', log[i]) \/ \E g \in Handlers : Pending(handlers'[g], log[i])
    BY <1>1 DEF Covered
  <2>2. log[i] \in Event
    BY <1>1
  <2>3. \/ IsShown(view, log[i])
        \/ Pending(handlers[h], log[i])
        \/ \E g \in Handlers : g # h /\ Pending(handlers[g], log[i])
    BY <2>1 DEF Covered
  <2>4. CASE IsShown(view, log[i])
    BY <1>1, <1>3, <2>2, <2>4, AllAreShown
  <2>5. CASE Pending(handlers[h], log[i])
    <3>1. PICK n \in 1..Len(F) : Agree(log[i], F[n])
      BY <1>3, <2>5 DEF Pending, F
    <3>2. IsShown(view', F[n])
      BY <1>1, <1>3, AllAreShown
    <3> QED BY <3>1, <3>2, AgreeIsShown
  <2>6. CASE \E g \in Handlers : g # h /\ Pending(handlers[g], log[i])
    BY <1>7, <2>6
  <2> QED BY <2>3, <2>4, <2>5, <2>6
<1>12. LiveStands'
  <2>1. ASSUME NEW p \in Live(ShowAll(view, F)), p \notin revived'
        PROVE  Stands(p, log, Len(log))
    <3>1. Stands(p, F, Len(F)) \/ p \in Live(view)
      BY <1>1, <1>3, AllLive
    <3>2. CASE p \in Live(view)
      BY <2>1, <3>2 DEF LiveStands
    <3>3. CASE Stands(p, F, Len(F))
      <4>1. PICK j \in 1..Len(F) : F[j] = ProjectEvent("project_created", p)
        BY <3>3 DEF Stands
      <4>2. F[j].type = "project_created"
        BY <4>1 DEF ProjectEvent
      <4>3. PICK i \in DOMAIN log : log[i] = F[j]
        BY <1>5, <4>2 DEF Vouched
      <4>4. p \in Project /\ ProjectEvent("project_created", p) \in ToSet(F)
        BY <1>3, <4>1 DEF Live, ToSet
      <4>5. ProjectEvent("project_deleted", p) \notin ToSet(log)
        BY <1>2, <2>1, <4>4 DEF Revives, F
      <4>6. DOMAIN log = 1..Len(log) /\ Len(log) \in Nat
        BY <1>1
      <4>7. \A l \in i..Len(log) : log[l] # ProjectEvent("project_deleted", p)
        BY <4>3, <4>5, <4>6 DEF ToSet
      <4> QED BY <4>1, <4>3, <4>6, <4>7 DEF Stands
    <3> QED BY <3>1, <3>2, <3>3
  <2> QED BY <1>3, <2>1 DEF LiveStands, Live
<1>13. ProjectsExist' /\ OnceObserved'
  <2>1. revived \subseteq revived'
    OBVIOUS
  <2>2. ProjectsExist'
    BY <2>1 DEF ProjectsExist
  <2>3. OnceObserved'
    BY <1>1 DEF OnceObserved, ObservedOnce
  <2> QED BY <2>2, <2>3
<1> QED BY <1>8, <1>9, <1>10, <1>11, <1>12, <1>13

LEMMA DoStep ==
  ASSUME StoreInv, NEW h \in Handlers, Do(h)
  PROVE  StoreInv'
<1> DEFINE step == Head(handlers[h])
           rest == Tail(handlers[h])
<1>1. CASE /\ step.op = "append" /\ AppendBatch(step.events)
           /\ handlers' = [handlers EXCEPT ![h] = rest] /\ UNCHANGED <<view, calm, revived>>
  BY <1>1, StoreStep
<1>2. CASE /\ step.op = "append"
           /\ handlers' = [handlers EXCEPT ![h] = SubSeq(rest, step.drops + 1, Len(rest))]
           /\ UNCHANGED <<log, rows, view, revived>>
  BY <1>2, FailStep
<1>3. CASE /\ step.op = "apply" /\ view' = ShowAll(view, step.events)
           /\ handlers' = [handlers EXCEPT ![h] = rest]
           /\ revived' = revived \cup Revives(step.events)
           /\ UNCHANGED <<log, rows, calm>>
  BY <1>3, ShowStep
<1> QED BY <1>1, <1>2, <1>3 DEF Do

(* What a handler does under the views' lock.                              *)
LEMMA LockedStep ==
  ASSUME StoreInv, NEW e \in Event, Locked(e), e.type \notin ShownTypes,
         Uses(e) => e.project \in Live(view)
  PROVE  StoreInv'
<1> USE DEF StoreInv
<1> DEFINE E == <<e>>
<1>1. /\ UNCHANGED <<handlers, observed, indexing, late, revived, arrived, backend>>
      /\ handlers \in [Handlers -> Seq(Steps)] /\ begun \in Nat /\ begun' = begun + 1
      /\ log \in Seq(Event) /\ view \in Views /\ view' = ApplyView(view, e) /\ view' \in Views
  BY ViewAfter DEF Locked, StoreTypeOK
<1>2. /\ E \in Seq(Event) /\ log' = log \o E /\ Len(E) = 1 /\ E[1] = e
      /\ \A j \in 1..Len(E) : j = 1
  BY DEF Locked, AppendBatch
<1> HIDE DEF E
<1>3. Grows(log', log, E)
  BY <1>1, <1>2, AppendGrows
<1>4. StoreTypeOK'
  BY <1>1, <1>3 DEF StoreTypeOK, Grows
<1>5. Handled'
  <2>1. ASSUME NEW g \in Handlers
        PROVE  /\ Shape(handlers[g]) /\ Ready(handlers[g], log')
               /\ g > begun' => handlers[g] = <<>>
    <3>1. g > begun' => g > begun
      BY <1>1 DEF Handlers
    <3>2. Ready(handlers[g], log)
      BY DEF Handled
    <3>3. Ready(handlers[g], log')
      BY <1>3, <3>2, VouchedGrows DEF Ready
    <3> QED BY <3>1, <3>3 DEF Handled
  <2> QED BY <1>1, <2>1 DEF Handled
<1>6. ShownIsStored'
  <2>1. ShownIsIn(view, log')
    BY <1>3, ShownGrows DEF ShownIsStored
  <2>2. Vouched(e, log')
    BY DEF Vouched, ShownTypes
  <2>3. ShownIsIn(ApplyView(view, e), log')
    BY <1>1, <2>1, <2>2, StaysInLog
  <2> QED BY <1>1, <2>3 DEF ShownIsStored
<1>7. Covered'
  <2>1. SUFFICES ASSUME indexing # "replay", NEW i \in DOMAIN log', log'[i].type \in ShownTypes,
                        log'[i] \notin late
                 PROVE  IsShown(view', log'[i]) \/ \E g \in Handlers : Pending(handlers[g], log'[i])
    BY <1>1 DEF Covered
  <2>2. i \in DOMAIN log /\ log'[i] = log[i]
    BY <1>2, <1>3, <2>1 DEF Grows
  <2>3. log[i] \in Event
    BY <1>1, <2>2
  <2>4. IsShown(view, log[i]) \/ \E g \in Handlers : Pending(handlers[g], log[i])
    BY <2>1, <2>2 DEF Covered
  <2>5. IsShown(view, log[i]) => IsShown(view', log[i])
    BY <1>1, <2>3, AppliedIsShown
  <2> QED BY <2>2, <2>4, <2>5
<1>8. LiveStands'
  <2>1. ASSUME NEW p \in Live(ApplyView(view, e)), p \notin revived
        PROVE  Stands(p, log', Len(log'))
    <3>1. e # ProjectEvent("project_created", p)
      BY DEF ProjectEvent, ShownTypes
    <3>2. p \in Live(view) /\ e # ProjectEvent("project_deleted", p)
      BY <1>1, <3>1, LiveAfter
    <3>3. Stands(p, log, Len(log)) /\ Len(log) \in 0..Len(log)
      BY <1>1, <2>1, <3>2 DEF LiveStands
    <3>4. \A j \in 1..Len(E) : E[j] # ProjectEvent("project_deleted", p)
      BY <1>2, <3>2
    <3> QED BY <1>3, <3>3, <3>4, StandsGrows
  <2> QED BY <1>1, <2>1 DEF LiveStands, Live
<1>9. ProjectsExist'
  <2>1. Founded(log, revived)
    BY DEF ProjectsExist, Founded, Uses
  <2>2. \A j \in 1..Len(E) : Uses(E[j]) /\ E[j].project \notin revived =>
          j = 1 /\ Stands(E[j].project, log, Len(log))
    BY <1>2 DEF LiveStands
  <2>3. Founded(log', revived)
    BY <1>3, <2>1, <2>2, FoundedGrows
  <2> QED BY <1>1, <2>3 DEF ProjectsExist, Founded, Uses
<1>10. OnceObserved'
  <2>1. SUFFICES ASSUME backend = "sqlite" PROVE ObservedOnce' /\ Noted(log', observed)
    BY <1>1 DEF OnceObserved
  <2>2. Noted(log, observed) /\ NotTwice(log)
    BY <2>1 DEF OnceObserved, ObservedOnce, NotTwice, Orbits
  <2>3. \A h \in HermesId : \A j \in 1..Len(E) : E[j] # Orbits(h)
    <3>1. \A h \in HermesId : Orbits(h).type \in ShownTypes
      BY DEF Orbits, Message, ShownTypes
    <3> QED BY <1>2, <3>1
  <2>4. Noted(log', observed) /\ NotTwice(log')
    <3>1. PICK r, q, seen : r = log' /\ q = log /\ seen = observed
      OBVIOUS
    <3>2. Grows(r, q, E) /\ Noted(q, seen) /\ NotTwice(q) /\ seen \subseteq seen
      BY <1>3, <2>2, <3>1
    <3>3. Noted(r, seen) /\ NotTwice(r)
      BY <2>3, <3>2, NotedGrows
    <3> QED BY <3>1, <3>3
  <2> QED BY <2>4 DEF ObservedOnce, NotTwice, Orbits
<1> QED BY <1>4, <1>5, <1>6, <1>7, <1>8, <1>9, <1>10

LEMMA ObserveStep ==
  ASSUME StoreInv, NEW h \in HermesId, NEW id \in {Itself, 0}, Observe(h, id)
  PROVE  StoreInv'
<1> USE DEF StoreInv
<1> DEFINE e == ObservedEvent(h, id)
           E == <<e>>
<1>1. /\ UNCHANGED <<view, handlers, begun, indexing, revived, backend>>
      /\ arrived' = arrived + 1 /\ observed' = observed \cup Observes(h, id)
      /\ log \in Seq(Event) /\ begun \in Nat /\ arrived \in Nat
  BY DEF Observe, StoreTypeOK
<1>2. CASE ~IsNew(h, id)
  <2>1. UNCHANGED <<log, late>>
    BY <1>2 DEF Observe
  <2>2. StoreTypeOK'
    BY <1>1, <2>1 DEF StoreTypeOK
  <2>3. Handled' /\ ShownIsStored'
    BY <1>1, <2>1 DEF Handled, ShownIsStored
  <2>4. Covered' /\ LiveStands' /\ ProjectsExist'
    BY <1>1, <2>1 DEF Covered, LiveStands, ProjectsExist
  <2>5. OnceObserved'
    BY <1>1, <2>1 DEF OnceObserved, ObservedOnce, Noted
  <2> QED BY <2>2, <2>3, <2>4, <2>5
<1>3. CASE IsNew(h, id)
  <2>1. e \in Event /\ ~Uses(e) /\ e.type # "project_deleted"
    <3>1. h \in Session
      BY DEF Session
    <3>2. e \in Event
      <4>1. 0 \in Int /\ "orbit" \in {"axis", "orbit"} /\ "cli" \in {"stellarc", "cli"}
        OBVIOUS
      <4>2. Created(h, "cli", TRUE) \in Event /\ Message(h, 0, "orbit") \in Event
        BY <3>1, <4>1, EventsTyped
      <4> QED BY <4>2 DEF ObservedEvent, Itself
    <3>3. e.type \in {"created", "message"}
      BY DEF ObservedEvent, Created, Message
    <3> QED BY <3>2, <3>3 DEF Uses
  <2>2. log' = log \o E /\ late' = late \cup {e}
    BY <1>3 DEF Observe, AppendBatch
  <2>3. ASSUME NEW o \in HermesId, e = Orbits(o), backend = "sqlite"
        PROVE  <<o, 0>> \notin observed /\ <<o, 0>> \in observed'
    <3>1. id = 0
      <4>1. e.type = "message"
        BY <2>3 DEF Orbits, Message
      <4> QED BY <4>1 DEF ObservedEvent, Created
    <3>2. o = h
      <4>1. Orbits(o).session = o
        BY DEF Orbits, Message
      <4>2. e.session = h
        BY <3>1 DEF ObservedEvent, Message, Itself
      <4> QED BY <2>3, <4>1, <4>2
    <3>3. <<h, 0>> \notin observed
      BY <1>3, <3>1 DEF IsNew, Itself
    <3>4. <<h, 0>> \in Observes(h, id)
      BY <3>1 DEF Observes
    <3> QED BY <1>1, <3>2, <3>3, <3>4
  <2>4. E \in Seq(Event) /\ Len(E) = 1 /\ E[1] = e /\ \A j \in 1..Len(E) : j = 1
    BY <2>1
  <2> HIDE DEF e, E
  <2>5. /\ Grows(log', log, E)
        /\ ShownIsStored' /\ LiveStands' /\ ProjectsExist' /\ OnceObserved'
    <3>1. \A j \in 1..Len(E) : ~Uses(E[j]) /\ E[j].type # "project_deleted"
      BY <2>1, <2>4
    <3>2. observed \subseteq observed'
      BY <1>1
    <3>3. \A o \in HermesId : \A j \in 1..Len(E) : E[j] = Orbits(o) /\ backend = "sqlite" =>
            j = 1 /\ <<o, 0>> \notin observed /\ <<o, 0>> \in observed'
      BY <2>3, <2>4
    <3> QED BY <1>1, <2>2, <2>4, <3>1, <3>2, <3>3, BatchStored
  <2>6. StoreTypeOK'
    BY <1>1, <2>5 DEF StoreTypeOK, Grows
  <2>7. Handled'
    <3>1. ASSUME NEW g \in Handlers PROVE Ready(handlers[g], log')
      <4>1. Ready(handlers[g], log)
        BY DEF Handled
      <4> QED BY <2>5, <4>1, VouchedGrows DEF Ready
    <3> QED BY <1>1, <3>1 DEF Handled
  <2>8. Covered'
    <3>1. SUFFICES ASSUME indexing # "replay", NEW i \in DOMAIN log', log'[i].type \in ShownTypes,
                          log'[i] \notin late'
                   PROVE  IsShown(view, log'[i]) \/ \E g \in Handlers : Pending(handlers[g], log'[i])
      BY <1>1 DEF Covered
    <3>2. i \in DOMAIN log /\ log'[i] = log[i] /\ log[i] \notin late
      BY <2>2, <2>4, <2>5, <3>1 DEF Grows
    <3> QED BY <3>1, <3>2 DEF Covered
  <2> QED BY <2>5, <2>6, <2>7, <2>8
<1> QED BY <1>2, <1>3

LEMMA ImportStep ==
  ASSUME StoreInv, Import
  PROVE  StoreInv'
<1> USE DEF StoreInv
<1> DEFINE all == SetToSeq(HermesId)
           E == [i \in DOMAIN all |-> Created(all[i], "cli", TRUE)]
<1>1. /\ UNCHANGED <<view, observed, handlers, begun, late, revived, arrived, backend>>
      /\ log \in Seq(Event) /\ indexing = "import"
  BY DEF Import, StoreTypeOK
<1>2. CASE UNCHANGED log
  <2>1. StoreTypeOK' /\ Handled' /\ ShownIsStored'
    BY <1>1, <1>2 DEF StoreTypeOK, Handled, ShownIsStored
  <2>2. Covered' /\ LiveStands' /\ ProjectsExist'
    BY <1>1, <1>2 DEF Covered, LiveStands, ProjectsExist
  <2>3. OnceObserved'
    BY <1>1, <1>2 DEF OnceObserved, ObservedOnce
  <2> QED BY <2>1, <2>2, <2>3
<1>3. CASE log' = log \o E /\ indexing' = "replay"
  <2>1. all \in Seq(HermesId)
    BY SetToSeqTyped DEF StoreAssumption
  <2> HIDE DEF all
  <2>2. /\ E \in Seq(Event)
        /\ \A j \in 1..Len(E) : E[j].type = "created"
    <3>1. \A x \in HermesId : Created(x, "cli", TRUE) \in Event
      <4>1. "cli" \in {"stellarc", "cli"} /\ \A x \in HermesId : x \in Session
        BY DEF Session
      <4> QED BY <4>1, EventsTyped
    <3>2. Len(all) \in Nat /\ \A i \in 1..Len(all) : all[i] \in HermesId
      BY <2>1
    <3>3. E = [i \in 1..Len(all) |-> Created(all[i], "cli", TRUE)]
      BY <2>1
    <3>4. \A i \in 1..Len(all) : Created(all[i], "cli", TRUE) \in Event
      BY <3>1, <3>2
    <3>5. E \in [1..Len(all) -> Event]
      BY <3>3, <3>4
    <3>6. E \in Seq(Event) /\ Len(E) = Len(all)
      <4> HIDE DEF E
      <4> QED BY <3>2, <3>5
    <3>7. \A x : Created(x, "cli", TRUE).type = "created"
      BY DEF Created
    <3>8. ASSUME NEW j \in 1..Len(all) PROVE E[j].type = "created"
      <4>1. E[j] = Created(all[j], "cli", TRUE)
        BY <3>3
      <4> HIDE DEF E
      <4> QED BY <3>7, <4>1
    <3> HIDE DEF E
    <3> QED BY <3>6, <3>8
  <2> HIDE DEF E
  <2>3. /\ Grows(log', log, E)
        /\ ShownIsStored' /\ LiveStands' /\ ProjectsExist' /\ OnceObserved'
    <3>1. ASSUME NEW j \in 1..Len(E)
          PROVE  ~Uses(E[j]) /\ E[j].type # "project_deleted" /\ \A o \in HermesId : E[j] # Orbits(o)
      <4>1. E[j].type = "created"
        BY <2>2
      <4> QED BY <4>1 DEF Uses, Orbits, Message
    <3> QED BY <1>1, <1>3, <2>2, <3>1, BatchStored
  <2>4. StoreTypeOK'
    BY <1>1, <2>3 DEF StoreTypeOK, Grows
  <2>5. Handled'
    <3>1. ASSUME NEW g \in Handlers PROVE Ready(handlers[g], log')
      <4>1. Ready(handlers[g], log)
        BY DEF Handled
      <4> QED BY <2>3, <4>1, VouchedGrows DEF Ready
    <3> QED BY <1>1, <3>1 DEF Handled
  <2>6. Covered'
    BY <1>3 DEF Covered
  <2> QED BY <2>3, <2>4, <2>5, <2>6
<1> QED BY <1>2, <1>3 DEF Import, AppendBatch

(* A replay shows what is in the log and nothing else.                     *)
LEMMA ReplayIs ==
  ASSUME NEW q \in Seq(Event)
  PROVE  /\ Replay(q) \in Views /\ ShownIsIn(Replay(q), q)
         /\ \A i \in DOMAIN q : IsShown(Replay(q), q[i])
         /\ \A p \in Live(Replay(q)) : Stands(p, q, Len(q))
<1>1. Empty \in Views /\ Live(Empty) = {} /\ ShownIsIn(Empty, q) /\ Replay(q) = ShowAll(Empty, q)
  BY EmptyTyped DEF Replay
<1>2. DOMAIN q = 1..Len(q)
  OBVIOUS
<1>3. ASSUME NEW i \in 1..Len(q) PROVE Vouched(q[i], q)
  <2>1. q[i] \in Event
    OBVIOUS
  <2>2. Agree(q[i], q[i])
    BY DEF Agree
  <2> QED BY <1>2, <2>2, AgreeIsVouched
<1>4. Replay(q) \in Views
  BY <1>1, AllTyped
<1>5. ShownIsIn(Replay(q), q)
  BY <1>1, <1>3, AllStayInLog
<1>6. \A i \in DOMAIN q : IsShown(Replay(q), q[i])
  BY <1>1, <1>2, AllAreShown
<1>7. ASSUME NEW p \in Live(ShowAll(Empty, q)) PROVE Stands(p, q, Len(q))
  BY <1>1, AllLive
<1> QED BY <1>1, <1>4, <1>5, <1>6, <1>7

LEMMA ReindexStep ==
  ASSUME StoreInv, Reindex
  PROVE  StoreInv'
<1> USE DEF StoreInv
<1>1. /\ UNCHANGED <<log, observed, handlers, begun, revived, arrived, backend>>
      /\ view' = Replay(log) /\ log \in Seq(Event)
  BY DEF Reindex, StoreTypeOK
<1>2. /\ Replay(log) \in Views /\ ShownIsIn(Replay(log), log)
      /\ \A i \in DOMAIN log : IsShown(Replay(log), log[i])
      /\ \A p \in Live(Replay(log)) : Stands(p, log, Len(log))
  BY <1>1, ReplayIs
<1>3. StoreTypeOK' /\ Handled'
  BY <1>1, <1>2 DEF StoreTypeOK, Handled
<1>4. ShownIsStored' /\ LiveStands'
  BY <1>1, <1>2 DEF ShownIsStored, LiveStands, Live
<1>5. Covered'
  BY <1>1, <1>2 DEF Covered
<1>6. ProjectsExist' /\ OnceObserved'
  BY <1>1 DEF ProjectsExist, OnceObserved, ObservedOnce
<1> QED BY <1>3, <1>4, <1>5, <1>6

LEMMA RetainedSound ==
  ASSUME NEW q \in Seq(Event), NEW C, None \in C, NEW P, NEW seen,
         Founded(q, P), Noted(q, seen), NotTwice(q)
  PROVE  /\ Retained(q, C) \in Seq(Event) /\ Founded(Retained(q, C), P)
         /\ Noted(Retained(q, C), seen) /\ NotTwice(Retained(q, C))
<1> DEFINE r == Retained(q, C)
<1>1. PICK at : Places(at, r, q, C, Len(q))
  BY RetainedIs
<1> HIDE DEF r
<1>2. /\ r \in Seq(Event) /\ at \in [1..Len(r) -> 1..Len(q)]
      /\ \A i \in 1..Len(r) : r[i] = q[at[i]]
      /\ \A i, j \in 1..Len(r) : i < j => at[i] < at[j]
      /\ \A l \in 1..Len(q) : Column(q[l]) \in C => \E i \in 1..Len(r) : at[i] = l
  BY <1>1 DEF Places
<1>3. /\ DOMAIN q = 1..Len(q) /\ DOMAIN r = 1..Len(r) /\ Len(q) \in Nat /\ Len(r) \in Nat
      /\ \A i \in 1..Len(r) : at[i] \in 1..Len(q)
  BY <1>2
<1>4. \A i, j \in 1..Len(r) : at[i] < at[j] => i < j
  <2>1. ASSUME NEW i \in 1..Len(r), NEW j \in 1..Len(r), at[i] < at[j] PROVE i < j
    <3>1. i < j \/ i = j \/ j < i
      BY <1>3
    <3>2. j < i => at[j] < at[i]
      BY <1>2
    <3> QED BY <1>3, <2>1, <3>1, <3>2
  <2> QED BY <2>1
<1>5. Noted(r, seen)
  BY <1>2, <1>3 DEF Noted
<1>6. NotTwice(r)
  <2>1. ASSUME NEW h \in HermesId, NEW i \in 1..Len(r), NEW j \in 1..Len(r),
               r[i] = Orbits(h), r[j] = Orbits(h)
        PROVE  i = j
    <3>1. at[i] = at[j]
      BY <1>2, <1>3, <2>1 DEF NotTwice
    <3>2. i < j \/ i = j \/ j < i
      BY <1>3
    <3> QED BY <1>2, <1>3, <3>1, <3>2
  <2> QED BY <1>3, <2>1 DEF NotTwice
<1>7. Founded(r, P)
  <2>1. SUFFICES ASSUME NEW i \in 1..Len(r), Uses(r[i]), r[i].project \notin P
                 PROVE  Stands(r[i].project, r, i - 1)
    BY <1>3 DEF Founded
  <2> DEFINE p == r[i].project
  <2>2. Stands(p, q, at[i] - 1)
    BY <1>2, <1>3, <2>1 DEF Founded
  <2> HIDE DEF p
  <2>3. PICK j \in 1..(at[i] - 1) :
          /\ q[j] = ProjectEvent("project_created", p)
          /\ \A l \in j..(at[i] - 1) : q[l] # ProjectEvent("project_deleted", p)
    BY <2>2 DEF Stands
  <2>4. j \in 1..Len(q) /\ j < at[i]
    BY <1>3
  <2>5. Column(q[j]) \in C
    BY <2>3 DEF Column, ProjectEvent, ProjectOnly
  <2>6. PICK k \in 1..Len(r) : at[k] = j
    BY <1>2, <2>4, <2>5
  <2>7. k < i
    BY <1>4, <2>4, <2>6
  <2>8. ASSUME NEW l \in k..(i - 1) PROVE r[l] # ProjectEvent("project_deleted", p)
    <3>1. l \in 1..Len(r) /\ l < i /\ (k < l \/ k = l)
      BY <1>3, <2>7
    <3>2. at[l] < at[i] /\ (at[k] < at[l] \/ at[k] = at[l])
      BY <1>2, <3>1
    <3>3. at[l] \in j..(at[i] - 1)
      BY <1>3, <2>6, <3>1, <3>2
    <3> QED BY <1>2, <2>3, <3>1, <3>3
  <2>9. k \in 1..(i - 1) /\ r[k] = ProjectEvent("project_created", p)
    BY <1>2, <1>3, <2>3, <2>6, <2>7
  <2> QED BY <2>8, <2>9 DEF Stands, p
<1> QED BY <1>2, <1>5, <1>6, <1>7 DEF r

LEMMA BootStep ==
  ASSUME StoreInv, Boot
  PROVE  StoreInv'
<1> USE DEF StoreInv
<1>1. /\ UNCHANGED <<begun, revived, arrived, backend>>
      /\ view' = Replay(log') /\ handlers' = [h \in Handlers |-> <<>>] /\ late' = {}
      /\ log \in Seq(Event) /\ backend \in {"sqlite", "postgres"} /\ begun \in Nat
  BY DEF Boot, StoreTypeOK
<1>2. Founded(log, revived)
  BY DEF ProjectsExist, Founded, Uses
<1>3. /\ log' \in Seq(Event) /\ Founded(log', revived)
      /\ backend = "sqlite" => Noted(log', observed') /\ NotTwice(log')
  <2>1. CASE backend = "sqlite"
    <3>1. log' = Retained(log, Native \cup {None}) /\ observed' = observed
      BY <2>1 DEF Boot, RetainSqlite
    <3>2. Noted(log, observed) /\ NotTwice(log)
      BY <2>1 DEF OnceObserved, ObservedOnce, NotTwice, Orbits
    <3>3. None \in Native \cup {None}
      OBVIOUS
    <3> QED BY <1>1, <1>2, <3>1, <3>2, <3>3, RetainedSound
  <2>2. CASE backend # "sqlite"
    BY <1>1, <1>2, <2>2 DEF Boot, RetainPostgres
  <2> QED BY <2>1, <2>2
<1>4. /\ view' \in Views /\ ShownIsIn(view', log')
      /\ \A i \in DOMAIN log' : IsShown(view', log'[i])
      /\ \A p \in Live(view') : Stands(p, log', Len(log'))
  BY <1>1, <1>3, ReplayIs
<1>5. StoreTypeOK'
  <2>1. handlers' \in [Handlers -> Seq(Steps)]
    <3>1. <<>> \in Seq(Steps)
      OBVIOUS
    <3> QED BY <1>1, <3>1
  <2> QED BY <1>1, <1>3, <1>4, <2>1 DEF StoreTypeOK
<1>6. Handled'
  <2>1. \A h \in Handlers : handlers'[h] = <<>>
    BY <1>1
  <2>2. \A q : Shape(<<>>) /\ Ready(<<>>, q)
    BY DEF Shape, Ready, Showing
  <2> QED BY <2>1, <2>2 DEF Handled
<1>7. ShownIsStored' /\ LiveStands'
  BY <1>4 DEF ShownIsStored, LiveStands, Live
<1>8. Covered'
  BY <1>4 DEF Covered
<1>9. ProjectsExist'
  BY <1>1, <1>3 DEF ProjectsExist, Founded, Uses
<1>10. OnceObserved'
  BY <1>1, <1>3 DEF OnceObserved, ObservedOnce, NotTwice, Orbits
<1> QED BY <1>5, <1>6, <1>7, <1>8, <1>9, <1>10

(* The events of a handler's that need nobody's lock.                      *)
LEMMA PlainEvents ==
  /\ \A s, source, b : Plain(Created(s, source, b))
  /\ \A s : Plain(Archived(s)) /\ Archived(s).type \notin ShownTypes
  /\ \A s, id : Plain(Message(s, id, "axis"))
  /\ \A s, k : Plain(Linked(s, k)) /\ Linked(s, k).type \notin ShownTypes /\ Plain(Assigned(k, s))
  /\ \A k, s, r : Plain(Reassigned(k, s, r))
  /\ \A k, type : type \in CardOnly => Plain(CardEvent(type, k))
  /\ \A p : Plain(ProjectEvent("project_created", p))
BY DEF Plain, ShownTypes, Created, Archived, Message, Linked, Assigned, Reassigned, CardEvent,
       ProjectEvent, CardOnly

LEMMA HandlersBegin ==
  ASSUME StoreInv,
         \/ CreateSession \/ PostMessage \/ ArchiveSession \/ CreateSubsession \/ HandoverSession
         \/ CompleteSession \/ CardHandler \/ AssignCard \/ ReassignCard \/ CreateProject
  PROVE  \E steps : Begins(steps) /\ Begin(steps)
<1>0. view \in Views
  BY DEF StoreInv, StoreTypeOK
<1>1. CASE CreateSession
  <2>1. PICK s \in Session : Begin(Shown(Created(s, "stellarc", FALSE)))
    BY <1>1 DEF CreateSession
  <2>2. "stellarc" \in {"stellarc", "cli"} /\ FALSE \in BOOLEAN
    OBVIOUS
  <2>3. Begins(Shown(Created(s, "stellarc", FALSE)))
    BY <2>2, EventsTyped, PlainEvents, ShownBegins
  <2> QED BY <2>1, <2>3
<1>2. ASSUME NEW s \in Session
      PROVE  /\ Message(s, NextId(s), "axis") \in Event
             /\ Plain(Message(s, NextId(s), "axis"))
  <2>1. NextId(s) \in Int /\ "axis" \in {"axis", "orbit"}
    BY <1>0, NextIdTyped
  <2> QED BY <2>1, EventsTyped, PlainEvents
<1>3. CASE PostMessage
  <2>1. PICK s \in Session : Begin(Shown(Message(s, NextId(s), "axis")))
    BY <1>3 DEF PostMessage, PostSteps
  <2>2. Begins(Shown(Message(s, NextId(s), "axis")))
    BY <1>2, ShownBegins
  <2> QED BY <2>1, <2>2
<1>4. CASE ArchiveSession
  <2>1. PICK s \in Session : Begin(Shown(Archived(s)))
    BY <1>4 DEF ArchiveSession
  <2>2. Begins(Shown(Archived(s)))
    BY EventsTyped, PlainEvents, ShownBegins
  <2> QED BY <2>1, <2>2
<1>5. CASE CreateSubsession
  BY <1>5, ForkBegins DEF CreateSubsession
<1>6. CASE HandoverSession
  <2>1. PICK s \in Session, from \in Session :
          LET copies == [i \in DOMAIN view.hot[from] |-> Message(s, i - 1, "axis")]
              batch == <<Created(s, "stellarc", view.sessions[from].titled)>> \o copies
                       \o <<HandedOver(s, from), Archived(from)>>
          IN  Begin(<<Store(batch, 1), Show(batch)>>)
    BY <1>6 DEF HandoverSession
  <2> QED BY <1>0, <2>1, HandoverBegins
<1>7. CASE CompleteSession
  <2>1. PICK s \in Session :
          LET parent == view.sessions[s].parent
          IN  /\ view.sessions[s].parent # None /\ Known(view.sessions, parent)
              /\ Begin(Shown(Message(parent, NextId(parent), "axis"))
                    \o <<Store(<<Archived(s)>>, 0), Show(<<Archived(s)>>)>>)
    BY <1>7 DEF CompleteSession
  <2>2. view.sessions[s].parent \in Session
    BY <1>0, <2>1 DEF Views, SessionRow
  <2>3. PICK parent \in Session : parent = view.sessions[s].parent
    BY <2>2
  <2>4. Begins(Shown(Message(parent, NextId(parent), "axis"))
                 \o <<Store(<<Archived(s)>>, 0), Show(<<Archived(s)>>)>>)
    BY <1>2, EventsTyped, PlainEvents, TwiceBegins
  <2> QED BY <2>1, <2>3, <2>4
<1>8. CASE CardHandler
  <2>1. PICK k \in Card, type \in CardOnly : Begin(Shown(CardEvent(type, k)))
    BY <1>8 DEF CardHandler, CardOnly
  <2>2. Begins(Shown(CardEvent(type, k)))
    BY EventsTyped, PlainEvents, ShownBegins
  <2> QED BY <2>1, <2>2
<1>9. CASE AssignCard
  <2>1. PICK k \in Card, s \in Session :
          Begin(Shown(Assigned(k, s)) \o <<Store(<<Linked(s, k)>>, 0), Show(<<Linked(s, k)>>)>>)
    BY <1>9 DEF AssignCard
  <2>2. Begins(Shown(Assigned(k, s)) \o <<Store(<<Linked(s, k)>>, 0), Show(<<Linked(s, k)>>)>>)
    BY EventsTyped, PlainEvents, TwiceBegins
  <2> QED BY <2>1, <2>2
<1>10. CASE ReassignCard
  <2>1. PICK k \in Card, s \in Session : Begin(Shown(Reassigned(k, s, view.cards[k].session)))
    BY <1>10 DEF ReassignCard
  <2>2. view.cards[k].session \in Session \cup {None}
    BY <1>0 DEF Views, CardRow
  <2>3. Begins(Shown(Reassigned(k, s, view.cards[k].session)))
    BY <2>2, EventsTyped, PlainEvents, ShownBegins
  <2> QED BY <2>1, <2>3
<1>11. CASE CreateProject
  <2>1. PICK p \in Project : Begin(Shown(ProjectEvent("project_created", p)))
    BY <1>11 DEF CreateProject
  <2>2. Begins(Shown(ProjectEvent("project_created", p)))
    <3>1. "project_created" \in ProjectOnly
      BY DEF ProjectOnly
    <3> QED BY <3>1, EventsTyped, PlainEvents, ShownBegins
  <2> QED BY <2>1, <2>2
<1> QED BY <1>1, <1>3, <1>4, <1>5, <1>6, <1>7, <1>8, <1>9, <1>10, <1>11

LEMMA LockedSteps ==
  ASSUME StoreInv,
         EditProject \/ DeleteProject \/ AttachProject \/ AttachContext \/ DetachContext
  PROVE  StoreInv'
<1>0. Live(view) \subseteq Project
  BY DEF Live
<1>1. CASE EditProject \/ DeleteProject
  <2>1. PICK p \in Live(view), type \in {"project_updated", "project_layout", "project_deleted"} :
          Locked(ProjectEvent(type, p))
    BY <1>1 DEF EditProject, DeleteProject
  <2>2. ProjectEvent(type, p) \in Event
    BY <1>0, EventsTyped DEF ProjectOnly
  <2>3. ProjectEvent(type, p).type \notin ShownTypes /\ ~Uses(ProjectEvent(type, p))
    BY DEF ProjectEvent, ShownTypes, Uses
  <2> QED BY <2>1, <2>2, <2>3, LockedStep
<1>2. CASE AttachProject
  <2>1. PICK s \in Session, p \in Live(view) : Locked(Attached(s, p))
    BY <1>2 DEF AttachProject
  <2>2. Attached(s, p) \in Event
    BY <1>0, EventsTyped
  <2>3. Attached(s, p).type \notin ShownTypes /\ Attached(s, p).project = p
    BY DEF Attached, ShownTypes
  <2> QED BY <2>1, <2>2, <2>3, LockedStep
<1>3. CASE AttachContext
  <2>1. PICK s \in Session, p \in Live(view), mode \in {"read", "write"} :
          Locked(ContextAttached(s, p, mode))
    BY <1>3 DEF AttachContext
  <2>2. ContextAttached(s, p, mode) \in Event
    BY <1>0, EventsTyped
  <2>3. ContextAttached(s, p, mode).type \notin ShownTypes /\ ContextAttached(s, p, mode).project = p
    BY DEF ContextAttached, ShownTypes
  <2> QED BY <2>1, <2>2, <2>3, LockedStep
<1>4. CASE DetachContext
  <2>1. PICK s \in Session, p \in Live(view) : Locked(ContextDetached(s, p))
    BY <1>4 DEF DetachContext
  <2>2. ContextDetached(s, p) \in Event
    BY <1>0, EventsTyped
  <2>3. ContextDetached(s, p).type \notin ShownTypes /\ ~Uses(ContextDetached(s, p))
    BY DEF ContextDetached, ShownTypes, Uses
  <2> QED BY <2>1, <2>2, <2>3, LockedStep
<1> QED BY <1>1, <1>2, <1>3, <1>4

LEMMA StoreInvInit ==
  ASSUME StoreInit
  PROVE  StoreInv
<1>1. /\ backend \in {"sqlite", "postgres"} /\ log = Earlier /\ view = Replay(log)
      /\ handlers = [h \in Handlers |-> <<>>] /\ begun = 0 /\ arrived = 0 /\ late = {}
  BY DEF StoreInit
<1>2. log \in Seq(Event) /\ \A i \in DOMAIN log : Plain(log[i]) /\ log[i].type # "message"
  <2>1. log \in Seq(Event)
    BY <1>1, EarlierTyped
  <2>2. \A x : ProjectEvent("project_created", x).type = "project_created"
    BY DEF ProjectEvent
  <2>3. \A x : Created(x, "stellarc", FALSE).type = "created"
    BY DEF Created
  <2>4. \A x : CardEvent("card_created", x).type = "card_created"
    BY DEF CardEvent
  <2>5. ASSUME NEW i \in DOMAIN log
        PROVE  log[i].type \in {"project_created", "created", "card_created"}
    BY <1>1, <2>2, <2>3, <2>4, <2>5 DEF Earlier
  <2> QED BY <2>1, <2>5 DEF Plain, CardOnly
<1>3. /\ view \in Views /\ ShownIsIn(view, log)
      /\ \A i \in DOMAIN log : IsShown(view, log[i])
      /\ \A p \in Live(view) : Stands(p, log, Len(log))
  BY <1>1, <1>2, ReplayIs
<1>4. StoreTypeOK
  <2>1. <<>> \in Seq(Steps)
    OBVIOUS
  <2> QED BY <1>1, <1>2, <1>3, <2>1 DEF StoreTypeOK
<1>5. Handled
  <2>1. \A h \in Handlers : handlers[h] = <<>>
    BY <1>1
  <2>2. \A q : Shape(<<>>) /\ Ready(<<>>, q)
    BY DEF Shape, Ready, Showing
  <2> QED BY <2>1, <2>2 DEF Handled
<1>6. ShownIsStored /\ LiveStands
  BY <1>3 DEF ShownIsStored, LiveStands
<1>7. Covered
  BY <1>3 DEF Covered
<1>8. ProjectsExist
  BY <1>2 DEF ProjectsExist, Plain, CardOnly
<1>9. OnceObserved
  <2>1. \A h \in HermesId : \A i \in DOMAIN log : log[i] # Orbits(h)
    BY <1>2 DEF Orbits, Message
  <2> QED BY <2>1 DEF OnceObserved, ObservedOnce, Noted, Orbits
<1> QED BY <1>4, <1>5, <1>6, <1>7, <1>8, <1>9 DEF StoreInv

LEMMA StoreInvNext ==
  ASSUME StoreInv, [StoreNext]_storeVars
  PROVE  StoreInv'
<1>1. CASE \/ CreateSession \/ PostMessage \/ ArchiveSession \/ CreateSubsession
           \/ HandoverSession \/ CompleteSession \/ CardHandler \/ AssignCard \/ ReassignCard
           \/ CreateProject
  BY <1>1, HandlersBegin, BeginStep
<1>2. CASE EditProject \/ DeleteProject \/ AttachProject \/ AttachContext \/ DetachContext
  BY <1>2, LockedSteps
<1>3. CASE \E h \in Handlers : Do(h)
  BY <1>3, DoStep
<1>4. CASE \E h \in HermesId, id \in {Itself, 0} : Observe(h, id)
  BY <1>4, ObserveStep
<1>5. CASE Import
  BY <1>5, ImportStep
<1>6. CASE Reindex
  BY <1>6, ReindexStep
<1>7. CASE Boot
  BY <1>7, BootStep
<1>8. CASE UNCHANGED storeVars
  <2> USE <1>8 DEF storeVars
  <2>1. StoreTypeOK' <=> StoreTypeOK
    BY DEF StoreTypeOK
  <2>2. (Handled' <=> Handled) /\ (Covered' <=> Covered)
    BY DEF Handled, Covered
  <2>3. (ShownIsStored' <=> ShownIsStored) /\ (LiveStands' <=> LiveStands)
    BY DEF ShownIsStored, LiveStands
  <2>4. (ProjectsExist' <=> ProjectsExist) /\ (OnceObserved' <=> OnceObserved)
    BY DEF ProjectsExist, OnceObserved, ObservedOnce
  <2> QED BY <2>1, <2>2, <2>3, <2>4 DEF StoreInv
<1> QED BY <1>1, <1>2, <1>3, <1>4, <1>5, <1>6, <1>7, <1>8 DEF StoreNext

(* In every state of the event store, for any number of sessions, cards,   *)
(* projects, handlers and boots: what is shown is in the log, and what is  *)
(* in the log is shown, or a handler is about to show it, or the import's  *)
(* replay will (sessions.rs, support.rs, entry.rs, log.rs).                *)
THEOREM StoreCorrect == StoreSpec => []StoreInv
<1>1. StoreInit => StoreInv
  BY StoreInvInit
<1>2. StoreInv /\ [StoreNext]_storeVars => StoreInv'
  BY StoreInvNext
<1> QED BY <1>1, <1>2, PTL DEF StoreSpec

(* No client is told of what a restart takes back, whatever append failed, *)
(* and once the handlers and the import are through nothing stored is      *)
(* hidden but what was observed since the last replay.                     *)
THEOREM ShownIsLogged == StoreSpec => []ViewsMatchLog
<1>1. StoreInv => ViewsMatchLog
  <2> SUFFICES ASSUME StoreInv PROVE NothingHidden
    BY DEF ViewsMatchLog, StoreInv
  <2>1. SUFFICES ASSUME ~Busy, indexing = "done", NEW i \in DOMAIN log, log[i] \notin late
                 PROVE  IsShown(view, log[i])
    BY DEF NothingHidden
  <2>2. CASE log[i].type \in ShownTypes
    <3>1. IsShown(view, log[i]) \/ \E h \in Handlers : Pending(handlers[h], log[i])
      BY <2>1, <2>2 DEF StoreInv, Covered
    <3> QED BY <2>1, <3>1 DEF Busy, Pending, Showing
  <2>3. CASE log[i].type \notin ShownTypes
    BY <2>3 DEF IsShown, ShownTypes
  <2> QED BY <2>2, <2>3
<1> QED BY <1>1, StoreCorrect, PTL

(* Nothing in the log contradicts what was logged before it: on SQLite no  *)
(* observed message is there twice, and no session is attached to a        *)
(* project that does not exist by then, but for the projects that a        *)
(* creation revived (event_log.rs, sessions.rs).                           *)
THEOREM LogStaysSound == StoreSpec => []LogIsSound
<1>1. StoreInv => LogIsSound
  <2>1. StoreInv => ObservedOnce
    BY DEF StoreInv, OnceObserved, ObservedOnce
  <2> QED BY <2>1 DEF StoreInv, LogIsSound
<1> QED BY <1>1, StoreCorrect, PTL
-----------------------------------------------------------------------------
(***************************************************************************)
(* The rows and the views.                                                 *)
(***************************************************************************)
Rows ==
  [sessions : [Session -> SessionRow], cards : [Card -> CardRow],
   projects : [Project -> ProjectRow], messages : SUBSET (Session \X Int),
   hot : {[s \in Session |-> <<>>]}]

(* The rows r say what the views v say.                                    *)
Alike(r, v) ==
  /\ r.source = v.source /\ r.archived = v.archived /\ r.parent = v.parent
  /\ r.card = v.card /\ r.project = v.project /\ r.context = v.context
AlikeCards(r, v) == r.status = v.status /\ r.session = v.session
Tidy(t) == \A s \in Session : ~Known(t, s) => Alike(t[s], NoSession)
TidyCards(t) == \A k \in Card : t[k].status = None => t[k].session = None
SaysTheSame(r, v) ==
  /\ Tidy(r.sessions) /\ \A s \in Session : Alike(r.sessions[s], v.sessions[s])
  /\ TidyCards(r.cards) /\ \A k \in Card : AlikeCards(r.cards[k], v.cards[k])
  /\ r.projects = v.projects

(* f is e, but for the title.                                              *)
Tells(e, f) ==
  \/ e = f
  \/ /\ e.type = "created" /\ f.type = "created"
     /\ e.session = f.session /\ e.source = f.source
ToldAs(E, F) == Len(E) = Len(F) /\ \A n \in 1..Len(E) : Tells(E[n], F[n])

(* What e creates is not there in the rows r; and what it inherits from    *)
(* is, or has nothing to take.                                             *)
Firsts == {"created", "handover", "card_created", "project_created"}
Suits(e, r) ==
  /\ e.type = "created" => ~Known(r.sessions, e.session)
  /\ e.type = "forked" => Known(r.sessions, e.parent)
  /\ e.type = "handover" => r.sessions[e.session].card = None
  /\ e.type = "card_created" => r.cards[e.card].status = None
  /\ e.type = "project_created" => r.projects[e.project] = NoProject
(* ... in a batch.                                                         *)
Suitable(E, r) ==
  /\ \A n \in 1..Len(E) : E[n].type # "handover" => Suits(E[n], r)
  /\ \A n, m \in 1..Len(E) : m < n /\ E[n].type \in Firsts \ {"handover"} => E[m] # E[n]
  /\ \A n, m \in 1..Len(E) : m < n /\ E[n].type = "created" /\ E[m].type = "created" =>
       E[m].session # E[n].session
  /\ \A n, m \in 1..Len(E) : m < n /\ E[n].type = "handover" => E[m].type \in {"created", "message"}
  /\ \A n \in 1..Len(E) : E[n].type = "handover" => ~Known(r.sessions, E[n].session)
Later(e, r) == e.type \notin Firsts /\ Suits(e, r)
Coming(steps, r) ==
  \A i \in 1..Len(steps) : steps[i].op = "append" =>
    /\ i < Len(steps) /\ ToldAs(steps[i].events, steps[i + 1].events)
    /\ IF i = 1 THEN Suitable(steps[i].events, r)
       ELSE \A n \in 1..Len(steps[i].events) : Later(steps[i].events[n], r)

(* A row with another parent, and what it inherits.                        *)
LEMMA RowWith ==
  ASSUME NEW row \in SessionRow, NEW a \in Session \cup {None}, NEW b \in Card \cup {None},
         NEW c \in Project \cup {None}
  PROVE  /\ [row EXCEPT !.parent = a] \in SessionRow
         /\ [row EXCEPT !.parent = a, !.card = b] \in SessionRow
         /\ [row EXCEPT !.parent = a, !.card = b, !.project = c] \in SessionRow
<1>1. PICK S1, S2, S3, S4, S5, S6, S7, S8 :
        SessionRow = [source : S1, titled : S2, archived : S3, parent : S4, card : S5,
                      project : S6, context : S7, count : S8]
          /\ S4 = Session \cup {None} /\ S5 = Card \cup {None} /\ S6 = Project \cup {None}
  BY DEF SessionRow
<1>2. a \in S4 /\ b \in S5 /\ c \in S6
  BY <1>1
<1>3. row \in [source : S1, titled : S2, archived : S3, parent : S4, card : S5,
               project : S6, context : S7, count : S8]
  BY <1>1
<1> QED BY <1>1, <1>2, <1>3

LEMMA SqlSessionsTyped ==
  ASSUME NEW t \in [Session -> SessionRow], NEW e \in Event
  PROVE  /\ SqlSessions(t, e) \in [Session -> SessionRow]
         /\ \A s \in Session : Known(SqlSessions(t, e), s) <=> Known(t, s) \/ Creates(e, s)
<1>0. Fields(e)
  BY EventFields
<1> USE DEF Fields, SessionTypes, CardOnly, ProjectOnly
<1>1. ASSUME e.type # "created", NEW row \in SessionRow, row.source = t[e.session].source,
             e.session \in Session, SqlSessions(t, e) = Amend(t, e.session, row)
      PROVE  /\ SqlSessions(t, e) \in [Session -> SessionRow]
             /\ \A s \in Session : Known(SqlSessions(t, e), s) <=> Known(t, s) \/ Creates(e, s)
  BY <1>1 DEF Amend, Known, Creates
<1>2. CASE e.type = "created"
  <2>1. e.session \in Session /\ e.source \in {"stellarc", "cli"} /\ e.titled \in BOOLEAN
    BY <1>0, <1>2
  <2> DEFINE row == [[t[e.session] EXCEPT !.source = e.source] EXCEPT !.titled = e.titled]
  <2>2. row \in SessionRow /\ row.source = e.source
    <3>1. ASSUME NEW old \in SessionRow, NEW a \in {"stellarc", "cli"}
          PROVE  [old EXCEPT !.source = a] \in SessionRow /\ [old EXCEPT !.source = a].source = a
      BY <3>1 DEF SessionRow
    <3>2. ASSUME NEW old \in SessionRow, NEW b \in BOOLEAN
          PROVE  /\ [old EXCEPT !.titled = b] \in SessionRow
                 /\ [old EXCEPT !.titled = b].source = old.source
      BY <3>2 DEF SessionRow
    <3>3. t[e.session] \in SessionRow
      BY <2>1
    <3> HIDE DEF Fields
    <3> QED BY <2>1, <3>1, <3>2, <3>3
  <2>3. SqlSessions(t, e) = [t EXCEPT ![e.session] = row]
    BY <1>2, <2>1 DEF SqlSessions
  <2> HIDE DEF row
  <2> QED BY <1>2, <2>1, <2>2, <2>3 DEF Known, Creates, None
<1>3. CASE e.type = "message"
  BY <1>3 DEF SqlSessions, Creates
<1>4. CASE e.type \in {"context_attached", "context_detached"}
  <2> DEFINE mode == IF e.type = "context_attached" THEN e.mode ELSE None
             row == [t[e.session] EXCEPT !.context = [t[e.session].context EXCEPT ![e.project] = mode]]
  <2>1. e.session \in Session /\ e.project \in Project /\ mode \in {None, "read", "write"}
    BY <1>0, <1>4
  <2> HIDE DEF mode
  <2>2. [t[e.session].context EXCEPT ![e.project] = mode] \in [Project -> {None, "read", "write"}]
    BY <2>1 DEF SessionRow
  <2>3. row \in SessionRow /\ row.source = t[e.session].source
    BY <2>1, <2>2 DEF SessionRow
  <2>4. SqlSessions(t, e) = Amend(t, e.session, row)
    BY <1>4, <2>1 DEF SqlSessions, SqlContext, Context, mode
  <2> HIDE DEF row
  <2> QED BY <1>1, <1>4, <2>1, <2>3, <2>4
<1>5. CASE e.type \in {"forked", "handover"}
  <2>1. e.session \in Session /\ e.parent \in Session
    BY <1>0, <1>5
  <2>4. /\ t[e.session] \in SessionRow /\ e.parent \in Session \cup {None}
        /\ t[e.parent].card \in Card \cup {None} /\ t[e.parent].project \in Project \cup {None}
    BY <2>1 DEF SessionRow
  <2>5. PICK old \in SessionRow, a \in Session \cup {None}, b \in Card \cup {None},
             c \in Project \cup {None} :
          old = t[e.session] /\ a = e.parent /\ b = t[e.parent].card /\ c = t[e.parent].project
    BY <2>4
  <2>2. CASE e.type = "forked"
    <3> DEFINE row == [old EXCEPT !.parent = a, !.card = b, !.project = c]
    <3>1. row \in SessionRow /\ row.source = t[e.session].source
      <4> HIDE DEF Fields, SessionTypes, CardOnly, ProjectOnly
      <4>1. row \in SessionRow
        BY RowWith, Zenon
      <4>2. row.source = old.source
        BY DEF SessionRow
      <4> HIDE DEF row
      <4> QED BY <2>5, <4>1, <4>2
    <3>2. SqlSessions(t, e) = Amend(t, e.session, row)
      BY <2>2, <2>5 DEF SqlSessions, SqlForked
    <3> HIDE DEF row
    <3> QED BY <1>1, <2>1, <2>2, <3>1, <3>2
  <2>3. CASE e.type = "handover"
    <3> DEFINE row == [old EXCEPT !.parent = a, !.card = b]
    <3>1. row \in SessionRow /\ row.source = t[e.session].source
      <4> HIDE DEF Fields, SessionTypes, CardOnly, ProjectOnly
      <4>1. row \in SessionRow
        BY RowWith, Zenon
      <4>2. row.source = old.source
        BY DEF SessionRow
      <4> HIDE DEF row
      <4> QED BY <2>5, <4>1, <4>2
    <3>2. SqlSessions(t, e) = Amend(t, e.session, row)
      BY <2>3, <2>5 DEF SqlSessions, SqlHandover
    <3> HIDE DEF row
    <3> QED BY <1>1, <2>1, <2>3, <3>1, <3>2
  <2> QED BY <1>5, <2>2, <2>3
<1>6. CASE e.type \notin {"created", "message", "context_attached", "context_detached",
                          "forked", "handover"}
  <2>1. SqlSessions(t, e) = ViewSessions(t, e)
    BY <1>6 DEF SqlSessions
  <2> QED BY <2>1, SessionsTyped, KnownThen
<1> QED BY <1>2, <1>3, <1>4, <1>5, <1>6

LEMMA SqlCardsTyped ==
  ASSUME NEW t \in [Card -> CardRow], NEW e \in Event
  PROVE  SqlCards(t, e) \in [Card -> CardRow]
<1>0. Fields(e)
  BY EventFields
<1>1. CASE e.type = "card_created"
  <2>1. e.card \in Card
    BY <1>0, <1>1 DEF Fields, CardOnly
  <2> DEFINE status == IF t[e.card].status = None THEN "todo" ELSE t[e.card].status
  <2>2. SqlCards(t, e) = [t EXCEPT ![e.card] = [t[e.card] EXCEPT !.status = status]]
    BY <1>1, <2>1 DEF SqlCards
  <2>3. status \in {None, "todo", "assigned", "moved", "done"}
    BY <2>1 DEF CardRow
  <2>4. [t[e.card] EXCEPT !.status = status] \in CardRow
    <3> HIDE DEF status
    <3> QED BY <2>1, <2>3 DEF CardRow
  <2> QED BY <2>1, <2>2, <2>4
<1>2. CASE e.type = "card_done"
  <2>1. e.card \in Card
    BY <1>0, <1>2 DEF Fields, CardOnly
  <2>2. [t[e.card] EXCEPT !.status = "done"] \in CardRow
    BY <2>1 DEF CardRow
  <2> QED BY <1>2, <2>1, <2>2 DEF SqlCards
<1>3. CASE e.type \notin {"card_created", "card_done"}
  <2>1. SqlCards(t, e) = ViewCards(t, e)
    BY <1>3 DEF SqlCards
  <2> QED BY <2>1, CardsAfter
<1> QED BY <1>1, <1>2, <1>3

LEMMA SqlProjectsTyped ==
  ASSUME NEW t \in [Project -> ProjectRow], NEW e \in Event
  PROVE  SqlProjects(t, e) \in [Project -> ProjectRow]
<1>1. CASE e.type = "project_created"
  <2>1. e.project \in Project
    BY <1>1, EventFields DEF Fields, ProjectOnly
  <2>2. [t[e.project] EXCEPT !.status = "live"] \in ProjectRow
    BY <2>1 DEF ProjectRow
  <2> QED BY <1>1, <2>1, <2>2 DEF SqlProjects
<1>2. CASE e.type # "project_created"
  BY <1>2, ProjectsAfter DEF SqlProjects
<1> QED BY <1>1, <1>2

LEMMA RowsAfter ==
  ASSUME NEW r \in Rows, NEW e \in Event
  PROVE  /\ ApplySql(r, e) \in Rows
         /\ ApplySql(r, e).sessions = SqlSessions(r.sessions, e)
         /\ ApplySql(r, e).messages = SqlMessages(r.messages, e)
         /\ ApplySql(r, e).cards = SqlCards(r.cards, e)
         /\ ApplySql(r, e).projects = SqlProjects(r.projects, e)
<1>1. /\ r.sessions \in [Session -> SessionRow] /\ r.cards \in [Card -> CardRow]
      /\ r.projects \in [Project -> ProjectRow] /\ r.messages \in SUBSET (Session \X Int)
  BY DEF Rows
<1>2. /\ SqlSessions(r.sessions, e) \in [Session -> SessionRow]
      /\ SqlCards(r.cards, e) \in [Card -> CardRow]
      /\ SqlProjects(r.projects, e) \in [Project -> ProjectRow]
  BY <1>1, SqlSessionsTyped, SqlCardsTyped, SqlProjectsTyped
<1>3. SqlMessages(r.messages, e) \in SUBSET (Session \X Int)
  <2>1. CASE e.type = "message"
    <3>1. e.session \in Session /\ e.id \in Int
      BY <2>1, EventFields DEF Fields, SessionTypes
    <3> QED BY <1>1, <2>1, <3>1 DEF SqlMessages
  <2>2. CASE e.type # "message"
    BY <1>1, <2>2 DEF SqlMessages
  <2> QED BY <2>1, <2>2
<1>4. PICK a, b, c, d : /\ a = SqlSessions(r.sessions, e) /\ b = SqlCards(r.cards, e)
                        /\ c = SqlProjects(r.projects, e) /\ d = SqlMessages(r.messages, e)
  OBVIOUS
<1>5. ApplySql(r, e) = [r EXCEPT !.sessions = a, !.messages = d, !.cards = b, !.projects = c]
  BY <1>4 DEF ApplySql
<1>6. PICK A, B, C, D, E :
        /\ A = [Session -> SessionRow] /\ B = [Card -> CardRow] /\ C = [Project -> ProjectRow]
        /\ D = SUBSET (Session \X Int) /\ E = {[s \in Session |-> <<>>]}
  OBVIOUS
<1>7. Rows = [sessions : A, cards : B, projects : C, messages : D, hot : E]
  BY <1>6 DEF Rows
<1>8. a \in A /\ b \in B /\ c \in C /\ d \in D
  BY <1>2, <1>3, <1>4, <1>6
<1>9. PICK x : x = ApplySql(r, e)
  OBVIOUS
<1>10. /\ x \in [sessions : A, cards : B, projects : C, messages : D, hot : E]
       /\ x.sessions = a /\ x.messages = d /\ x.cards = b /\ x.projects = c
  BY <1>5, <1>7, <1>8, <1>9
<1> QED BY <1>4, <1>7, <1>9, <1>10

(* One event keeps the rows and the views alike.                           *)
LEMMA AmendAlike ==
  ASSUME NEW t \in [Session -> SessionRow], NEW u \in [Session -> SessionRow], Tidy(t),
         \A s \in Session : Alike(t[s], u[s]), NEW o \in Session, NEW row, NEW new,
         Known(t, o) => row.source = t[o].source /\ Alike(row, new)
  PROVE  /\ Tidy(Amend(t, o, row))
         /\ \A s \in Session : Alike(Amend(t, o, row)[s], Amend(u, o, new)[s])
<1>1. Known(t, o) <=> Known(u, o)
  BY DEF Alike, Known
<1>2. CASE Known(t, o)
  <2>1. Amend(t, o, row) = [t EXCEPT ![o] = row] /\ Amend(u, o, new) = [u EXCEPT ![o] = new]
    BY <1>1, <1>2 DEF Amend
  <2>2. \A s \in Session : Alike(Amend(t, o, row)[s], Amend(u, o, new)[s])
    BY <1>2, <2>1
  <2>3. Tidy(Amend(t, o, row))
    BY <1>2, <2>1 DEF Tidy, Known
  <2> QED BY <2>2, <2>3
<1>3. CASE ~Known(t, o)
  BY <1>1, <1>3 DEF Amend
<1> QED BY <1>2, <1>3

LEMMA SessionsAlike ==
  ASSUME NEW t \in [Session -> SessionRow], NEW u \in [Session -> SessionRow], Tidy(t),
         \A s \in Session : Alike(t[s], u[s]), NEW e \in Event, NEW f \in Event, Tells(e, f),
         e.type = "created" => ~Known(t, e.session),
         e.type = "forked" => Known(t, e.parent),
         e.type = "handover" => t[e.session].card = None
  PROVE  /\ Tidy(SqlSessions(t, e))
         /\ \A s \in Session : Alike(SqlSessions(t, e)[s], ViewSessions(u, f)[s])
<1>0. Fields(e)
  BY EventFields
<1> DEFINE Good == /\ Tidy(SqlSessions(t, e))
                   /\ \A s \in Session : Alike(SqlSessions(t, e)[s], ViewSessions(u, f)[s])
<1>1. ASSUME NEW o \in Session, NEW row, NEW new,
             Known(t, o) => row.source = t[o].source /\ Alike(row, new),
             SqlSessions(t, e) = Amend(t, o, row), ViewSessions(u, f) = Amend(u, o, new)
      PROVE  Good
  <2>1. Known(t, o) => row.source = t[o].source /\ Alike(row, new)
    BY <1>1
  <2>2. /\ Tidy(Amend(t, o, row))
        /\ \A s \in Session : Alike(Amend(t, o, row)[s], Amend(u, o, new)[s])
    <3> HIDE DEF Good
    <3> QED BY <2>1, AmendAlike
  <2> QED BY <1>1, <2>2
<1> SUFFICES Good
  OBVIOUS
<1>2. e.type # "created" => f = e
  BY DEF Tells
<1>3. CASE e.type = "created"
  <2>1. /\ e.session \in Session /\ f.type = "created" /\ f.session = e.session
        /\ f.source = e.source /\ e.source \in {"stellarc", "cli"} /\ e.titled \in BOOLEAN
    BY <1>0, <1>3 DEF Tells, Fields, SessionTypes
  <2> DEFINE row == [[t[e.session] EXCEPT !.source = e.source] EXCEPT !.titled = e.titled]
             new == Fresh(f)
  <2>2. SqlSessions(t, e) = [t EXCEPT ![e.session] = row]
    BY <1>3, <2>1 DEF SqlSessions
  <2>3. ViewSessions(u, f) = [u EXCEPT ![e.session] = new]
    BY <2>1 DEF ViewSessions
  <2>4. Alike(t[e.session], NoSession)
    BY <1>3, <2>1 DEF Tidy
  <2>5. Alike(row, new)
    <3>1. t[e.session] \in SessionRow
      BY <2>1
    <3>2. /\ row.source = e.source /\ row.archived = t[e.session].archived
          /\ row.parent = t[e.session].parent /\ row.card = t[e.session].card
          /\ row.project = t[e.session].project /\ row.context = t[e.session].context
      BY <3>1 DEF SessionRow
    <3>3. /\ new.source = f.source /\ new.archived = NoSession.archived
          /\ new.parent = NoSession.parent /\ new.card = NoSession.card
          /\ new.project = NoSession.project /\ new.context = NoSession.context
      BY DEF Fresh, NoSession
    <3> HIDE DEF row, new
    <3> QED BY <2>1, <2>4, <3>2, <3>3 DEF Alike
  <2>6. row.source # None
    <3>1. t[e.session] \in SessionRow
      BY <2>1
    <3>2. row.source = e.source
      BY <3>1 DEF SessionRow
    <3> QED BY <2>1, <3>2 DEF None
  <2> HIDE DEF row, new
  <2> QED BY <2>1, <2>2, <2>3, <2>5, <2>6 DEF Tidy, Known
<1>4. CASE e.type = "archived"
  <2>1. e.session \in Session /\ f = e
    BY <1>0, <1>2, <1>4 DEF Fields, SessionTypes
  <2> DEFINE row == [t[e.session] EXCEPT !.archived = TRUE]
             new == [u[e.session] EXCEPT !.archived = TRUE]
  <2>2. SqlSessions(t, e) = Amend(t, e.session, row) /\ ViewSessions(u, f) = Amend(u, e.session, new)
    BY <1>4, <2>1 DEF SqlSessions, ViewSessions
  <2>3. row.source = t[e.session].source /\ Alike(row, new)
    <3>1. t[e.session] \in SessionRow /\ u[e.session] \in SessionRow /\ Alike(t[e.session], u[e.session])
      BY <2>1
    <3> QED BY <3>1 DEF SessionRow, Alike
  <2> HIDE DEF row, new, Good
  <2> QED BY <1>1, <2>1, <2>2, <2>3
<1>5. CASE e.type = "message"
  <2>1. e.session \in Session /\ f = e /\ SqlSessions(t, e) = t
    BY <1>0, <1>2, <1>5 DEF Fields, SessionTypes, SqlSessions
  <2> DEFINE new == [u[e.session] EXCEPT !.count = @ + 1]
  <2>2. ViewSessions(u, f) = u \/ ViewSessions(u, f) = [u EXCEPT ![e.session] = new]
    BY <1>5, <2>1 DEF ViewSessions
  <2>3. Alike(t[e.session], new)
    <3>1. t[e.session] \in SessionRow /\ u[e.session] \in SessionRow /\ Alike(t[e.session], u[e.session])
      BY <2>1
    <3> QED BY <3>1 DEF SessionRow, Alike
  <2> HIDE DEF new
  <2> QED BY <2>1, <2>2, <2>3
<1>6. CASE e.type = "attached"
  <2>1. e.session \in Session /\ f = e
    BY <1>0, <1>2, <1>6 DEF Fields, SessionTypes
  <2> DEFINE row == [t[e.session] EXCEPT !.project = e.project]
             new == [u[e.session] EXCEPT !.project = e.project]
  <2>2. SqlSessions(t, e) = Amend(t, e.session, row) /\ ViewSessions(u, f) = Amend(u, e.session, new)
    BY <1>6, <2>1 DEF SqlSessions, ViewSessions
  <2>3. row.source = t[e.session].source /\ Alike(row, new)
    <3>1. t[e.session] \in SessionRow /\ u[e.session] \in SessionRow /\ Alike(t[e.session], u[e.session])
      BY <2>1
    <3> QED BY <3>1 DEF SessionRow, Alike
  <2> HIDE DEF row, new, Good
  <2> QED BY <1>1, <2>1, <2>2, <2>3
<1>7. CASE e.type \in {"context_attached", "context_detached"}
  <2> DEFINE mode == IF e.type = "context_attached" THEN e.mode ELSE None
  <2>1. e.session \in Session /\ e.project \in Project /\ f = e
    BY <1>0, <1>2, <1>7 DEF Fields, SessionTypes
  <2>2. /\ SqlSessions(t, e) = Context(t, e, mode) /\ ViewSessions(u, f) = Context(u, e, mode)
    BY <1>7, <2>1 DEF SqlSessions, SqlContext, ViewSessions
  <2> HIDE DEF mode
  <2> DEFINE row == [t[e.session] EXCEPT !.context[e.project] = mode]
             new == [u[e.session] EXCEPT !.context[e.project] = mode]
  <2>3. SqlSessions(t, e) = Amend(t, e.session, row) /\ ViewSessions(u, f) = Amend(u, e.session, new)
    BY <2>2 DEF Context
  <2>4. row.source = t[e.session].source /\ Alike(row, new)
    <3>1. t[e.session] \in SessionRow /\ u[e.session] \in SessionRow /\ Alike(t[e.session], u[e.session])
      BY <2>1
    <3>2. /\ row.context = [t[e.session].context EXCEPT ![e.project] = mode]
          /\ new.context = [u[e.session].context EXCEPT ![e.project] = mode]
      BY <3>1 DEF SessionRow
    <3> QED BY <3>1, <3>2 DEF SessionRow, Alike
  <2> HIDE DEF row, new, Good
  <2> QED BY <1>1, <2>1, <2>3, <2>4
<1>8. CASE e.type = "forked"
  <2>1. e.session \in Session /\ e.parent \in Session /\ f = e
    BY <1>0, <1>2, <1>8 DEF Fields, SessionTypes
  <2>2. /\ Known(u, e.parent) /\ t[e.parent].card = u[e.parent].card
        /\ t[e.parent].project = u[e.parent].project
    BY <1>8, <2>1 DEF Alike, Known
  <2> DEFINE row == [t[e.session] EXCEPT !.parent = e.parent, !.card = t[e.parent].card,
                                         !.project = t[e.parent].project]
             new == Child(u, e)
  <2>3. SqlSessions(t, e) = Amend(t, e.session, row) /\ ViewSessions(u, f) = Amend(u, e.session, new)
    BY <1>8, <2>1 DEF SqlSessions, SqlForked, ViewSessions
  <2>4. row.source = t[e.session].source /\ Alike(row, new)
    <3>1. t[e.session] \in SessionRow /\ u[e.session] \in SessionRow /\ Alike(t[e.session], u[e.session])
      BY <2>1
    <3>2. new = [[u[e.session] EXCEPT !.parent = e.parent]
                   EXCEPT !.card = u[e.parent].card, !.project = u[e.parent].project]
      BY <2>2 DEF Child
    <3>3. /\ new.source = u[e.session].source /\ new.archived = u[e.session].archived
          /\ new.parent = e.parent /\ new.card = u[e.parent].card
          /\ new.project = u[e.parent].project /\ new.context = u[e.session].context
      BY <3>1, <3>2 DEF SessionRow
    <3>4. /\ row.source = t[e.session].source /\ row.archived = t[e.session].archived
          /\ row.parent = e.parent /\ row.card = t[e.parent].card
          /\ row.project = t[e.parent].project /\ row.context = t[e.session].context
      BY <3>1 DEF SessionRow
    <3> HIDE DEF row, new
    <3> QED BY <2>2, <3>1, <3>3, <3>4 DEF Alike
  <2> HIDE DEF row, new, Good
  <2> QED BY <1>1, <2>1, <2>3, <2>4
<1>9. CASE e.type = "handover"
  <2>1. e.session \in Session /\ e.parent \in Session /\ f = e
    BY <1>0, <1>2, <1>9 DEF Fields, SessionTypes
  <2>2. t[e.parent].card = u[e.parent].card /\ t[e.session].card = None
    BY <1>9, <2>1 DEF Alike
  <2> DEFINE row == [t[e.session] EXCEPT !.parent = e.parent, !.card = t[e.parent].card]
             new == Target(u, e)
  <2>3. SqlSessions(t, e) = Amend(t, e.session, row) /\ ViewSessions(u, f) = Amend(u, e.session, new)
    BY <1>9, <2>1 DEF SqlSessions, SqlHandover, ViewSessions
  <2>4. row.source = t[e.session].source /\ Alike(row, new)
    <3>1. t[e.session] \in SessionRow /\ u[e.session] \in SessionRow /\ Alike(t[e.session], u[e.session])
      BY <2>1
    <3>2. /\ new.source = u[e.session].source /\ new.archived = u[e.session].archived
          /\ new.parent = e.parent /\ new.project = u[e.session].project
          /\ new.context = u[e.session].context
          /\ new.card = IF u[e.parent].card # None THEN u[e.parent].card ELSE u[e.session].card
      BY <3>1 DEF SessionRow, Target
    <3>4. /\ row.source = t[e.session].source /\ row.archived = t[e.session].archived
          /\ row.parent = e.parent /\ row.card = t[e.parent].card
          /\ row.project = t[e.session].project /\ row.context = t[e.session].context
      BY <3>1 DEF SessionRow
    <3> HIDE DEF row, new
    <3> QED BY <2>2, <3>1, <3>2, <3>4 DEF Alike
  <2> HIDE DEF row, new, Good
  <2> QED BY <1>1, <2>1, <2>3, <2>4
<1>10. CASE e.type = "linked"
  <2>1. e.session \in Session /\ f = e
    BY <1>0, <1>2, <1>10 DEF Fields, SessionTypes
  <2>2. SqlSessions(t, e) = LinkTree(t, e) /\ ViewSessions(u, f) = LinkTree(u, e)
    BY <1>10, <2>1 DEF SqlSessions, ViewSessions
  <2>3. ASSUME NEW s \in Session
        PROVE  /\ Alike(LinkTree(t, e)[s], LinkTree(u, e)[s])
               /\ ~Known(LinkTree(t, e), s) => Alike(LinkTree(t, e)[s], NoSession)
    <3>1. t[s] \in SessionRow /\ u[s] \in SessionRow /\ Alike(t[s], u[s])
      OBVIOUS
    <3>2. (Known(t, s) <=> Known(u, s)) /\ t[s].parent = u[s].parent
      BY <3>1 DEF Alike, Known
    <3>3. CASE Known(t, s) /\ e.session \in {s, t[s].parent}
      <4>1. /\ LinkTree(t, e)[s] = [t[s] EXCEPT !.card = e.card]
            /\ LinkTree(u, e)[s] = [u[s] EXCEPT !.card = e.card]
        BY <3>2, <3>3 DEF LinkTree
      <4>2. /\ Alike([t[s] EXCEPT !.card = e.card], [u[s] EXCEPT !.card = e.card])
            /\ [t[s] EXCEPT !.card = e.card].source = t[s].source
        BY <3>1 DEF SessionRow, Alike
      <4> QED BY <3>3, <4>1, <4>2 DEF Known
    <3>4. CASE ~(Known(t, s) /\ e.session \in {s, t[s].parent})
      <4>1. LinkTree(t, e)[s] = t[s] /\ LinkTree(u, e)[s] = u[s]
        BY <3>2, <3>4 DEF LinkTree
      <4> QED BY <3>1, <4>1 DEF Tidy, Known
    <3> QED BY <3>3, <3>4
  <2> QED BY <2>2, <2>3 DEF Tidy
<1>11. CASE e.type \notin SessionTypes
  <2>1. SqlSessions(t, e) = t /\ ViewSessions(u, f) = u
    BY <1>2, <1>11 DEF SqlSessions, ViewSessions, SessionTypes
  <2> QED BY <2>1
<1> QED BY <1>3, <1>4, <1>5, <1>6, <1>7, <1>8, <1>9, <1>10, <1>11 DEF SessionTypes

LEMMA CardsAlike ==
  ASSUME NEW t \in [Card -> CardRow], NEW u \in [Card -> CardRow], TidyCards(t),
         \A k \in Card : AlikeCards(t[k], u[k]), NEW e \in Event, NEW f \in Event, Tells(e, f),
         e.type = "card_created" => t[e.card].status = None
  PROVE  /\ TidyCards(SqlCards(t, e))
         /\ \A k \in Card : AlikeCards(SqlCards(t, e)[k], ViewCards(u, f)[k])
<1>0. Fields(e)
  BY EventFields
<1> DEFINE Good == /\ TidyCards(SqlCards(t, e))
                   /\ \A k \in Card : AlikeCards(SqlCards(t, e)[k], ViewCards(u, f)[k])
<1> SUFFICES Good
  OBVIOUS
<1>1. ASSUME NEW c \in Card, NEW row, NEW new, AlikeCards(row, new), row.status # None,
             SqlCards(t, e) = [t EXCEPT ![c] = row], ViewCards(u, f) = [u EXCEPT ![c] = new]
      PROVE  Good
  BY <1>1 DEF TidyCards
<1>2. ASSUME SqlCards(t, e) = t, ViewCards(u, f) = u
      PROVE  Good
  BY <1>2
<1> HIDE DEF Good
<1>3. CASE e.type = "created"
  <2>1. SqlCards(t, e) = t /\ ViewCards(u, f) = u
    BY <1>3 DEF Tells, SqlCards, ViewCards, CardOnly
  <2> QED BY <1>2, <2>1
<1>4. CASE e.type \notin CardOnly \cup {"assigned", "reassigned", "created"}
  <2>1. SqlCards(t, e) = t /\ ViewCards(u, f) = u
    BY <1>4 DEF Tells, SqlCards, ViewCards, CardOnly
  <2> QED BY <1>2, <2>1
<1>5. CASE e.type \in CardOnly \cup {"assigned", "reassigned"}
  <2>1. f = e /\ e.card \in Card
    BY <1>0, <1>5 DEF Tells, Fields, CardOnly
  <2>2. PICK old, seen : /\ old = t[e.card] /\ seen = u[e.card] /\ old \in CardRow /\ seen \in CardRow
                         /\ AlikeCards(old, seen) /\ (old.status = None => old.session = None)
    BY <2>1 DEF TidyCards
  <2>3. CASE e.type = "card_created"
    <3> DEFINE row == [old EXCEPT !.status = "todo"]
               new == [NoCard EXCEPT !.status = "todo"]
    <3>1. old.status = None
      BY <2>2, <2>3
    <3>2. SqlCards(t, e) = [t EXCEPT ![e.card] = row] /\ ViewCards(u, f) = [u EXCEPT ![e.card] = new]
      BY <2>1, <2>2, <2>3, <3>1 DEF SqlCards, ViewCards
    <3>3. AlikeCards(row, new) /\ row.status # None
      BY <2>2, <3>1 DEF AlikeCards, CardRow, NoCard, None
    <3> HIDE DEF row, new
    <3> QED BY <1>1, <2>1, <3>2, <3>3
  <2>4. CASE e.type # "card_created" /\ old.status = None
    <3>1. SqlCards(t, e) = t /\ ViewCards(u, f) = u
      BY <2>1, <2>2, <2>4 DEF SqlCards, ViewCards, AlikeCards
    <3> QED BY <1>2, <3>1
  <2>5. CASE e.type = "card_done" /\ old.status # None
    <3> DEFINE row == [old EXCEPT !.status = "done"]
               new == [seen EXCEPT !.status = "done", !.attempts = LastDone(seen.attempts)]
    <3>2. SqlCards(t, e) = [t EXCEPT ![e.card] = row] /\ ViewCards(u, f) = [u EXCEPT ![e.card] = new]
      BY <2>1, <2>2, <2>5 DEF SqlCards, ViewCards, AlikeCards, CardOnly
    <3>3. AlikeCards(row, new) /\ row.status # None
      BY <2>2 DEF AlikeCards, CardRow, None
    <3> HIDE DEF row, new
    <3> QED BY <1>1, <2>1, <3>2, <3>3
  <2>6. CASE e.type = "card_moved" /\ old.status # None
    <3> DEFINE row == [old EXCEPT !.status = "moved"]
               new == [seen EXCEPT !.status = "moved"]
    <3>2. SqlCards(t, e) = [t EXCEPT ![e.card] = row] /\ ViewCards(u, f) = [u EXCEPT ![e.card] = new]
      BY <2>1, <2>2, <2>6 DEF SqlCards, ViewCards, AlikeCards, CardOnly
    <3>3. AlikeCards(row, new) /\ row.status # None
      BY <2>2 DEF AlikeCards, CardRow, None
    <3> HIDE DEF row, new
    <3> QED BY <1>1, <2>1, <3>2, <3>3
  <2>7. ASSUME e.type \in {"assigned", "reassigned"}, old.status # None, NEW q, NEW w,
               SqlCards(t, e) = [t EXCEPT ![e.card] = Attempt(q, e)],
               ViewCards(u, f) = [u EXCEPT ![e.card] = Attempt(w, e)]
        PROVE  Good
    <3>1. AlikeCards(Attempt(q, e), Attempt(w, e)) /\ Attempt(q, e).status # None
      BY DEF Attempt, AlikeCards, None
    <3> QED BY <1>1, <2>1, <2>7, <3>1
  <2>8. CASE e.type = "assigned" /\ old.status # None
    <3>1. /\ SqlCards(t, e) = [t EXCEPT ![e.card] = Attempt(old.attempts, e)]
          /\ ViewCards(u, f) = [u EXCEPT ![e.card] = Attempt(seen.attempts, e)]
      BY <2>1, <2>2, <2>8 DEF SqlCards, ViewCards, AlikeCards, CardOnly
    <3> QED BY <2>7, <2>8, <3>1
  <2>9. CASE e.type = "reassigned" /\ old.status # None
    <3>1. /\ SqlCards(t, e) = [t EXCEPT ![e.card] = Attempt(Superseded(old.attempts, e), e)]
          /\ ViewCards(u, f) = [u EXCEPT ![e.card] = Attempt(Superseded(seen.attempts, e), e)]
      BY <2>1, <2>2, <2>9 DEF SqlCards, ViewCards, AlikeCards, CardOnly
    <3> QED BY <2>7, <2>9, <3>1
  <2> QED BY <1>5, <2>3, <2>4, <2>5, <2>6, <2>8, <2>9 DEF CardOnly
<1> QED BY <1>3, <1>4, <1>5

LEMMA ProjectsAlike ==
  ASSUME NEW t \in [Project -> ProjectRow], NEW e \in Event, NEW f \in Event, Tells(e, f),
         e.type = "project_created" => t[e.project] = NoProject
  PROVE  SqlProjects(t, e) = ViewProjects(t, f)
<1>1. CASE e.type = "project_created"
  <2>1. f = e /\ e.project \in Project
    BY <1>1, EventFields DEF Tells, Fields, ProjectOnly
  <2>2. SqlProjects(t, e) = [t EXCEPT ![e.project] = [t[e.project] EXCEPT !.status = "live"]]
    BY <1>1, <2>1 DEF SqlProjects
  <2> QED BY <1>1, <2>1, <2>2 DEF ViewProjects
<1>2. CASE e.type # "project_created"
  <2>1. SqlProjects(t, e) = ViewProjects(t, e)
    BY <1>2 DEF SqlProjects
  <2>2. e.type = "created" => ViewProjects(t, e) = t /\ ViewProjects(t, f) = t
    BY DEF Tells, ViewProjects, ProjectOnly
  <2> QED BY <2>1, <2>2 DEF Tells
<1> QED BY <1>1, <1>2

LEMMA OneAlike ==
  ASSUME NEW r \in Rows, NEW v \in Views, SaysTheSame(r, v), NEW e \in Event, NEW f \in Event,
         Tells(e, f), Suits(e, r)
  PROVE  SaysTheSame(ApplySql(r, e), ApplyView(v, f))
<1>1. /\ r.sessions \in [Session -> SessionRow] /\ v.sessions \in [Session -> SessionRow]
      /\ r.cards \in [Card -> CardRow] /\ v.cards \in [Card -> CardRow]
      /\ r.projects \in [Project -> ProjectRow]
  BY DEF Rows, Views
<1>2. /\ Tidy(SqlSessions(r.sessions, e))
      /\ \A s \in Session : Alike(SqlSessions(r.sessions, e)[s], ViewSessions(v.sessions, f)[s])
  <2>1. PICK t, u : t = r.sessions /\ u = v.sessions
    OBVIOUS
  <2>2. /\ t \in [Session -> SessionRow] /\ u \in [Session -> SessionRow] /\ Tidy(t)
        /\ \A s \in Session : Alike(t[s], u[s])
        /\ e.type = "created" => ~Known(t, e.session)
        /\ e.type = "forked" => Known(t, e.parent)
        /\ e.type = "handover" => t[e.session].card = None
    BY <1>1, <2>1 DEF SaysTheSame, Suits
  <2>3. /\ Tidy(SqlSessions(t, e))
        /\ \A s \in Session : Alike(SqlSessions(t, e)[s], ViewSessions(u, f)[s])
    BY <2>2, SessionsAlike
  <2> QED BY <2>1, <2>3
<1>3. /\ TidyCards(SqlCards(r.cards, e))
      /\ \A k \in Card : AlikeCards(SqlCards(r.cards, e)[k], ViewCards(v.cards, f)[k])
  <2>1. PICK t, u : t = r.cards /\ u = v.cards
    OBVIOUS
  <2>2. /\ t \in [Card -> CardRow] /\ u \in [Card -> CardRow] /\ TidyCards(t)
        /\ \A k \in Card : AlikeCards(t[k], u[k])
        /\ e.type = "card_created" => t[e.card].status = None
    BY <1>1, <2>1 DEF SaysTheSame, Suits
  <2>3. /\ TidyCards(SqlCards(t, e))
        /\ \A k \in Card : AlikeCards(SqlCards(t, e)[k], ViewCards(u, f)[k])
    BY <2>2, CardsAlike
  <2> QED BY <2>1, <2>3
<1>4. SqlProjects(r.projects, e) = ViewProjects(v.projects, f)
  BY <1>1, ProjectsAlike DEF SaysTheSame, Suits
<1> QED BY <1>2, <1>3, <1>4, RowsAfter, ViewAfter DEF SaysTheSame

(* What an event leaves as it is.                                          *)
LEMMA NotMadeYet ==
  ASSUME NEW r \in Rows, NEW e \in Event
  PROVE  /\ \A s \in Session : Known(ApplySql(r, e).sessions, s) <=> Known(r.sessions, s) \/ Creates(e, s)
         /\ \A k \in Card : r.cards[k].status = None /\ e # CardEvent("card_created", k) =>
              ApplySql(r, e).cards[k].status = None
         /\ \A p \in Project : r.projects[p] = NoProject /\ e # ProjectEvent("project_created", p) =>
              ApplySql(r, e).projects[p] = NoProject
         /\ e.type \in {"created", "message"} =>
              \A s \in Session : ApplySql(r, e).sessions[s].card = r.sessions[s].card
<1>0. Fields(e)
  BY EventFields
<1>1. PICK t, u, w : t = r.sessions /\ u = r.cards /\ w = r.projects
  OBVIOUS
<1>2. /\ t \in [Session -> SessionRow] /\ u \in [Card -> CardRow] /\ w \in [Project -> ProjectRow]
  BY <1>1 DEF Rows
<1>3. /\ ApplySql(r, e).sessions = SqlSessions(t, e) /\ ApplySql(r, e).cards = SqlCards(u, e)
      /\ ApplySql(r, e).projects = SqlProjects(w, e)
  BY <1>1, RowsAfter
<1>4. ASSUME NEW k \in Card, u[k].status = None, e # CardEvent("card_created", k)
      PROVE  SqlCards(u, e)[k].status = None
  <2>1. CASE e.type = "card_created"
    <3>1. e.card \in Card /\ e.card # k
      BY <1>0, <1>4, <2>1 DEF Fields, CardOnly
    <3> QED BY <1>2, <1>4, <2>1, <3>1 DEF SqlCards
  <2>2. CASE e.type = "card_done"
    <3>1. e.card \in Card
      BY <1>0, <2>2 DEF Fields, CardOnly
    <3> QED BY <1>2, <1>4, <2>2, <3>1 DEF SqlCards
  <2>3. CASE e.type \notin {"card_created", "card_done"}
    <3>1. SqlCards(u, e) = ViewCards(u, e)
      BY <2>3 DEF SqlCards
    <3>2. ViewCards(u, e)[k].status # None => u[k].status # None
      BY <1>2, <1>4, CardsAfter
    <3> QED BY <1>4, <3>1, <3>2
  <2> QED BY <2>1, <2>2, <2>3
<1>5. ASSUME NEW p \in Project, w[p] = NoProject, e # ProjectEvent("project_created", p)
      PROVE  SqlProjects(w, e)[p] = NoProject
  <2>1. CASE e.type = "project_created"
    <3>1. e.project \in Project /\ e.project # p
      BY <1>0, <1>5, <2>1 DEF Fields, ProjectOnly
    <3> QED BY <1>2, <1>5, <2>1, <3>1 DEF SqlProjects
  <2>2. CASE e.type # "project_created" /\ e.type \in ProjectOnly
    <3>1. e.project \in Project
      BY <1>0, <2>2 DEF Fields
    <3>2. NoProject.status = None
      BY DEF NoProject
    <3> QED BY <1>2, <1>5, <2>2, <3>1, <3>2 DEF SqlProjects, ViewProjects
  <2>3. CASE e.type \notin ProjectOnly
    BY <1>5, <2>3 DEF SqlProjects, ViewProjects, ProjectOnly
  <2> QED BY <2>1, <2>2, <2>3
<1>6. ASSUME e.type \in {"created", "message"}, NEW s \in Session
      PROVE  SqlSessions(t, e)[s].card = t[s].card
  <2>1. CASE e.type = "message"
    BY <2>1 DEF SqlSessions
  <2>2. CASE e.type = "created"
    <3>1. e.session \in Session /\ t[s] \in SessionRow
      BY <1>0, <1>2, <2>2 DEF Fields, SessionTypes
    <3>2. SqlSessions(t, e) = [t EXCEPT ![e.session].source = e.source,
                                        ![e.session].titled = e.titled]
      BY <2>2 DEF SqlSessions
    <3> QED BY <1>2, <3>1, <3>2 DEF SessionRow
  <2> QED BY <1>6, <2>1, <2>2
<1>7. \A s \in Session : Known(SqlSessions(t, e), s) <=> Known(t, s) \/ Creates(e, s)
  BY <1>2, SqlSessionsTyped
<1> QED BY <1>1, <1>3, <1>4, <1>5, <1>6, <1>7

(* ProjectAll goes through one set of rows per event.                      *)
IsProjecting(f, r, q, m) == f = [n \in 0..m |-> IF n = 0 THEN r ELSE ApplySql(f[n - 1], q[n])]

LEMMA ProjectingExists ==
  ASSUME NEW r, NEW q, Len(q) \in Nat
  PROVE  \E f : IsProjecting(f, r, q, Len(q))
<1> DEFINE T == {m \in Nat : \E f : IsProjecting(f, r, q, m)}
<1>1. 0 \in T
  <2>1. IsProjecting([n \in 0..0 |-> r], r, q, 0)
    BY DEF IsProjecting
  <2> QED BY <2>1
<1>2. ASSUME NEW m \in T PROVE m + 1 \in T
  <2>1. PICK f : IsProjecting(f, r, q, m)
    OBVIOUS
  <2> DEFINE g == [n \in 0..(m + 1) |-> IF n = m + 1 THEN ApplySql(f[m], q[m + 1]) ELSE f[n]]
  <2>2. ASSUME NEW n \in 0..(m + 1)
        PROVE  g[n] = IF n = 0 THEN r ELSE ApplySql(g[n - 1], q[n])
    <3>1. m \in Nat
      OBVIOUS
    <3>2. CASE n = m + 1
      <4>1. g[n - 1] = f[m] /\ n # 0
        BY <3>1, <3>2
      <4> QED BY <4>1, <3>1, <3>2
    <3>3. CASE n # m + 1 /\ n # 0
      <4>1. n \in 0..m /\ n - 1 \in 0..m /\ g[n - 1] = f[n - 1] /\ g[n] = f[n]
        BY <3>1, <3>3
      <4>2. f[n] = ApplySql(f[n - 1], q[n])
        BY <2>1, <3>3, <4>1 DEF IsProjecting
      <4> QED BY <3>3, <4>1, <4>2
    <3>4. CASE n # m + 1 /\ n = 0
      BY <2>1, <3>1, <3>4 DEF IsProjecting
    <3> QED BY <3>2, <3>3, <3>4
  <2>3. IsProjecting(g, r, q, m + 1)
    BY <2>2 DEF IsProjecting
  <2>4. \E h : IsProjecting(h, r, q, m + 1)
    <3> HIDE DEF g
    <3> QED BY <2>3
  <2> QED BY <2>4
<1>3. T = Nat
  <2>1. T \in SUBSET Nat
    OBVIOUS
  <2> HIDE DEF T
  <2> QED BY <1>1, <1>2, <2>1, SetInduction
<1> QED BY <1>3

LEMMA ProjectAllIs ==
  ASSUME NEW r \in Rows, NEW q \in Seq(Event)
  PROVE  \E f \in [0..Len(q) -> Rows] :
           /\ f[0] = r /\ ProjectAll(r, q) = f[Len(q)]
           /\ \A n \in 1..Len(q) : f[n] = ApplySql(f[n - 1], q[n])
<1> DEFINE f == CHOOSE f : f = [n \in 0..Len(q) |-> IF n = 0 THEN r ELSE ApplySql(f[n - 1], q[n])]
<1>0. Len(q) \in Nat
  OBVIOUS
<1>1. f = [n \in 0..Len(q) |-> IF n = 0 THEN r ELSE ApplySql(f[n - 1], q[n])]
  BY <1>0, ProjectingExists DEF IsProjecting
<1>2. ProjectAll(r, q) = f[Len(q)]
  BY DEF ProjectAll
<1> HIDE DEF f
<1>3. f[0] = r
  BY <1>0, <1>1
<1>4. \A n \in 1..Len(q) : f[n] = ApplySql(f[n - 1], q[n])
  <2>1. ASSUME NEW n \in 1..Len(q)
        PROVE  f[n] = ApplySql(f[n - 1], q[n])
    <3>1. n \in 0..Len(q) /\ n # 0
      BY <1>0
    <3> QED BY <1>1, <3>1
  <2> QED BY <2>1
<1>5. \A n \in 0..Len(q) : f[n] \in Rows
  <2> DEFINE T == {n \in 0..Len(q) : f[n] \in Rows}
  <2>1. 0 \in T
    BY <1>0, <1>3
  <2>2. ASSUME NEW n \in 0..(Len(q) - 1), n \in T
        PROVE  n + 1 \in T
    <3>1. n + 1 \in 1..Len(q) /\ n + 1 - 1 = n /\ f[n] \in Rows
      BY <1>0, <2>2
    <3>2. q[n + 1] \in Event /\ f[n + 1] = ApplySql(f[n], q[n + 1])
      BY <1>4, <3>1
    <3>3. f[n + 1] \in Rows
      BY <3>1, <3>2, RowsAfter
    <3> QED BY <3>1, <3>3
  <2> HIDE DEF T
  <2>3. \A n \in 0..Len(q) : n \in T
    BY <1>0, <2>1, <2>2, UpTo
  <2> QED BY <2>3 DEF T
<1>6. f \in [0..Len(q) -> Rows]
  <2>1. f = [n \in 0..Len(q) |-> f[n]]
    BY <1>1
  <2> QED BY <1>5, <2>1
<1> QED BY <1>2, <1>3, <1>4, <1>6

(* x is what the first n events of E make of the rows r.                   *)
After(x, r, E, n) ==
  /\ \A s \in Session :
       Known(x.sessions, s) <=> Known(r.sessions, s) \/ \E j \in 1..n : Creates(E[j], s)
  /\ \A k \in Card :
       r.cards[k].status = None /\ (\A j \in 1..n : E[j] # CardEvent("card_created", k)) =>
         x.cards[k].status = None
  /\ \A p \in Project :
       r.projects[p] = NoProject /\ (\A j \in 1..n : E[j] # ProjectEvent("project_created", p)) =>
         x.projects[p] = NoProject
  /\ (\A j \in 1..n : E[j].type \in {"created", "message"}) =>
       \A s \in Session : x.sessions[s].card = r.sessions[s].card

LEMMA BatchAfter ==
  ASSUME NEW r \in Rows, NEW E \in Seq(Event), NEW f \in [0..Len(E) -> Rows], f[0] = r,
         \A n \in 1..Len(E) : f[n] = ApplySql(f[n - 1], E[n])
  PROVE  \A n \in 0..Len(E) : After(f[n], r, E, n)
<1> DEFINE T == {n \in 0..Len(E) : After(f[n], r, E, n)}
<1>0. Len(E) \in Nat
  OBVIOUS
<1>1. 0 \in T
  <2>1. After(r, r, E, 0)
    BY DEF After
  <2> QED BY <1>0, <2>1
<1>2. ASSUME NEW n \in 0..(Len(E) - 1), n \in T
      PROVE  n + 1 \in T
  <2>1. /\ n \in 0..Len(E) /\ n + 1 \in 1..Len(E) /\ n + 1 - 1 = n /\ n + 1 \in 0..Len(E) /\ n \in Nat
        /\ \A j : j \in 1..(n + 1) <=> j \in 1..n \/ j = n + 1
    BY <1>0
  <2>2. PICK x, e : x = f[n] /\ e = E[n + 1]
    OBVIOUS
  <2>3. x \in Rows /\ e \in Event /\ f[n + 1] = ApplySql(x, e) /\ After(x, r, E, n)
    BY <1>0, <1>2, <2>1, <2>2
  <2>4. PICK y : y = ApplySql(x, e)
    OBVIOUS
  <2>5. /\ \A s \in Session : Known(y.sessions, s) <=> Known(x.sessions, s) \/ Creates(e, s)
        /\ \A k \in Card : x.cards[k].status = None /\ e # CardEvent("card_created", k) =>
             y.cards[k].status = None
        /\ \A p \in Project : x.projects[p] = NoProject /\ e # ProjectEvent("project_created", p) =>
             y.projects[p] = NoProject
        /\ e.type \in {"created", "message"} =>
             \A s \in Session : y.sessions[s].card = x.sessions[s].card
    BY <2>3, <2>4, NotMadeYet
  <2>6. \A s \in Session :
          Known(y.sessions, s) <=> Known(r.sessions, s) \/ \E j \in 1..(n + 1) : Creates(E[j], s)
    BY <2>1, <2>2, <2>3, <2>5 DEF After
  <2>7. \A k \in Card :
          r.cards[k].status = None /\ (\A j \in 1..(n + 1) : E[j] # CardEvent("card_created", k)) =>
            y.cards[k].status = None
    BY <2>1, <2>2, <2>3, <2>5 DEF After
  <2>8. \A p \in Project :
          r.projects[p] = NoProject /\ (\A j \in 1..(n + 1) : E[j] # ProjectEvent("project_created", p)) =>
            y.projects[p] = NoProject
    BY <2>1, <2>2, <2>3, <2>5 DEF After
  <2>9. (\A j \in 1..(n + 1) : E[j].type \in {"created", "message"}) =>
          \A s \in Session : y.sessions[s].card = r.sessions[s].card
    BY <2>1, <2>2, <2>3, <2>5 DEF After
  <2>10. After(y, r, E, n + 1)
    BY <2>6, <2>7, <2>8, <2>9 DEF After
  <2> QED BY <2>1, <2>3, <2>4, <2>10
<1> HIDE DEF T
<1>3. \A n \in 0..Len(E) : n \in T
  BY <1>0, <1>1, <1>2, UpTo
<1> QED BY <1>3 DEF T

LEMMA NextSuits ==
  ASSUME NEW r \in Rows, Tidy(r.sessions), NEW E \in Seq(Event), Suitable(E, r),
         NEW n \in 0..(Len(E) - 1), NEW x \in Rows, After(x, r, E, n)
  PROVE  Suits(E[n + 1], x)
<1>0. /\ n + 1 \in 1..Len(E) /\ E[n + 1] \in Event
      /\ \A j \in 1..n : j \in 1..Len(E) /\ j < n + 1 /\ E[j] \in Event
  OBVIOUS
<1>1. PICK e : e = E[n + 1]
  OBVIOUS
<1>2. e \in Event /\ Fields(e)
  BY <1>0, <1>1, EventFields
<1>3. e.type # "handover" => Suits(e, r)
  BY <1>0, <1>1 DEF Suitable
<1>4. ASSUME e.type = "created" PROVE ~Known(x.sessions, e.session)
  <2>1. ~Known(r.sessions, e.session) /\ e.session \in Session
    BY <1>2, <1>3, <1>4 DEF Suits, Fields, SessionTypes
  <2>2. \A j \in 1..n : ~Creates(E[j], e.session)
    BY <1>0, <1>1, <1>4 DEF Suitable, Creates
  <2> QED BY <2>1, <2>2 DEF After
<1>5. ASSUME e.type = "forked" PROVE Known(x.sessions, e.parent)
  BY <1>2, <1>3, <1>5 DEF Suits, Fields, After
<1>6. ASSUME e.type = "handover" PROVE x.sessions[e.session].card = None
  <2>1. ~Known(r.sessions, e.session) /\ e.session \in Session
    BY <1>0, <1>1, <1>2, <1>6 DEF Suitable, Fields, SessionTypes
  <2>2. r.sessions[e.session].card = None
    BY <2>1 DEF Tidy, Alike, NoSession
  <2>3. \A j \in 1..n : E[j].type \in {"created", "message"}
    BY <1>0, <1>1, <1>6 DEF Suitable
  <2> QED BY <2>1, <2>2, <2>3 DEF After
<1>7. ASSUME e.type = "card_created" PROVE x.cards[e.card].status = None
  <2>1. r.cards[e.card].status = None /\ e.card \in Card /\ e = CardEvent("card_created", e.card)
    BY <1>2, <1>3, <1>7 DEF Suits, Fields, CardOnly
  <2>2. \A j \in 1..n : E[j] # e
    BY <1>0, <1>1, <1>7 DEF Suitable, Firsts
  <2> QED BY <2>1, <2>2 DEF After
<1>8. ASSUME e.type = "project_created" PROVE x.projects[e.project] = NoProject
  <2>1. /\ r.projects[e.project] = NoProject /\ e.project \in Project
        /\ e = ProjectEvent("project_created", e.project)
    BY <1>2, <1>3, <1>8 DEF Suits, Fields, ProjectOnly
  <2>2. \A j \in 1..n : E[j] # e
    BY <1>0, <1>1, <1>8 DEF Suitable, Firsts
  <2> QED BY <2>1, <2>2 DEF After
<1> QED BY <1>1, <1>4, <1>5, <1>6, <1>7, <1>8 DEF Suits

(* A batch that suits the rows, and what is shown of it.                   *)
LEMMA BatchAlike ==
  ASSUME NEW r \in Rows, NEW v \in Views, SaysTheSame(r, v), NEW E \in Seq(Event),
         NEW F \in Seq(Event), Suitable(E, r), ToldAs(E, F)
  PROVE  SaysTheSame(ProjectAll(r, E), ShowAll(v, F))
<1>1. PICK f \in [0..Len(E) -> Rows] :
        /\ f[0] = r /\ ProjectAll(r, E) = f[Len(E)]
        /\ \A n \in 1..Len(E) : f[n] = ApplySql(f[n - 1], E[n])
  BY ProjectAllIs
<1>2. PICK g \in [0..Len(F) -> Views] :
        /\ g[0] = v /\ ShowAll(v, F) = g[Len(F)]
        /\ \A n \in 1..Len(F) : g[n] = ApplyView(g[n - 1], F[n])
  BY ShowAllIs
<1>3. /\ Len(E) = Len(F) /\ Len(E) \in Nat /\ Len(E) \in 0..Len(E)
      /\ \A n \in 1..Len(E) : Tells(E[n], F[n])
  BY DEF ToldAs
<1>4. \A n \in 0..Len(E) : After(f[n], r, E, n)
  BY <1>1, BatchAfter
<1> DEFINE T == {n \in 0..Len(E) : SaysTheSame(f[n], g[n])}
<1>5. 0 \in T
  BY <1>1, <1>2, <1>3
<1>6. ASSUME NEW n \in 0..(Len(E) - 1), n \in T
      PROVE  n + 1 \in T
  <2>1. n \in 0..Len(E) /\ n + 1 \in 1..Len(E) /\ n + 1 - 1 = n /\ n + 1 \in 0..Len(E)
    BY <1>3
  <2>2. PICK x, y, e, d : x = f[n] /\ y = g[n] /\ e = E[n + 1] /\ d = F[n + 1]
    OBVIOUS
  <2>3. /\ x \in Rows /\ y \in Views /\ e \in Event /\ d \in Event
        /\ f[n + 1] = ApplySql(x, e) /\ g[n + 1] = ApplyView(y, d)
        /\ SaysTheSame(x, y) /\ Tells(e, d) /\ After(x, r, E, n)
    BY <1>1, <1>2, <1>3, <1>4, <1>6, <2>1, <2>2
  <2>4. Suits(e, x)
    BY <2>2, <2>3, NextSuits DEF SaysTheSame
  <2>5. SaysTheSame(ApplySql(x, e), ApplyView(y, d))
    BY <2>3, <2>4, OneAlike
  <2> QED BY <2>1, <2>3, <2>5
<1> HIDE DEF T
<1>7. \A n \in 0..Len(E) : n \in T
  BY <1>3, <1>5, <1>6, UpTo
<1> QED BY <1>1, <1>2, <1>3, <1>7 DEF T

(* ... and the rows stay rows, with the sessions that they had.            *)
LEMMA BatchKeeps ==
  ASSUME NEW r \in Rows, NEW E \in Seq(Event)
  PROVE  /\ ProjectAll(r, E) \in Rows
         /\ \A s \in Session : Known(r.sessions, s) => Known(ProjectAll(r, E).sessions, s)
<1>1. PICK f \in [0..Len(E) -> Rows] :
        /\ f[0] = r /\ ProjectAll(r, E) = f[Len(E)]
        /\ \A n \in 1..Len(E) : f[n] = ApplySql(f[n - 1], E[n])
  BY ProjectAllIs
<1>2. Len(E) \in 0..Len(E)
  OBVIOUS
<1>3. After(f[Len(E)], r, E, Len(E))
  BY <1>1, <1>2, BatchAfter
<1> QED BY <1>1, <1>2, <1>3 DEF After

(* Events that create nothing suit in any order.                           *)
LEMMA LaterSuits ==
  ASSUME NEW r, NEW E, \A n \in 1..Len(E) : Later(E[n], r)
  PROVE  Suitable(E, r)
BY DEF Later, Suitable, Firsts

LEMMA LaterStays ==
  ASSUME NEW r \in Rows, NEW E \in Seq(Event), NEW e \in Event, Later(e, r)
  PROVE  Later(e, ProjectAll(r, E))
<1>1. e.type = "forked" => e.parent \in Session
  BY EventFields DEF Fields
<1> QED BY <1>1, BatchKeeps DEF Later, Suits, Firsts

(* A batch is shown after what was shown before it.                        *)
LEMMA ShownInTurn ==
  ASSUME NEW v \in Views, NEW q \in Seq(Event), NEW E \in Seq(Event)
  PROVE  ShowAll(v, q \o E) = ShowAll(ShowAll(v, q), E)
<1>1. PICK r : r = q \o E
  OBVIOUS
<1>2. Grows(r, q, E)
  BY <1>1, AppendGrows
<1>3. PICK w : w = ShowAll(v, q)
  OBVIOUS
<1>4. w \in Views /\ r \in Seq(Event)
  BY <1>2, <1>3, AllTyped DEF Grows
<1>5. PICK f \in [0..Len(q) -> Views] :
        /\ f[0] = v /\ w = f[Len(q)]
        /\ \A n \in 1..Len(q) : f[n] = ApplyView(f[n - 1], q[n])
  BY <1>3, ShowAllIs
<1>6. PICK g \in [0..Len(E) -> Views] :
        /\ g[0] = w /\ ShowAll(w, E) = g[Len(E)]
        /\ \A n \in 1..Len(E) : g[n] = ApplyView(g[n - 1], E[n])
  BY <1>4, ShowAllIs
<1>7. PICK h \in [0..Len(r) -> Views] :
        /\ h[0] = v /\ ShowAll(v, r) = h[Len(r)]
        /\ \A n \in 1..Len(r) : h[n] = ApplyView(h[n - 1], r[n])
  BY <1>4, ShowAllIs
<1>8. PICK N, M : N = Len(q) /\ M = Len(E)
  OBVIOUS
<1>9. /\ N \in Nat /\ M \in Nat /\ Len(r) = N + M
      /\ \A i \in 1..N : i \in 1..(N + M) /\ r[i] = q[i]
      /\ \A j \in 1..M : N + j \in 1..(N + M) /\ r[N + j] = E[j]
  BY <1>2, <1>8 DEF Grows
<1>10. h[N] = f[N]
  <2> DEFINE T == {n \in 0..N : h[n] = f[n]}
  <2>1. 0 \in T
    BY <1>5, <1>7, <1>9
  <2>2. ASSUME NEW n \in 0..(N - 1), n \in T
        PROVE  n + 1 \in T
    <3>1. n + 1 \in 1..N /\ n + 1 - 1 = n /\ n + 1 \in 0..N /\ n + 1 \in 1..(N + M)
      BY <1>9
    <3>2. h[n + 1] = ApplyView(h[n], r[n + 1]) /\ f[n + 1] = ApplyView(f[n], q[n + 1])
      BY <1>5, <1>7, <1>8, <1>9, <3>1
    <3>3. r[n + 1] = q[n + 1] /\ h[n] = f[n]
      BY <1>9, <2>2, <3>1
    <3> QED BY <3>1, <3>2, <3>3
  <2> HIDE DEF T
  <2>3. \A n \in 0..N : n \in T
    BY <1>9, <2>1, <2>2, UpTo
  <2>4. N \in 0..N
    BY <1>9
  <2> QED BY <2>3, <2>4 DEF T
<1>11. h[N + M] = g[M]
  <2> DEFINE T == {n \in 0..M : h[N + n] = g[n]}
  <2>1. 0 \in T
    <3>1. N + 0 = N /\ 0 \in 0..M
      BY <1>9
    <3> QED BY <1>5, <1>6, <1>8, <1>10, <3>1
  <2>2. ASSUME NEW n \in 0..(M - 1), n \in T
        PROVE  n + 1 \in T
    <3>1. /\ n + 1 \in 1..M /\ n + 1 - 1 = n /\ n + 1 \in 0..M
          /\ N + (n + 1) \in 1..(N + M) /\ N + (n + 1) - 1 = N + n
      BY <1>9
    <3>2. h[N + (n + 1)] = ApplyView(h[N + n], r[N + (n + 1)])
      BY <1>7, <1>9, <3>1
    <3>3. g[n + 1] = ApplyView(g[n], E[n + 1])
      BY <1>6, <1>8, <3>1
    <3>4. r[N + (n + 1)] = E[n + 1] /\ h[N + n] = g[n]
      BY <1>9, <2>2, <3>1
    <3> QED BY <3>1, <3>2, <3>3, <3>4
  <2> HIDE DEF T
  <2>3. \A n \in 0..M : n \in T
    BY <1>9, <2>1, <2>2, UpTo
  <2>4. M \in 0..M
    BY <1>9
  <2> QED BY <2>3, <2>4 DEF T
<1> QED BY <1>1, <1>3, <1>6, <1>7, <1>8, <1>9, <1>11

(***************************************************************************)
(* The log at the start, and the import.                                   *)
(***************************************************************************)
LEMMA SetToSeqOnce ==
  ASSUME NEW S, IsFiniteSet(S)
  PROVE  \A i, j \in 1..Len(SetToSeq(S)) : SetToSeq(S)[i] = SetToSeq(S)[j] => i = j
<1>1. Cardinality(S) \in Nat /\ ExistsBijection(1..Cardinality(S), S)
  BY FS_CardinalityType
<1>2. \E f \in [1..Cardinality(S) -> S] : IsInjective(f)
  BY <1>1 DEF ExistsBijection, Bijection, Injection, IsInjective
<1>3. SetToSeq(S) \in [1..Cardinality(S) -> S] /\ IsInjective(SetToSeq(S))
  BY <1>2 DEF SetToSeq
<1>4. DOMAIN SetToSeq(S) = 1..Len(SetToSeq(S))
  BY <1>1, <1>3
<1> QED BY <1>3, <1>4 DEF IsInjective

LEMMA EarlierSuits ==
  /\ Suitable(Earlier, Empty)
  /\ \A i \in 1..Len(Earlier) : Earlier[i].type = "created" => Earlier[i].session \in NativeId
<1> DEFINE seq == SetToSeq(Stored)
<1>1. /\ seq \in Seq(Stored) /\ Len(seq) \in Nat
      /\ \A i, j \in 1..Len(seq) : seq[i] = seq[j] => i = j
  <2>1. seq \in Seq(Stored)
    BY SetToSeqTyped DEF StoreAssumption
  <2>2. \A i, j \in 1..Len(seq) : seq[i] = seq[j] => i = j
    BY SetToSeqOnce DEF StoreAssumption
  <2> QED BY <2>1, <2>2
<1>2. /\ Earlier \in Seq(Event) /\ Len(Earlier) = Len(seq)
      /\ \A i \in 1..Len(seq) :
           Earlier[i] = IF seq[i] \in Project THEN ProjectEvent("project_created", seq[i])
                        ELSE IF seq[i] \in NativeId THEN Created(seq[i], "stellarc", FALSE)
                        ELSE CardEvent("card_created", seq[i])
  <2> DEFINE at(i) == IF seq[i] \in Project THEN ProjectEvent("project_created", seq[i])
                      ELSE IF seq[i] \in NativeId THEN Created(seq[i], "stellarc", FALSE)
                      ELSE CardEvent("card_created", seq[i])
  <2>1. Earlier = [i \in 1..Len(seq) |-> at(i)]
    <3>1. DOMAIN seq = 1..Len(seq)
      BY <1>1
    <3> HIDE DEF seq
    <3> QED BY <3>1 DEF Earlier, seq
  <2>2. Earlier \in Seq(Event)
    BY EarlierTyped
  <2> HIDE DEF at, seq
  <2>3. Len(Earlier) = Len(seq)
    BY <1>1, <2>1
  <2>4. \A i \in 1..Len(seq) : Earlier[i] = at(i)
    BY <2>1
  <2> QED BY <2>2, <2>3, <2>4 DEF at
<1> HIDE DEF seq
<1> DEFINE Made(i) ==
      \/ Earlier[i].type = "project_created" /\ Earlier[i].project = seq[i]
      \/ /\ Earlier[i].type = "created" /\ Earlier[i].session = seq[i] /\ seq[i] \in NativeId
      \/ Earlier[i].type = "card_created" /\ Earlier[i].card = seq[i]
<1>3. ASSUME NEW i \in 1..Len(seq) PROVE Made(i)
  <2>1. \A x : ProjectEvent("project_created", x).type = "project_created"
               /\ ProjectEvent("project_created", x).project = x
    BY DEF ProjectEvent
  <2>2. \A x : Created(x, "stellarc", FALSE).type = "created"
               /\ Created(x, "stellarc", FALSE).session = x
    BY DEF Created
  <2>3. \A x : CardEvent("card_created", x).type = "card_created"
               /\ CardEvent("card_created", x).card = x
    BY DEF CardEvent
  <2>4. CASE seq[i] \in Project
    BY <1>2, <2>1, <2>4
  <2>5. CASE seq[i] \notin Project /\ seq[i] \in NativeId
    BY <1>2, <2>2, <2>5
  <2>6. CASE seq[i] \notin Project /\ seq[i] \notin NativeId
    BY <1>2, <2>3, <2>6
  <2> QED BY <2>4, <2>5, <2>6
<1>4. ASSUME NEW i \in 1..Len(Earlier) PROVE Suits(Earlier[i], Empty)
  <2>1. PICK e : e = Earlier[i]
    OBVIOUS
  <2>2. Fields(e) /\ e.type \in {"created", "card_created", "project_created"}
    BY <1>2, <1>3, <2>1, EventFields
  <2>3. e.type = "created" => ~Known(Empty.sessions, e.session)
    BY <2>2 DEF Fields, SessionTypes, Known, Empty, NoSession
  <2>4. e.type = "card_created" => Empty.cards[e.card].status = None
    BY <2>2 DEF Fields, CardOnly, Empty, NoCard
  <2>5. e.type = "project_created" => Empty.projects[e.project] = NoProject
    BY <2>2 DEF Fields, ProjectOnly, Empty
  <2> QED BY <2>1, <2>2, <2>3, <2>4, <2>5 DEF Suits
<1>5. ASSUME NEW m \in 1..Len(Earlier), NEW n \in 1..Len(Earlier), m < n
      PROVE  /\ Earlier[m] # Earlier[n]
             /\ Earlier[n].type = "created" /\ Earlier[m].type = "created" =>
                  Earlier[m].session # Earlier[n].session
  <2>1. seq[m] # seq[n] /\ Made(m) /\ Made(n)
    <3>1. m # n
      BY <1>2, <1>5
    <3> QED BY <1>1, <1>2, <1>3, <3>1
  <2> QED BY <2>1
<1>6. \A i \in 1..Len(Earlier) : Earlier[i].type # "handover"
  BY <1>2, <1>3
<1>7. Suitable(Earlier, Empty)
  BY <1>4, <1>5, <1>6 DEF Suitable
<1>8. \A i \in 1..Len(Earlier) : Earlier[i].type = "created" => Earlier[i].session \in NativeId
  BY <1>2, <1>3
<1> QED BY <1>7, <1>8

LEMMA EmptyAlike ==
  Empty \in Rows /\ SaysTheSame(Empty, Empty)
<1>1. /\ Empty.sessions = [s \in Session |-> NoSession] /\ Empty.cards = [k \in Card |-> NoCard]
      /\ Empty.projects = [p \in Project |-> NoProject]
  BY DEF Empty
<1>2. Empty \in Rows
  <2>1. Empty \in Views
    BY EmptyTyped
  <2>2. /\ Empty.sessions \in [Session -> SessionRow] /\ Empty.cards \in [Card -> CardRow]
        /\ Empty.projects \in [Project -> ProjectRow]
    BY <2>1 DEF Views
  <2>3. Empty.messages \in SUBSET (Session \X Int) /\ Empty.hot \in {[s \in Session |-> <<>>]}
    BY DEF Empty
  <2>4. PICK a, b, c, d, e : /\ a = Empty.sessions /\ b = Empty.cards /\ c = Empty.projects
                             /\ d = Empty.messages /\ e = Empty.hot
    OBVIOUS
  <2>5. Empty = [sessions |-> a, cards |-> b, projects |-> c, messages |-> d, hot |-> e]
    BY <2>4 DEF Empty
  <2> QED BY <2>2, <2>3, <2>4, <2>5 DEF Rows
<1>3. SaysTheSame(Empty, Empty)
  <2>1. Tidy(Empty.sessions) /\ \A s \in Session : Alike(Empty.sessions[s], Empty.sessions[s])
    BY <1>1 DEF Tidy, Alike
  <2>2. TidyCards(Empty.cards) /\ \A k \in Card : AlikeCards(Empty.cards[k], Empty.cards[k])
    BY <1>1 DEF TidyCards, AlikeCards, NoCard
  <2> QED BY <2>1, <2>2 DEF SaysTheSame
<1> QED BY <1>2, <1>3

LEMMA ToldAsItself ==
  ASSUME NEW E
  PROVE  ToldAs(E, E)
BY DEF ToldAs, Tells

Imports ==
  LET all == SetToSeq(HermesId) IN [i \in DOMAIN all |-> Created(all[i], "cli", TRUE)]

LEMMA ImportsSuit ==
  /\ Imports \in Seq(Event)
  /\ \A r : (\A s \in HermesId : ~Known(r.sessions, s)) => Suitable(Imports, r)
<1> DEFINE all == SetToSeq(HermesId)
<1>1. /\ all \in Seq(HermesId) /\ Len(all) \in Nat
      /\ \A i, j \in 1..Len(all) : all[i] = all[j] => i = j
  <2>1. all \in Seq(HermesId)
    BY SetToSeqTyped DEF StoreAssumption
  <2>2. \A i, j \in 1..Len(all) : all[i] = all[j] => i = j
    BY SetToSeqOnce DEF StoreAssumption
  <2> QED BY <2>1, <2>2
<1>2. Imports = [i \in 1..Len(all) |-> Created(all[i], "cli", TRUE)]
  <2>1. DOMAIN all = 1..Len(all)
    BY <1>1
  <2> HIDE DEF all
  <2> QED BY <2>1 DEF Imports, all
<1> HIDE DEF all
<1>3. \A i \in 1..Len(all) : Created(all[i], "cli", TRUE) \in Event /\ all[i] \in HermesId
  <2>1. "cli" \in {"stellarc", "cli"} /\ \A i \in 1..Len(all) : all[i] \in HermesId
    BY <1>1
  <2> QED BY <2>1, EventsTyped DEF Session
<1>4. Imports \in [1..Len(all) -> Event]
  BY <1>2, <1>3
<1>5. Imports \in Seq(Event) /\ Len(Imports) = Len(all)
  <2>1. \A q \in [1..Len(all) -> Event] : q \in Seq(Event) /\ Len(q) = Len(all)
    BY <1>1
  <2> QED BY <1>4, <2>1
<1>6. \A i \in 1..Len(all) : /\ Imports[i].type = "created" /\ Imports[i].session = all[i]
                             /\ all[i] \in HermesId
  BY <1>2, <1>3 DEF Created
<1>7. ASSUME NEW r, \A s \in HermesId : ~Known(r.sessions, s)
      PROVE  Suitable(Imports, r)
  <2>1. \A i \in 1..Len(Imports) : Suits(Imports[i], r)
    BY <1>5, <1>6, <1>7 DEF Suits
  <2>2. \A m, n \in 1..Len(Imports) : m < n => Imports[m].session # Imports[n].session
    <3>1. \A m, n \in 1..Len(all) : m < n => m # n
      BY <1>1
    <3> QED BY <1>1, <1>5, <1>6, <3>1
  <2> QED BY <1>5, <1>6, <2>1, <2>2 DEF Suitable
<1> QED BY <1>5, <1>7

(***************************************************************************)
(* Handlers that store what suits the rows.                                *)
(***************************************************************************)
LEMMA ComingTwo ==
  ASSUME NEW r, NEW E, NEW F, NEW d, Suitable(E, r), ToldAs(E, F)
  PROVE  Coming(<<Store(E, d), Show(F)>>, r)
<1> DEFINE a == Store(E, d)
           b == Show(F)
           steps == <<a, b>>
<1>1. a.op = "append" /\ a.events = E /\ b.op # "append" /\ b.events = F
  BY DEF Store, Show
<1> HIDE DEF a, b
<1>2. Len(steps) = 2 /\ steps[1] = a /\ steps[2] = b
  OBVIOUS
<1> HIDE DEF steps
<1>3. Coming(steps, r)
  <2>1. \A i \in 1..Len(steps) : i = 1 \/ i = 2
    BY <1>2
  <2> QED BY <1>1, <1>2, <2>1 DEF Coming
<1> QED BY <1>3 DEF steps, a, b

LEMMA ComingFour ==
  ASSUME NEW r, NEW E, NEW F, NEW G, NEW d, Suitable(E, r), ToldAs(E, F),
         \A n \in 1..Len(G) : Later(G[n], r)
  PROVE  Coming(<<Store(E, d), Show(F), Store(G, 0), Show(G)>>, r)
<1> DEFINE a == Store(E, d)
           b == Show(F)
           c == Store(G, 0)
           g == Show(G)
           steps == <<a, b, c, g>>
<1>1. /\ a.op = "append" /\ a.events = E /\ b.op # "append" /\ b.events = F
      /\ c.op = "append" /\ c.events = G /\ g.op # "append" /\ g.events = G
  BY DEF Store, Show
<1> HIDE DEF a, b, c, g
<1>2. Len(steps) = 4 /\ steps[1] = a /\ steps[2] = b /\ steps[3] = c /\ steps[4] = g
  OBVIOUS
<1> HIDE DEF steps
<1>3. ToldAs(G, G)
  BY ToldAsItself
<1>4. Coming(steps, r)
  <2>1. \A i \in 1..Len(steps) : i = 1 \/ i = 2 \/ i = 3 \/ i = 4
    BY <1>2
  <2>2. ASSUME NEW i \in 1..Len(steps), steps[i].op = "append"
        PROVE  /\ i < Len(steps) /\ ToldAs(steps[i].events, steps[i + 1].events)
               /\ IF i = 1 THEN Suitable(steps[i].events, r)
                  ELSE \A n \in 1..Len(steps[i].events) : Later(steps[i].events[n], r)
    <3>1. CASE i = 1
      BY <1>1, <1>2, <3>1
    <3>2. CASE i = 3
      BY <1>1, <1>2, <1>3, <3>2
    <3> QED BY <1>1, <1>2, <2>1, <2>2, <3>1, <3>2
  <2> QED BY <2>2 DEF Coming
<1> QED BY <1>4 DEF steps, a, b, c, g

LEMMA OneSuits ==
  ASSUME NEW e, NEW f, NEW r, Suits(e, r), e.type # "handover"
  PROVE  /\ Suitable(<<e>>, r) /\ (Tells(e, f) => ToldAs(<<e>>, <<f>>))
         /\ e.type \notin Firsts => \A n \in 1..Len(<<e>>) : Later(<<e>>[n], r)
<1>1. PICK E, F : E = <<e>> /\ F = <<f>>
  OBVIOUS
<1>2. Len(E) = 1 /\ E[1] = e /\ Len(F) = 1 /\ F[1] = f
  BY <1>1
<1>3. \A n \in 1..Len(E) : n = 1
  BY <1>2
<1>4. Suitable(E, r)
  BY <1>2, <1>3 DEF Suitable
<1>5. Tells(e, f) => ToldAs(E, F)
  BY <1>2, <1>3 DEF ToldAs
<1>6. e.type \notin Firsts => \A n \in 1..Len(E) : Later(E[n], r)
  BY <1>2, <1>3 DEF Later
<1> QED BY <1>1, <1>4, <1>5, <1>6

LEMMA ShownComes ==
  ASSUME NEW e, NEW r, Suits(e, r), e.type # "handover"
  PROVE  Coming(Shown(e), r)
<1>1. Tells(e, e)
  BY DEF Tells
<1>2. Suitable(<<e>>, r) /\ ToldAs(<<e>>, <<e>>)
  BY <1>1, OneSuits
<1> QED BY <1>2, ComingTwo DEF Shown

LEMMA TwiceComes ==
  ASSUME NEW e, NEW g, NEW r, Suits(e, r), e.type # "handover", Later(g, r)
  PROVE  Coming(Shown(e) \o <<Store(<<g>>, 0), Show(<<g>>)>>, r)
<1>1. Tells(e, e) /\ Suits(g, r) /\ g.type # "handover" /\ g.type \notin Firsts
  BY DEF Tells, Later, Firsts
<1>2. /\ Suitable(<<e>>, r) /\ ToldAs(<<e>>, <<e>>)
      /\ \A n \in 1..Len(<<g>>) : Later(<<g>>[n], r)
  BY <1>1, OneSuits
<1>3. Coming(<<Store(<<e>>, 1), Show(<<e>>), Store(<<g>>, 0), Show(<<g>>)>>, r)
  BY <1>2, ComingFour
<1> QED BY <1>3, FourInTwo DEF Shown

LEMMA ForkComes ==
  ASSUME NEW s, NEW o, NEW r, ~Known(r.sessions, s), Known(r.sessions, o)
  PROVE  Coming(ForkSteps(s, o), r)
<1> DEFINE e == Created(s, "stellarc", FALSE)
           f == Created(s, "stellarc", TRUE)
           g == Forked(s, o)
<1>1. /\ Suits(e, r) /\ e.type # "handover" /\ Tells(e, f)
      /\ Suits(g, r) /\ g.type # "handover" /\ g.type \notin Firsts
  BY DEF Suits, Tells, Created, Forked, Firsts
<1> HIDE DEF e, f, g
<1>2. /\ Suitable(<<e>>, r) /\ ToldAs(<<e>>, <<f>>)
      /\ \A n \in 1..Len(<<g>>) : Later(<<g>>[n], r)
  BY <1>1, OneSuits
<1>3. Coming(<<Store(<<e>>, 3), Show(<<f>>), Store(<<g>>, 0), Show(<<g>>)>>, r)
  BY <1>2, ComingFour
<1> QED BY <1>3 DEF ForkSteps, e, f, g

LEMMA HandoverComes ==
  ASSUME NEW s \in Session, NEW from \in Session, NEW titled, NEW N \in Nat, NEW r,
         ~Known(r.sessions, s)
  PROVE  LET copies == [i \in 1..N |-> Message(s, i - 1, "axis")]
             batch == <<Created(s, "stellarc", titled)>> \o copies
                      \o <<HandedOver(s, from), Archived(from)>>
         IN  Coming(<<Store(batch, 1), Show(batch)>>, r)
<1> DEFINE copies == [i \in 1..N |-> Message(s, i - 1, "axis")]
           a == Created(s, "stellarc", titled)
           b == HandedOver(s, from)
           c == Archived(from)
           batch == <<a>> \o copies \o <<b, c>>
<1>1. /\ a.type = "created" /\ a.session = s /\ b.type = "handover" /\ b.session = s
      /\ c.type = "archived"
  BY DEF Created, HandedOver, Archived
<1>2. \A i \in 1..N : copies[i].type = "message"
  BY DEF Message
<1>3. PICK S : a \in S /\ b \in S /\ c \in S /\ \A i \in 1..N : copies[i] \in S
  <2> DEFINE S == {a, b, c} \cup {copies[i] : i \in 1..N}
  <2>1. a \in S /\ b \in S /\ c \in S /\ \A i \in 1..N : copies[i] \in S
    OBVIOUS
  <2> HIDE DEF S
  <2> QED BY <2>1
<1>4. copies \in [1..N -> S]
  <2>1. copies = [i \in 1..N |-> copies[i]]
    OBVIOUS
  <2> HIDE DEF copies
  <2> QED BY <1>3, <2>1
<1> HIDE DEF a, b, c, copies
<1>5. copies \in Seq(S) /\ Len(copies) = N
  <2>1. \A q \in [1..N -> S] : q \in Seq(S) /\ Len(q) = N
    OBVIOUS
  <2> QED BY <1>4, <2>1
<1>6. <<a>> \in Seq(S) /\ Len(<<a>>) = 1 /\ <<a>>[1] = a
  BY <1>3
<1>7. <<b, c>> \in Seq(S) /\ Len(<<b, c>>) = 2 /\ <<b, c>>[1] = b /\ <<b, c>>[2] = c
  BY <1>3
<1>8. PICK p, q : p = <<a>> \o copies /\ q = <<b, c>>
  OBVIOUS
<1>9. /\ p \in Seq(S) /\ Len(p) = N + 1 /\ p[1] = a
      /\ \A i \in 1..N : p[1 + i] = copies[i]
  <2>1. PICK x : x = <<a>>
    OBVIOUS
  <2>2. x \in Seq(S) /\ Len(x) = 1 /\ x[1] = a /\ p = x \o copies /\ 1 \in Nat /\ 1 \in 1..1
    BY <1>6, <1>8, <2>1
  <2>3. /\ x \o copies \in Seq(S) /\ Len(x \o copies) = 1 + N
        /\ \A i \in 1..1 : (x \o copies)[i] = x[i]
        /\ \A k \in 1..N : (x \o copies)[1 + k] = copies[k]
    <3>1. /\ x \o copies \in Seq(S) /\ Len(x \o copies) = Len(x) + Len(copies)
          /\ \A i \in 1..Len(x) : (x \o copies)[i] = x[i]
          /\ \A i \in 1..Len(copies) : (x \o copies)[Len(x) + i] = copies[i]
      <4>1. x \in Seq(S)
        BY <2>2
      <4>2. copies \in Seq(S)
        BY <1>5
      <4> QED BY <4>1, <4>2
    <3> QED BY <1>5, <2>2, <3>1
  <2>4. 1 + N = N + 1
    OBVIOUS
  <2> QED BY <2>2, <2>3, <2>4
<1>10. /\ Len(batch) = N + 3 /\ batch[1] = a
       /\ \A i \in 1..N : batch[1 + i] = copies[i]
       /\ batch[N + 2] = b /\ batch[N + 3] = c
  <2>1. q \in Seq(S) /\ Len(q) = 2 /\ q[1] = b /\ q[2] = c /\ batch = p \o q
    BY <1>7, <1>8
  <2> HIDE DEF batch
  <2>2. /\ Len(batch) = N + 1 + 2
        /\ \A i \in 1..(N + 1) : batch[i] = p[i]
        /\ \A i \in 1..2 : batch[N + 1 + i] = q[i]
    <3>1. N + 1 \in Nat /\ 2 \in Nat
      OBVIOUS
    <3>2. /\ Len(p \o q) = N + 1 + 2
          /\ \A i \in 1..(N + 1) : (p \o q)[i] = p[i]
          /\ \A i \in 1..2 : (p \o q)[N + 1 + i] = q[i]
      <4>1. /\ Len(p \o q) = Len(p) + Len(q)
            /\ \A i \in 1..Len(p) : (p \o q)[i] = p[i]
            /\ \A i \in 1..Len(q) : (p \o q)[Len(p) + i] = q[i]
        <5>1. p \in Seq(S)
          BY <1>9
        <5>2. q \in Seq(S)
          BY <2>1
        <5> QED BY <5>1, <5>2
      <4> QED BY <1>9, <2>1, <3>1, <4>1
    <3> QED BY <2>1, <3>2
  <2>3. /\ 1 \in 1..(N + 1) /\ \A i \in 1..N : 1 + i \in 1..(N + 1)
        /\ 1 \in 1..2 /\ 2 \in 1..2 /\ N + 1 + 1 = N + 2 /\ N + 1 + 2 = N + 3
    OBVIOUS
  <2> QED BY <1>9, <2>1, <2>2, <2>3
<1> HIDE DEF batch
<1>11. /\ batch[1].type = "created" /\ batch[1].session = s
       /\ \A i \in 2..(N + 1) : batch[i].type = "message"
       /\ batch[N + 2].type = "handover" /\ batch[N + 2].session = s
       /\ batch[N + 3].type = "archived"
  <2>1. ASSUME NEW i \in 2..(N + 1) PROVE batch[i].type = "message"
    <3>1. i - 1 \in 1..N /\ 1 + (i - 1) = i
      OBVIOUS
    <3>2. batch[i] = copies[i - 1]
      BY <1>10, <3>1
    <3> QED BY <1>2, <3>1, <3>2
  <2> QED BY <1>1, <1>10, <2>1
<1>12. \A i \in 1..Len(batch) : i = 1 \/ i \in 2..(N + 1) \/ i = N + 2 \/ i = N + 3
  BY <1>10
<1>13. Suitable(batch, r)
  <2>1. \A i \in 1..Len(batch) : batch[i].type # "handover" => Suits(batch[i], r)
    BY <1>11, <1>12 DEF Suits
  <2>2. \A i \in 1..Len(batch) : batch[i].type \in Firsts \ {"handover"} => i = 1
    BY <1>11, <1>12 DEF Firsts
  <2>3. \A i \in 1..Len(batch) : batch[i].type = "handover" => i = N + 2
    BY <1>11, <1>12
  <2>4. \A i \in 1..Len(batch) : ~(i < 1)
    BY <1>10
  <2>5. \A i \in 1..Len(batch) : i < N + 2 => batch[i].type \in {"created", "message"}
    BY <1>11, <1>12
  <2>6. \A i \in 1..Len(batch) : batch[i].type = "handover" => ~Known(r.sessions, batch[i].session)
    BY <1>11, <2>3
  <2>7. \A i \in 1..Len(batch) : batch[i].type = "created" => i = 1
    BY <1>11, <1>12
  <2> QED BY <2>1, <2>2, <2>3, <2>4, <2>5, <2>6, <2>7 DEF Suitable
<1>14. Coming(<<Store(batch, 1), Show(batch)>>, r)
  BY <1>13, ToldAsItself, ComingTwo
<1> QED BY <1>14 DEF batch, a, b, c, copies

(* What the views are to show next.                                        *)
ToShow(steps, v) ==
  IF steps # <<>> /\ steps[1].op = "apply" THEN ShowAll(v, steps[1].events) ELSE v
Calmly ==
  calm /\ boots = 0 =>
    /\ indexing # "done" => ~Busy
    /\ indexing = "import" => log = Earlier /\ view = Replay(log)
    /\ indexing = "replay" => SaysTheSame(rows, Replay(log))
    /\ indexing # "replay" /\ ~Busy => SaysTheSame(rows, view)
    /\ \A g, h \in Handlers : handlers[g] # <<>> /\ handlers[h] # <<>> => g = h
    /\ \A h \in Handlers : handlers[h] # <<>> =>
         /\ Coming(handlers[h], rows) /\ SaysTheSame(rows, ToShow(handlers[h], view))

RowsInv == rows \in Rows /\ boots \in Nat /\ Calmly

(* A handler begins when nothing else is under way, or it is not calm.     *)
LEMMA BeginsCalmly ==
  ASSUME StoreInv, RowsInv, NEW steps, Begins(steps), Begin(steps),
         SaysTheSame(rows, view) => Coming(steps, rows)
  PROVE  RowsInv'
<1> USE DEF RowsInv
<1>1. /\ UNCHANGED <<log, rows, view, indexing, boots>> /\ begun \in Nat /\ arrived \in Nat
      /\ handlers \in [Handlers -> Seq(Steps)] /\ begun + arrived < MaxWork
      /\ handlers' = [handlers EXCEPT ![begun + 1] = steps]
      /\ calm' = (calm /\ ~Busy /\ indexing = "done")
  BY DEF Begin, StoreInv, StoreTypeOK
<1>2. begun + 1 \in Handlers
  BY <1>1 DEF Handlers, StoreAssumption
<1>3. PICK o \in Handlers : o = begun + 1
  BY <1>2
<1>4. handlers'[o] = steps /\ \A h \in Handlers : h # o => handlers'[h] = handlers[h]
  BY <1>1, <1>3
<1>5. SUFFICES ASSUME calm', boots' = 0 PROVE Calmly'
  BY <1>1 DEF Calmly
<1>6. calm /\ boots = 0 /\ indexing = "done" /\ \A h \in Handlers : handlers[h] = <<>>
  BY <1>1, <1>5 DEF Busy
<1>7. SaysTheSame(rows, view)
  BY <1>6 DEF Calmly, Busy
<1>8. Coming(steps, rows) /\ ToShow(steps, view) = view
  BY <1>7 DEF Begins, Showing, ToShow
<1>9. \A h \in Handlers : handlers'[h] # <<>> => h = o
  BY <1>4, <1>6
<1>10. (indexing # "done")' = FALSE /\ (indexing = "import")' = FALSE /\ (indexing = "replay")' = FALSE
  BY <1>1, <1>6
<1>11. SaysTheSame(rows, view)'
  BY <1>1, <1>7
<1>12. \A h \in Handlers : handlers'[h] # <<>> =>
         Coming(handlers'[h], rows') /\ SaysTheSame(rows', ToShow(handlers'[h], view'))
  BY <1>1, <1>4, <1>7, <1>8, <1>9
<1> QED BY <1>9, <1>10, <1>11, <1>12 DEF Calmly

(* It stores: the rows say what it is about to show.                       *)
LEMMA StoresCalmly ==
  ASSUME StoreInv, RowsInv, NEW h \in Handlers, Do(h), Head(handlers[h]).op = "append",
         AppendBatch(Head(handlers[h]).events), handlers' = [handlers EXCEPT ![h] = Tail(handlers[h])],
         UNCHANGED <<view, calm>>
  PROVE  RowsInv'
<1> USE DEF RowsInv
<1> DEFINE steps == handlers[h]
           E == steps[1].events
           F == steps[2].events
           rest == SubSeq(steps, 2, Len(steps))
<1>1. /\ UNCHANGED <<indexing, boots>>
      /\ handlers \in [Handlers -> Seq(Steps)] /\ steps \in Seq(Steps) /\ steps # <<>>
      /\ view \in Views
  BY DEF Do, StoreInv, StoreTypeOK
<1>2. /\ Head(steps) = steps[1] /\ steps[1] \in Steps /\ Len(steps) \in Nat /\ Len(steps) >= 1
      /\ Tail(steps) = rest
  BY <1>1, TailIsSuffix
<1>3. E \in Seq(Event) /\ rows' = ProjectAll(rows, E) /\ steps[1].op = "append"
  BY <1>2 DEF Steps, AppendBatch
<1>4. 1 < Len(steps) /\ steps[2].op = "apply" /\ steps[2] \in Steps /\ F \in Seq(Event)
  <2>1. Shape(steps) /\ 1 \in 1..Len(steps)
    BY <1>2 DEF StoreInv, Handled
  <2>2. 1 < Len(steps) /\ steps[2].op = "apply"
    BY <1>3, <2>1 DEF Shape
  <2>3. 2 \in 1..Len(steps)
    BY <1>2, <2>2
  <2>4. steps[2] \in Steps
    BY <1>1, <2>3
  <2> QED BY <2>2, <2>4 DEF Steps
<1>5. /\ rest \in Seq(Steps) /\ Len(rest) = Len(steps) - 1
      /\ \A i \in 1..Len(rest) : rest[i] = steps[i + 2 - 1]
  BY <1>1, <1>2, <1>4, SuffixIs
<1>6. rest # <<>> /\ rest[1] = steps[2] /\ handlers' = [handlers EXCEPT ![h] = rest]
  <2>1. 1 \in 1..Len(rest)
    BY <1>2, <1>4, <1>5
  <2>2. rest[1] = steps[2]
    BY <1>5, <2>1
  <2> HIDE DEF rest
  <2>3. rest # <<>>
    BY <2>1
  <2> QED BY <1>2, <2>2, <2>3
<1> HIDE DEF rest, E, F
<1>7. handlers'[h] = rest /\ \A g \in Handlers : g # h => handlers'[g] = handlers[g]
  BY <1>1, <1>6
<1>8. rows' \in Rows
  BY <1>3, BatchKeeps
<1>9. SUFFICES ASSUME calm, boots = 0 PROVE Calmly'
  BY <1>1, <1>8 DEF Calmly
<1>10. /\ indexing = "done" /\ \A g \in Handlers : handlers[g] # <<>> => g = h
       /\ Coming(steps, rows) /\ SaysTheSame(rows, ToShow(steps, view))
  BY <1>1, <1>9 DEF Calmly, Busy
<1>11. SaysTheSame(rows, view)
  BY <1>3, <1>10 DEF ToShow
<1>12. Suitable(E, rows) /\ ToldAs(E, F)
  <2>1. 1 \in 1..Len(steps)
    BY <1>2
  <2> QED BY <1>3, <1>10, <2>1 DEF Coming, E, F
<1>13. SaysTheSame(rows', ShowAll(view, F))
  BY <1>1, <1>3, <1>4, <1>11, <1>12, BatchAlike
<1>14. ToShow(rest, view) = ShowAll(view, F)
  BY <1>4, <1>6 DEF ToShow, F
<1>15. Coming(rest, rows')
  <2>1. ASSUME NEW i \in 1..Len(rest), rest[i].op = "append"
        PROVE  /\ i < Len(rest) /\ ToldAs(rest[i].events, rest[i + 1].events)
               /\ IF i = 1 THEN Suitable(rest[i].events, rows')
                  ELSE \A n \in 1..Len(rest[i].events) : Later(rest[i].events[n], rows')
    <3>1. /\ i \in Nat /\ i + 1 \in 1..Len(steps) /\ i + 2 - 1 = i + 1 /\ i + 1 # 1
          /\ rest[i] = steps[i + 1]
      BY <1>2, <1>5
    <3>2. i # 1
      BY <1>4, <1>6, <2>1
    <3>3. /\ i + 1 < Len(steps) /\ ToldAs(steps[i + 1].events, steps[i + 1 + 1].events)
          /\ \A n \in 1..Len(steps[i + 1].events) : Later(steps[i + 1].events[n], rows)
      <4>1. PICK j : j = i + 1
        OBVIOUS
      <4>2. j \in 1..Len(steps) /\ j # 1 /\ steps[j].op = "append"
        BY <2>1, <3>1, <4>1
      <4>3. /\ j < Len(steps) /\ ToldAs(steps[j].events, steps[j + 1].events)
            /\ \A n \in 1..Len(steps[j].events) : Later(steps[j].events[n], rows)
        BY <1>10, <4>2 DEF Coming
      <4> QED BY <4>1, <4>3
    <3>4. /\ i < Len(rest) /\ i + 1 \in 1..Len(rest) /\ i + 1 + 2 - 1 = i + 1 + 1
      BY <1>2, <1>5, <3>1, <3>3
    <3>5. rest[i + 1] = steps[i + 1 + 1]
      <4>1. PICK j : j = i + 1
        OBVIOUS
      <4>2. j \in 1..Len(rest) /\ j + 2 - 1 = j + 1
        BY <3>4, <4>1
      <4>3. rest[j] = steps[j + 2 - 1]
        BY <1>5, <4>2
      <4> QED BY <4>1, <4>2, <4>3
    <3>6. steps[i + 1].events \in Seq(Event)
      <4>1. steps[i + 1] \in Steps
        BY <1>1, <3>1
      <4> QED BY <4>1 DEF Steps
    <3>7. ASSUME NEW n \in 1..Len(steps[i + 1].events)
          PROVE  Later(steps[i + 1].events[n], rows')
      <4>1. steps[i + 1].events[n] \in Event
        BY <3>6
      <4> QED BY <1>3, <3>3, <4>1, LaterStays
    <3> QED BY <3>1, <3>2, <3>3, <3>4, <3>5, <3>7
  <2> QED BY <2>1 DEF Coming
<1>16. \A g \in Handlers : handlers'[g] # <<>> => g = h
  BY <1>7, <1>10
<1>17. (indexing # "done")' = FALSE /\ (indexing = "import")' = FALSE /\ (indexing = "replay")' = FALSE
  BY <1>1, <1>10
<1>18. Busy'
  BY <1>6, <1>7 DEF Busy
<1>19. \A g \in Handlers : handlers'[g] # <<>> =>
         Coming(handlers'[g], rows') /\ SaysTheSame(rows', ToShow(handlers'[g], view'))
  BY <1>7, <1>13, <1>14, <1>15, <1>16
<1> QED BY <1>16, <1>17, <1>18, <1>19 DEF Calmly

(* It shows: the views say what the rows have said since it stored.        *)
LEMMA ShowsCalmly ==
  ASSUME StoreInv, RowsInv, NEW h \in Handlers, Do(h), Head(handlers[h]).op = "apply",
         view' = ShowAll(view, Head(handlers[h]).events),
         handlers' = [handlers EXCEPT ![h] = Tail(handlers[h])],
         UNCHANGED <<rows, calm>>
  PROVE  RowsInv'
<1> USE DEF RowsInv
<1> DEFINE steps == handlers[h]
           rest == SubSeq(steps, 2, Len(steps))
<1>1. /\ UNCHANGED <<indexing, boots>>
      /\ handlers \in [Handlers -> Seq(Steps)] /\ steps \in Seq(Steps) /\ steps # <<>>
  BY DEF Do, StoreInv, StoreTypeOK
<1>2. /\ Head(steps) = steps[1] /\ steps[1] \in Steps /\ Len(steps) \in Nat /\ Len(steps) >= 1
      /\ Tail(steps) = rest
  BY <1>1, TailIsSuffix
<1>3. steps[1].op = "apply" /\ view' = ToShow(steps, view)
  BY <1>1, <1>2 DEF ToShow
<1>4. handlers' = [handlers EXCEPT ![h] = rest]
  BY <1>2
<1>5. /\ rest \in Seq(Steps) /\ Len(rest) = IF 2 <= Len(steps) THEN Len(steps) - 2 + 1 ELSE 0
      /\ \A i \in 1..Len(rest) : rest[i] = steps[i + 2 - 1] /\ i + 2 - 1 \in 1..Len(steps)
  BY <1>1, <1>2, SuffixIs
<1> HIDE DEF rest
<1>6. rest # <<>> => rest[1].op = "append"
  <2>1. ASSUME rest # <<>> PROVE rest[1].op = "append"
    <3>1. Len(rest) \in Nat /\ Len(rest) # 0
      BY <1>5, <2>1, EmptySeq
    <3>2. 1 \in 1..Len(rest) /\ 1 + 2 - 1 = 2 /\ 2 <= Len(steps) /\ 1 \in 1..Len(steps)
      BY <1>2, <1>5, <3>1
    <3>3. rest[1] = steps[2]
      BY <1>5, <3>2
    <3>4. Shape(steps)
      BY DEF StoreInv, Handled
    <3> QED BY <1>2, <1>3, <3>2, <3>3, <3>4 DEF Shape
  <2> QED BY <2>1
<1>7. handlers'[h] = rest /\ \A g \in Handlers : g # h => handlers'[g] = handlers[g]
  BY <1>1, <1>4
<1>8. SUFFICES ASSUME calm, boots = 0 PROVE Calmly'
  BY <1>1 DEF Calmly
<1>9. /\ indexing = "done" /\ \A g \in Handlers : handlers[g] # <<>> => g = h
      /\ Coming(steps, rows) /\ SaysTheSame(rows, view')
  BY <1>1, <1>3, <1>8 DEF Calmly, Busy
<1>10. ToShow(rest, view') = view'
  BY <1>6 DEF ToShow
<1>11. Coming(rest, rows)
  <2>1. ASSUME NEW i \in 1..Len(rest), rest[i].op = "append"
        PROVE  /\ i < Len(rest) /\ ToldAs(rest[i].events, rest[i + 1].events)
               /\ IF i = 1 THEN Suitable(rest[i].events, rows)
                  ELSE \A n \in 1..Len(rest[i].events) : Later(rest[i].events[n], rows)
    <3>1. /\ i \in Nat /\ i + 1 \in 1..Len(steps) /\ i + 2 - 1 = i + 1 /\ i + 1 # 1
          /\ rest[i] = steps[i + 1]
      BY <1>2, <1>5
    <3>2. /\ i + 1 < Len(steps) /\ ToldAs(steps[i + 1].events, steps[i + 1 + 1].events)
          /\ \A n \in 1..Len(steps[i + 1].events) : Later(steps[i + 1].events[n], rows)
      <4>1. PICK j : j = i + 1
        OBVIOUS
      <4>2. j \in 1..Len(steps) /\ j # 1 /\ steps[j].op = "append"
        BY <2>1, <3>1, <4>1
      <4>3. /\ j < Len(steps) /\ ToldAs(steps[j].events, steps[j + 1].events)
            /\ \A n \in 1..Len(steps[j].events) : Later(steps[j].events[n], rows)
        BY <1>9, <4>2 DEF Coming
      <4> QED BY <4>1, <4>3
    <3>3. i < Len(rest) /\ i + 1 \in 1..Len(rest) /\ i + 1 + 2 - 1 = i + 1 + 1
      BY <1>2, <1>5, <3>1, <3>2
    <3>4. rest[i + 1] = steps[i + 1 + 1]
      <4>1. PICK j : j = i + 1
        OBVIOUS
      <4>2. j \in 1..Len(rest) /\ j + 2 - 1 = j + 1
        BY <3>3, <4>1
      <4>3. rest[j] = steps[j + 2 - 1]
        BY <1>5, <4>2
      <4> QED BY <4>1, <4>2, <4>3
    <3>5. Suitable(steps[i + 1].events, rows)
      BY <3>2, LaterSuits
    <3> QED BY <3>1, <3>2, <3>3, <3>4, <3>5
  <2> QED BY <2>1 DEF Coming
<1>12. \A g \in Handlers : handlers'[g] # <<>> => g = h
  BY <1>7, <1>9
<1>13. (indexing # "done")' = FALSE /\ (indexing = "import")' = FALSE /\ (indexing = "replay")' = FALSE
  BY <1>1, <1>9
<1>14. SaysTheSame(rows, view)'
  BY <1>9
<1>15. \A g \in Handlers : handlers'[g] # <<>> =>
         Coming(handlers'[g], rows') /\ SaysTheSame(rows', ToShow(handlers'[g], view'))
  BY <1>7, <1>9, <1>10, <1>11, <1>12
<1> QED BY <1>12, <1>13, <1>14, <1>15 DEF Calmly

LEMMA DoesCalmly ==
  ASSUME StoreInv, RowsInv, NEW h \in Handlers, Do(h)
  PROVE  RowsInv'
<1> DEFINE step == Head(handlers[h])
           rest == Tail(handlers[h])
<1>1. CASE /\ step.op = "append" /\ AppendBatch(step.events)
           /\ handlers' = [handlers EXCEPT ![h] = rest] /\ UNCHANGED <<view, calm, revived>>
  BY <1>1, StoresCalmly
<1>2. CASE calm' = FALSE /\ UNCHANGED rows
  BY <1>2 DEF Do, RowsInv, Calmly
<1>3. CASE /\ step.op = "apply" /\ view' = ShowAll(view, step.events)
           /\ handlers' = [handlers EXCEPT ![h] = rest] /\ UNCHANGED <<log, rows, calm>>
  BY <1>3, ShowsCalmly
<1> QED BY <1>1, <1>2, <1>3 DEF Do

(* An event of its own.                                                    *)
LEMMA OneProjected ==
  ASSUME NEW r \in Rows, NEW v \in Views, NEW e \in Event
  PROVE  ProjectAll(r, <<e>>) = ApplySql(r, e) /\ ShowAll(v, <<e>>) = ApplyView(v, e)
<1>1. PICK E : E = <<e>>
  OBVIOUS
<1>2. E \in Seq(Event) /\ Len(E) = 1 /\ E[1] = e
  BY <1>1
<1>3. PICK f \in [0..Len(E) -> Rows] :
        /\ f[0] = r /\ ProjectAll(r, E) = f[Len(E)]
        /\ \A n \in 1..Len(E) : f[n] = ApplySql(f[n - 1], E[n])
  BY <1>2, ProjectAllIs
<1>4. PICK g \in [0..Len(E) -> Views] :
        /\ g[0] = v /\ ShowAll(v, E) = g[Len(E)]
        /\ \A n \in 1..Len(E) : g[n] = ApplyView(g[n - 1], E[n])
  BY <1>2, ShowAllIs
<1>5. 1 \in 1..1 /\ 1 - 1 = 0
  OBVIOUS
<1> QED BY <1>1, <1>2, <1>3, <1>4, <1>5

LEMMA LockedCalmly ==
  ASSUME StoreInv, RowsInv, NEW e \in Event, e.type \notin Firsts \cup {"forked"}, Locked(e)
  PROVE  RowsInv'
<1> USE DEF RowsInv
<1>1. /\ UNCHANGED <<handlers, indexing, boots>> /\ rows' = ProjectAll(rows, <<e>>)
      /\ view' = ApplyView(view, e) /\ calm' = (calm /\ ~Busy /\ indexing = "done")
      /\ view \in Views
  BY DEF Locked, AppendBatch, StoreInv, StoreTypeOK
<1>2. rows' = ApplySql(rows, e)
  BY <1>1, OneProjected
<1>3. rows' \in Rows
  BY <1>2, RowsAfter
<1>4. SUFFICES ASSUME calm', boots' = 0 PROVE Calmly'
  BY <1>1, <1>3 DEF Calmly
<1>5. calm /\ boots = 0 /\ indexing = "done" /\ ~Busy
  BY <1>1, <1>4
<1>6. SaysTheSame(rows, view)
  BY <1>5 DEF Calmly
<1>7. Suits(e, rows) /\ Tells(e, e)
  BY DEF Suits, Firsts, Tells
<1>8. SaysTheSame(ApplySql(rows, e), ApplyView(view, e))
  BY <1>1, <1>6, <1>7, OneAlike
<1>9. SaysTheSame(rows, view)'
  BY <1>1, <1>2, <1>8
<1>10. \A h \in Handlers : handlers'[h] = <<>>
  BY <1>1, <1>5 DEF Busy
<1>11. (indexing # "done")' = FALSE /\ (indexing = "import")' = FALSE /\ (indexing = "replay")' = FALSE
  BY <1>1, <1>5
<1> QED BY <1>9, <1>10, <1>11 DEF Calmly

LEMMA ObservesCalmly ==
  ASSUME StoreInv, RowsInv, NEW h \in HermesId, NEW id \in {Itself, 0}, Observe(h, id)
  PROVE  RowsInv'
<1> USE DEF RowsInv
<1>1. ObservedEvent(h, id) \in Event
  <2>1. /\ h \in Session /\ "cli" \in {"stellarc", "cli"} /\ id \in Int
        /\ "orbit" \in {"axis", "orbit"} /\ TRUE \in BOOLEAN
    BY DEF Session, Itself
  <2>2. Created(h, "cli", TRUE) \in Event /\ Message(h, id, "orbit") \in Event
    BY <2>1, EventsTyped
  <2> QED BY <2>2 DEF ObservedEvent
<1>2. PICK E : E = <<ObservedEvent(h, id)>>
  OBVIOUS
<1>3. E \in Seq(Event)
  BY <1>1, <1>2
<1>4. rows' = rows \/ rows' = ProjectAll(rows, E)
  BY <1>2 DEF Observe, AppendBatch
<1>5. rows' \in Rows
  BY <1>3, <1>4, BatchKeeps
<1> QED BY <1>5 DEF Observe, Calmly

LEMMA ImportsCalmly ==
  ASSUME StoreInv, RowsInv, Import
  PROVE  RowsInv'
<1> USE DEF RowsInv
<1>1. /\ UNCHANGED <<view, handlers, boots>> /\ indexing = "import"
      /\ calm' = (calm /\ ~Busy) /\ view \in Views /\ log \in Seq(Event)
  BY DEF Import, StoreInv, StoreTypeOK
<1>2. Imports \in Seq(Event)
  BY ImportsSuit
<1>3. \/ log' = log \o Imports /\ rows' = ProjectAll(rows, Imports) /\ indexing' = "replay"
      \/ UNCHANGED <<log, rows>> /\ indexing' = "done"
  BY DEF Import, AppendBatch, Imports
<1>4. rows' \in Rows
  BY <1>2, <1>3, BatchKeeps
<1>5. SUFFICES ASSUME calm', boots' = 0 PROVE Calmly'
  BY <1>1, <1>4 DEF Calmly
<1>6. calm /\ boots = 0 /\ ~Busy /\ \A h \in Handlers : handlers'[h] = <<>>
  BY <1>1, <1>5 DEF Busy
<1>7. ~Busy'
  BY <1>6 DEF Busy
<1>8. log = Earlier /\ view = Replay(log) /\ SaysTheSame(rows, view)
  BY <1>1, <1>6 DEF Calmly
<1>9. CASE UNCHANGED <<log, rows>> /\ indexing' = "done"
  <2>1. SaysTheSame(rows, view)'
    BY <1>1, <1>8, <1>9
  <2>2. (indexing # "done")' = FALSE /\ (indexing = "import")' = FALSE /\ (indexing = "replay")' = FALSE
    BY <1>9
  <2> QED BY <1>6, <1>7, <2>1, <2>2 DEF Calmly
<1>10. CASE log' = log \o Imports /\ rows' = ProjectAll(rows, Imports) /\ indexing' = "replay"
  <2>1. \A s \in HermesId : ~Known(rows.sessions, s)
    <3>1. SUFFICES ASSUME NEW s \in HermesId, Known(rows.sessions, s) PROVE FALSE
      OBVIOUS
    <3>2. s \in Session
      BY DEF Session
    <3>3. Known(view.sessions, s)
      BY <1>8, <3>1, <3>2 DEF SaysTheSame, Alike, Known
    <3>4. PICK i \in DOMAIN log : Creates(log[i], s)
      BY <3>2, <3>3 DEF StoreInv, ShownIsStored, ShownIsIn
    <3>5. i \in 1..Len(Earlier)
      BY <1>1, <1>8
    <3>6. s \in NativeId
      BY <1>8, <3>4, <3>5, EarlierSuits DEF Creates
    <3> QED BY <3>1, <3>6 DEF StoreAssumption
  <2>2. Suitable(Imports, rows) /\ ToldAs(Imports, Imports)
    BY <2>1, ImportsSuit, ToldAsItself
  <2>3. SaysTheSame(ProjectAll(rows, Imports), ShowAll(view, Imports))
    BY <1>1, <1>2, <1>8, <2>2, BatchAlike
  <2>4. ShowAll(view, Imports) = Replay(log \o Imports)
    <3>1. ShowAll(Empty, log \o Imports) = ShowAll(ShowAll(Empty, log), Imports)
      BY <1>1, <1>2, EmptyTyped, ShownInTurn
    <3> QED BY <1>8, <3>1 DEF Replay
  <2>5. SaysTheSame(rows', Replay(log'))
    BY <1>10, <2>3, <2>4
  <2>6. /\ (indexing # "done")' = TRUE /\ (indexing = "import")' = FALSE
        /\ (indexing # "replay")' = FALSE
    BY <1>10
  <2> QED BY <1>6, <1>7, <2>5, <2>6 DEF Calmly
<1> QED BY <1>3, <1>9, <1>10

LEMMA ReplaysCalmly ==
  ASSUME StoreInv, RowsInv, Reindex
  PROVE  RowsInv'
<1> USE DEF RowsInv
<1>1. /\ UNCHANGED <<log, rows, handlers, boots>> /\ indexing = "replay" /\ indexing' = "done"
      /\ view' = Replay(log) /\ calm' = (calm /\ ~Busy)
  BY DEF Reindex
<1>2. SUFFICES ASSUME calm', boots' = 0 PROVE Calmly'
  BY <1>1 DEF Calmly
<1>3. calm /\ boots = 0 /\ \A h \in Handlers : handlers'[h] = <<>>
  BY <1>1, <1>2 DEF Busy
<1>4. SaysTheSame(rows, view)'
  BY <1>1, <1>3 DEF Calmly
<1>5. (indexing # "done")' = FALSE /\ (indexing = "import")' = FALSE /\ (indexing = "replay")' = FALSE
  BY <1>1
<1> QED BY <1>3, <1>4, <1>5 DEF Calmly

LEMMA BootsCalmly ==
  ASSUME StoreInv, RowsInv, Boot
  PROVE  RowsInv'
<1> USE DEF RowsInv
<1>1. boots' = boots + 1 /\ boots' \in Nat /\ boots' # 0
  BY DEF Boot
<1>2. ASSUME NEW msgs \in SUBSET rows.messages, NEW t \in [Session -> SessionRow]
      PROVE  [rows EXCEPT !.messages = msgs, !.sessions = t] \in Rows
  <2>1. PICK A, B, C, D, F :
          /\ A = [Session -> SessionRow] /\ B = [Card -> CardRow] /\ C = [Project -> ProjectRow]
          /\ D = SUBSET (Session \X Int) /\ F = {[s \in Session |-> <<>>]}
    OBVIOUS
  <2>2. Rows = [sessions : A, cards : B, projects : C, messages : D, hot : F]
    BY <2>1 DEF Rows
  <2>3. rows \in [sessions : A, cards : B, projects : C, messages : D, hot : F] /\ t \in A
    BY <1>2, <2>1, <2>2
  <2>4. msgs \in D
    BY <1>2, <2>1, <2>3
  <2> QED BY <2>2, <2>3, <2>4
<1>3. rows.sessions \in [Session -> SessionRow] /\ NoSession \in SessionRow
  <2>1. [s \in Session |-> NoSession] \in [Session -> SessionRow]
    BY EmptyTyped DEF Views, Empty
  <2>2. NoSession \in SessionRow
    <3>1. [p \in Project |-> None] \in [Project -> {None, "read", "write"}]
      OBVIOUS
    <3> QED BY <3>1 DEF NoSession, SessionRow
  <2> QED BY <2>2 DEF Rows
<1>4. rows' \in Rows
  <2>1. CASE RetainSqlite
    <3>1. rows' = [rows EXCEPT
            !.messages = {m \in rows.messages : m[1] \in Native},
            !.sessions = [s \in Session |-> IF Managed(rows.sessions[s]) THEN rows.sessions[s] ELSE NoSession]]
      BY <2>1 DEF RetainSqlite
    <3>2. PICK msgs, t : /\ msgs = {m \in rows.messages : m[1] \in Native}
                         /\ t = [s \in Session |-> IF Managed(rows.sessions[s]) THEN rows.sessions[s]
                                                   ELSE NoSession]
      OBVIOUS
    <3>3. msgs \in SUBSET rows.messages /\ t \in [Session -> SessionRow]
      BY <1>3, <3>2
    <3>4. [rows EXCEPT !.messages = msgs, !.sessions = t] \in Rows
      BY <1>2, <3>3, Zenon
    <3> QED BY <3>1, <3>2, <3>4, Zenon
  <2>2. CASE RetainPostgres
    <3>1. rows' = [rows EXCEPT
            !.messages = {m \in rows.messages : ~Known(rows.sessions, m[1])},
            !.sessions = Empty.sessions]
      BY <2>2 DEF RetainPostgres
    <3>2. PICK msgs, t : /\ msgs = {m \in rows.messages : ~Known(rows.sessions, m[1])}
                         /\ t = Empty.sessions
      OBVIOUS
    <3>3. msgs \in SUBSET rows.messages /\ t \in [Session -> SessionRow]
      BY <3>2, EmptyTyped DEF Views
    <3>4. [rows EXCEPT !.messages = msgs, !.sessions = t] \in Rows
      BY <1>2, <3>3, Zenon
    <3> QED BY <3>1, <3>2, <3>4, Zenon
  <2> QED BY <2>1, <2>2 DEF Boot
<1> QED BY <1>1, <1>4 DEF Calmly

(* What each handler is to store suits the rows that it finds.             *)
LEMMA HandlersComing ==
  ASSUME StoreInv, RowsInv,
         \/ CreateSession \/ PostMessage \/ ArchiveSession \/ CreateSubsession \/ HandoverSession
         \/ CompleteSession \/ CardHandler \/ AssignCard \/ ReassignCard \/ CreateProject
  PROVE  \E steps : /\ Begins(steps) /\ Begin(steps)
                    /\ SaysTheSame(rows, view) => Coming(steps, rows)
<1>0. view \in Views /\ log \in Seq(Event)
  BY DEF StoreInv, StoreTypeOK
<1>1. ASSUME SaysTheSame(rows, view), NEW s \in Session
      PROVE  /\ Unused(s) => ~Known(rows.sessions, s)
             /\ Known(view.sessions, s) => Known(rows.sessions, s)
  <2>1. Known(rows.sessions, s) <=> Known(view.sessions, s)
    BY <1>1 DEF SaysTheSame, Alike, Known
  <2>2. Known(view.sessions, s) => \E i \in DOMAIN log : Creates(log[i], s)
    BY DEF StoreInv, ShownIsStored, ShownIsIn
  <2> QED BY <2>1, <2>2 DEF Unused
<1>2. ASSUME NEW e \in Event, Plain(e), Begin(Shown(e)), e.type # "handover",
             SaysTheSame(rows, view) => Suits(e, rows)
      PROVE  \E steps : /\ Begins(steps) /\ Begin(steps)
                        /\ SaysTheSame(rows, view) => Coming(steps, rows)
  BY <1>2, ShownBegins, ShownComes
<1>3. ASSUME NEW e \in Event, Plain(e), NEW g \in Event, Plain(g), g.type \notin ShownTypes,
             Begin(Shown(e) \o <<Store(<<g>>, 0), Show(<<g>>)>>),
             Later(e, rows), Later(g, rows)
      PROVE  \E steps : /\ Begins(steps) /\ Begin(steps)
                        /\ SaysTheSame(rows, view) => Coming(steps, rows)
  <2>1. Suits(e, rows) /\ e.type # "handover"
    BY <1>3 DEF Later, Firsts
  <2> QED BY <1>3, <2>1, TwiceBegins, TwiceComes
<1>4. CASE CreateSession
  <2>1. PICK s \in Session : Unused(s) /\ Begin(Shown(Created(s, "stellarc", FALSE)))
    BY <1>4 DEF CreateSession
  <2>2. "stellarc" \in {"stellarc", "cli"} /\ FALSE \in BOOLEAN
    OBVIOUS
  <2>3. Created(s, "stellarc", FALSE) \in Event /\ Plain(Created(s, "stellarc", FALSE))
    BY <2>2, EventsTyped, PlainEvents
  <2>4. SaysTheSame(rows, view) => ~Known(rows.sessions, s)
    BY <1>1, <2>1
  <2>5. /\ SaysTheSame(rows, view) => Suits(Created(s, "stellarc", FALSE), rows)
        /\ Created(s, "stellarc", FALSE).type # "handover"
    BY <2>4 DEF Suits, Created
  <2> QED BY <1>2, <2>1, <2>3, <2>5
<1>5. ASSUME NEW s \in Session
      PROVE  LET m == Message(s, NextId(s), "axis")
             IN  m \in Event /\ Plain(m) /\ Suits(m, rows) /\ m.type # "handover" /\ Later(m, rows)
  <2>1. NextId(s) \in Int /\ "axis" \in {"axis", "orbit"}
    BY <1>0, NextIdTyped
  <2>2. Message(s, NextId(s), "axis") \in Event /\ Plain(Message(s, NextId(s), "axis"))
    BY <2>1, EventsTyped, PlainEvents
  <2>3. Message(s, NextId(s), "axis").type = "message"
    BY DEF Message
  <2> QED BY <2>2, <2>3 DEF Suits, Later, Firsts
<1>6. CASE PostMessage
  <2>1. PICK s \in Session : Begin(Shown(Message(s, NextId(s), "axis")))
    BY <1>6 DEF PostMessage, PostSteps
  <2> QED BY <1>2, <1>5, <2>1
<1>7. ASSUME NEW s \in Session
      PROVE  /\ Archived(s) \in Event /\ Plain(Archived(s)) /\ Archived(s).type # "handover"
             /\ Archived(s).type \notin ShownTypes
             /\ Suits(Archived(s), rows) /\ Later(Archived(s), rows)
  <2>1. Archived(s) \in Event /\ Plain(Archived(s)) /\ Archived(s).type \notin ShownTypes
    BY EventsTyped, PlainEvents
  <2>2. Archived(s).type = "archived"
    BY DEF Archived
  <2> QED BY <2>1, <2>2 DEF Suits, Later, Firsts
<1>8. CASE ArchiveSession
  <2>1. PICK s \in Session : Begin(Shown(Archived(s)))
    BY <1>8 DEF ArchiveSession
  <2> QED BY <1>2, <1>7, <2>1
<1>9. CASE CreateSubsession
  <2>1. PICK s \in Session, parent \in Session :
          Unused(s) /\ Known(view.sessions, parent) /\ Begin(ForkSteps(s, parent))
    BY <1>9 DEF CreateSubsession
  <2>2. SaysTheSame(rows, view) => Coming(ForkSteps(s, parent), rows)
    BY <1>1, <2>1, ForkComes
  <2> QED BY <2>1, <2>2, ForkBegins
<1>10. CASE HandoverSession
  <2>1. PICK s \in Session, from \in Session :
          /\ Unused(s)
          /\ LET copies == [i \in DOMAIN view.hot[from] |-> Message(s, i - 1, "axis")]
                 batch == <<Created(s, "stellarc", view.sessions[from].titled)>> \o copies
                          \o <<HandedOver(s, from), Archived(from)>>
             IN  Begin(<<Store(batch, 1), Show(batch)>>)
    BY <1>10 DEF HandoverSession
  <2>2. PICK N \in Nat : DOMAIN view.hot[from] = 1..N
    <3>1. view.hot[from] \in Seq(Int)
      BY <1>0 DEF Views, Hot
    <3>2. Len(view.hot[from]) \in Nat /\ DOMAIN view.hot[from] = 1..Len(view.hot[from])
      BY <3>1
    <3> QED BY <3>2
  <2>3. SaysTheSame(rows, view) =>
          LET copies == [i \in 1..N |-> Message(s, i - 1, "axis")]
              batch == <<Created(s, "stellarc", view.sessions[from].titled)>> \o copies
                       \o <<HandedOver(s, from), Archived(from)>>
          IN  Coming(<<Store(batch, 1), Show(batch)>>, rows)
    BY <1>1, <2>1, HandoverComes
  <2> QED BY <1>0, <2>1, <2>2, <2>3, HandoverBegins
<1>11. CASE CompleteSession
  <2>1. PICK s \in Session :
          LET parent == view.sessions[s].parent
          IN  /\ view.sessions[s].parent # None /\ Known(view.sessions, parent)
              /\ Begin(Shown(Message(parent, NextId(parent), "axis"))
                    \o <<Store(<<Archived(s)>>, 0), Show(<<Archived(s)>>)>>)
    BY <1>11 DEF CompleteSession
  <2>2. view.sessions[s].parent \in Session
    BY <1>0, <2>1 DEF Views, SessionRow
  <2>3. PICK parent \in Session : parent = view.sessions[s].parent
    BY <2>2
  <2>4. Begin(Shown(Message(parent, NextId(parent), "axis"))
                    \o <<Store(<<Archived(s)>>, 0), Show(<<Archived(s)>>)>>)
    BY <2>1, <2>3
  <2> QED BY <1>3, <1>5, <1>7, <2>4
<1>12. CASE CardHandler
  <2>1. PICK k \in Card, type \in CardOnly :
          /\ Begin(Shown(CardEvent(type, k)))
          /\ type = "card_created" => rows.cards[k].status = None
    BY <1>12 DEF CardHandler, CardOnly
  <2>2. CardEvent(type, k) \in Event /\ Plain(CardEvent(type, k))
    BY EventsTyped, PlainEvents
  <2>3. Suits(CardEvent(type, k), rows) /\ CardEvent(type, k).type # "handover"
    BY <2>1 DEF Suits, CardEvent, CardOnly
  <2> QED BY <1>2, <2>1, <2>2, <2>3
<1>13. CASE AssignCard
  <2>1. PICK k \in Card, s \in Session :
          Begin(Shown(Assigned(k, s)) \o <<Store(<<Linked(s, k)>>, 0), Show(<<Linked(s, k)>>)>>)
    BY <1>13 DEF AssignCard
  <2>2. /\ Assigned(k, s) \in Event /\ Linked(s, k) \in Event /\ Plain(Assigned(k, s))
        /\ Plain(Linked(s, k)) /\ Linked(s, k).type \notin ShownTypes
    BY EventsTyped, PlainEvents
  <2>3. Later(Assigned(k, s), rows) /\ Later(Linked(s, k), rows)
    BY DEF Later, Suits, Assigned, Linked, Firsts
  <2> QED BY <1>3, <2>1, <2>2, <2>3
<1>14. CASE ReassignCard
  <2>1. PICK k \in Card, s \in Session : Begin(Shown(Reassigned(k, s, view.cards[k].session)))
    BY <1>14 DEF ReassignCard
  <2>2. view.cards[k].session \in Session \cup {None}
    BY <1>0 DEF Views, CardRow
  <2>3. PICK e : e = Reassigned(k, s, view.cards[k].session)
    OBVIOUS
  <2>4. e \in Event /\ Plain(e)
    BY <2>2, <2>3, EventsTyped, PlainEvents
  <2>5. e.type = "reassigned"
    BY <2>3 DEF Reassigned
  <2>6. Suits(e, rows) /\ e.type # "handover"
    BY <2>5 DEF Suits
  <2> QED BY <1>2, <2>1, <2>3, <2>4, <2>6
<1>15. CASE CreateProject
  <2>1. PICK p \in Project : /\ rows.projects[p] = NoProject
                             /\ Begin(Shown(ProjectEvent("project_created", p)))
    BY <1>15 DEF CreateProject
  <2>2. ProjectEvent("project_created", p) \in Event /\ Plain(ProjectEvent("project_created", p))
    <3>1. "project_created" \in ProjectOnly
      BY DEF ProjectOnly
    <3> QED BY <3>1, EventsTyped, PlainEvents
  <2>3. /\ Suits(ProjectEvent("project_created", p), rows)
        /\ ProjectEvent("project_created", p).type # "handover"
    BY <2>1 DEF Suits, ProjectEvent
  <2> QED BY <1>2, <2>1, <2>2, <2>3
<1> QED BY <1>4, <1>6, <1>8, <1>9, <1>10, <1>11, <1>12, <1>13, <1>14, <1>15

LEMMA LockedStepsCalmly ==
  ASSUME StoreInv, RowsInv,
         EditProject \/ DeleteProject \/ AttachProject \/ AttachContext \/ DetachContext
  PROVE  RowsInv'
<1>0. Live(view) \subseteq Project
  BY DEF Live
<1>1. CASE EditProject \/ DeleteProject
  <2>1. PICK p \in Live(view), type \in {"project_updated", "project_layout", "project_deleted"} :
          Locked(ProjectEvent(type, p))
    BY <1>1 DEF EditProject, DeleteProject
  <2>2. ProjectEvent(type, p) \in Event
    BY <1>0, EventsTyped DEF ProjectOnly
  <2>3. ProjectEvent(type, p).type \notin Firsts \cup {"forked"}
    BY DEF ProjectEvent, Firsts
  <2> QED BY <2>1, <2>2, <2>3, LockedCalmly
<1>2. CASE AttachProject
  <2>1. PICK s \in Session, p \in Live(view) : Locked(Attached(s, p))
    BY <1>2 DEF AttachProject
  <2>2. Attached(s, p) \in Event
    BY <1>0, EventsTyped
  <2>3. Attached(s, p).type \notin Firsts \cup {"forked"}
    BY DEF Attached, Firsts
  <2> QED BY <2>1, <2>2, <2>3, LockedCalmly
<1>3. CASE AttachContext
  <2>1. PICK s \in Session, p \in Live(view), mode \in {"read", "write"} :
          Locked(ContextAttached(s, p, mode))
    BY <1>3 DEF AttachContext
  <2>2. ContextAttached(s, p, mode) \in Event
    BY <1>0, EventsTyped
  <2>3. ContextAttached(s, p, mode).type \notin Firsts \cup {"forked"}
    BY DEF ContextAttached, Firsts
  <2> QED BY <2>1, <2>2, <2>3, LockedCalmly
<1>4. CASE DetachContext
  <2>1. PICK s \in Session, p \in Live(view) : Locked(ContextDetached(s, p))
    BY <1>4 DEF DetachContext
  <2>2. ContextDetached(s, p) \in Event
    BY <1>0, EventsTyped
  <2>3. ContextDetached(s, p).type \notin Firsts \cup {"forked"}
    BY DEF ContextDetached, Firsts
  <2> QED BY <2>1, <2>2, <2>3, LockedCalmly
<1> QED BY <1>1, <1>2, <1>3, <1>4

LEMMA RowsInvInit ==
  ASSUME StoreInit
  PROVE  RowsInv
<1>1. /\ log = Earlier /\ rows = ProjectAll(Empty, Earlier) /\ view = Replay(log)
      /\ boots = 0 /\ indexing = "import" /\ \A h \in Handlers : handlers[h] = <<>>
  BY DEF StoreInit
<1>2. Earlier \in Seq(Event) /\ Empty \in Views /\ Empty \in Rows /\ SaysTheSame(Empty, Empty)
  BY EarlierTyped, EmptyTyped, EmptyAlike
<1>3. rows \in Rows
  BY <1>1, <1>2, BatchKeeps
<1>4. SaysTheSame(rows, view)
  <2>1. Suitable(Earlier, Empty) /\ ToldAs(Earlier, Earlier)
    BY EarlierSuits, ToldAsItself
  <2>2. SaysTheSame(ProjectAll(Empty, Earlier), ShowAll(Empty, Earlier))
    BY <1>2, <2>1, BatchAlike
  <2> QED BY <1>1, <2>2 DEF Replay
<1>5. Calmly
  BY <1>1, <1>4 DEF Calmly, Busy
<1> QED BY <1>1, <1>3, <1>5 DEF RowsInv

LEMMA RowsInvNext ==
  ASSUME StoreInv, RowsInv, [StoreNext]_storeVars
  PROVE  RowsInv'
<1>1. CASE \/ CreateSession \/ PostMessage \/ ArchiveSession \/ CreateSubsession
           \/ HandoverSession \/ CompleteSession \/ CardHandler \/ AssignCard \/ ReassignCard
           \/ CreateProject
  BY <1>1, HandlersComing, BeginsCalmly
<1>2. CASE EditProject \/ DeleteProject \/ AttachProject \/ AttachContext \/ DetachContext
  BY <1>2, LockedStepsCalmly
<1>3. CASE \E h \in Handlers : Do(h)
  BY <1>3, DoesCalmly
<1>4. CASE \E h \in HermesId, id \in {Itself, 0} : Observe(h, id)
  BY <1>4, ObservesCalmly
<1>5. CASE Import
  BY <1>5, ImportsCalmly
<1>6. CASE Reindex
  BY <1>6, ReplaysCalmly
<1>7. CASE Boot
  BY <1>7, BootsCalmly
<1>8. CASE UNCHANGED storeVars
  BY <1>8 DEF storeVars, RowsInv, Calmly, Busy
<1> QED BY <1>1, <1>2, <1>3, <1>4, <1>5, <1>6, <1>7, <1>8 DEF StoreNext

(* Until a restart and while no two handlers overlap and none failed, the  *)
(* rows say what the views are about to show, and the next handler's batch *)
(* creates only what the rows do not have (log.rs, log_pg.rs, view.rs).    *)
THEOREM RowsCorrect == StoreSpec => []RowsInv
<1>1. StoreInit => RowsInv
  BY RowsInvInit
<1>2. StoreInv /\ RowsInv /\ [StoreNext]_storeVars => RowsInv'
  BY RowsInvNext
<1> QED BY <1>1, <1>2, StoreCorrect, PTL DEF StoreSpec

LEMMA AlikeIsSame ==
  ASSUME NEW r \in SessionRow, NEW v \in SessionRow, Alike(r, v)
  PROVE  SameRow(r, v)
<1>1. PICK x, y : x = Untitled([v EXCEPT !.count = r.count]) /\ y = Untitled(r)
  OBVIOUS
<1>2. PICK A, B, C, D, F, G :
        /\ A = {None, "stellarc", "cli"} /\ B = Session \cup {None} /\ C = Card \cup {None}
        /\ D = Project \cup {None} /\ F = [Project -> {None, "read", "write"}] /\ G = Nat
  OBVIOUS
<1>3. SessionRow = [source : A, titled : BOOLEAN, archived : BOOLEAN, parent : B, card : C,
                    project : D, context : F, count : G]
  BY <1>2 DEF SessionRow
<1>4. x = [source |-> v.source, titled |-> FALSE, archived |-> v.archived, parent |-> v.parent,
           card |-> v.card, project |-> v.project, context |-> v.context, count |-> r.count]
  BY <1>1, <1>3 DEF Untitled
<1>5. y = [source |-> r.source, titled |-> FALSE, archived |-> r.archived, parent |-> r.parent,
           card |-> r.card, project |-> r.project, context |-> r.context, count |-> r.count]
  BY <1>1, <1>3 DEF Untitled
<1>6. x = y
  BY <1>4, <1>5 DEF Alike
<1> QED BY <1>1, <1>6 DEF SameRow

(* When nothing overlapped and nothing failed, the SQL projection and the  *)
(* views say the same of every session, card and project, as long as Axis  *)
(* runs: the two implementations of each event agree (log.rs and log_pg.rs *)
(* against view.rs).                                                       *)
THEOREM RowsSayTheSame == StoreSpec => []RowsMatchViews
<1>1. StoreInv /\ RowsInv => RowsMatchViews
  <2>1. SUFFICES ASSUME StoreInv, RowsInv, calm, ~Busy, indexing = "done", boots = 0
                 PROVE  /\ \A s \in Session : SameRow(rows.sessions[s], view.sessions[s])
                        /\ \A k \in Card : /\ rows.cards[k].status = view.cards[k].status
                                           /\ rows.cards[k].session = view.cards[k].session
                        /\ rows.projects = view.projects
    BY DEF RowsMatchViews
  <2>2. SaysTheSame(rows, view)
    BY <2>1 DEF RowsInv, Calmly
  <2>3. \A s \in Session : rows.sessions[s] \in SessionRow /\ view.sessions[s] \in SessionRow
    BY <2>1 DEF RowsInv, Rows, StoreInv, StoreTypeOK, Views
  <2>4. \A s \in Session : SameRow(rows.sessions[s], view.sessions[s])
    BY <2>2, <2>3, AlikeIsSame DEF SaysTheSame
  <2> QED BY <2>2, <2>4 DEF SaysTheSame, AlikeCards
<1> QED BY <1>1, StoreCorrect, RowsCorrect, PTL

LEMMA BootKeepsNative ==
  ASSUME StoreInv, RowsInv, Boot
  PROVE  KeepsNative
<1>1. SUFFICES ASSUME backend = "sqlite"
               PROVE  /\ \A i \in DOMAIN log : Column(log[i]) \in Native =>
                           \E j \in DOMAIN log' : log'[j] = log[i]
                      /\ \A m \in rows.messages : m[1] \in Native => m \in rows'.messages
  BY DEF KeepsNative
<1> DEFINE C == Native \cup {None}
<1>2. /\ log' = Retained(log, C) /\ log \in Seq(Event)
      /\ rows' = [rows EXCEPT !.messages = {m \in @ : m[1] \in Native},
                              !.sessions = [s \in Session |-> IF Managed(@[s]) THEN @[s] ELSE NoSession]]
  BY <1>1 DEF Boot, RetainSqlite, StoreInv, StoreTypeOK
<1>3. ASSUME NEW i \in DOMAIN log, Column(log[i]) \in Native
      PROVE  \E j \in DOMAIN log' : log'[j] = log[i]
  <2>1. Column(log[i]) \in C /\ i \in 1..Len(log)
    BY <1>2, <1>3
  <2> HIDE DEF C
  <2>2. PICK at : Places(at, log', log, C, Len(log))
    BY <1>2, RetainedIs
  <2>3. PICK j \in 1..Len(log') : at[j] = i
    BY <2>1, <2>2 DEF Places
  <2>4. log' \in Seq(Event) /\ log'[j] = log[i]
    BY <2>2, <2>3 DEF Places
  <2> QED BY <2>3, <2>4
<1>4. ASSUME NEW m \in rows.messages, m[1] \in Native
      PROVE  m \in rows'.messages
  <2>1. rows \in Rows
    BY DEF RowsInv
  <2> QED BY <1>2, <1>4, <2>1 DEF Rows
<1> QED BY <1>3, <1>4

LEMMA OnlyBootBoots ==
  ASSUME StoreInv, RowsInv, StoreNext, boots' = boots + 1
  PROVE  Boot
<1>1. boots \in Nat /\ boots' # boots
  BY DEF RowsInv
<1>2. CASE \/ CreateSession \/ PostMessage \/ ArchiveSession \/ CreateSubsession \/ HandoverSession
           \/ CompleteSession \/ CardHandler \/ AssignCard \/ ReassignCard \/ CreateProject
  <2>1. \E steps : Begin(steps)
    BY <1>2, HandlersComing
  <2> QED BY <1>1, <2>1 DEF Begin
<1>3. CASE EditProject \/ DeleteProject \/ AttachProject \/ AttachContext \/ DetachContext
  <2>1. \E e : Locked(e)
    BY <1>3 DEF EditProject, DeleteProject, AttachProject, AttachContext, DetachContext
  <2> QED BY <1>1, <2>1 DEF Locked
<1>4. CASE \E h \in Handlers : Do(h)
  BY <1>1, <1>4 DEF Do
<1>5. CASE \E h \in HermesId, id \in {Itself, 0} : Observe(h, id)
  BY <1>1, <1>5 DEF Observe
<1>6. CASE Import \/ Reindex
  BY <1>1, <1>6 DEF Import, Reindex
<1> QED BY <1>2, <1>3, <1>4, <1>5, <1>6 DEF StoreNext

(* On SQLite a restart keeps every event and every message of Stellarc's   *)
(* own and of observed sessions (retain_native in log.rs).                 *)
THEOREM NativesAreKept ==
  StoreSpec => [][boots' = boots + 1 => KeepsNative]_storeVars
<1>1. StoreInv /\ RowsInv /\ [StoreNext]_storeVars
        => [boots' = boots + 1 => KeepsNative]_storeVars
  BY OnlyBootBoots, BootKeepsNative
<1> QED BY <1>1, StoreCorrect, RowsCorrect, PTL DEF StoreSpec

-----------------------------------------------------------------------------
(***************************************************************************)
(* A restart.  Twin rows show the same but for the title, and views are    *)
(* the same on the sessions S when these, the cards and the projects are.  *)
(***************************************************************************)
Twin(r, v) == Alike(r, v) /\ r.count = v.count
SameOn(S, v, w) ==
  /\ \A s \in S : Twin(v.sessions[s], w.sessions[s]) /\ v.hot[s] = w.hot[s]
  /\ v.cards = w.cards /\ v.projects = w.projects
Links(e) == e.type \in {"forked", "handover"}

LEMMA SameGoesOn ==
  ASSUME NEW S, NEW v, NEW w, NEW x
  PROVE  /\ SameOn(S, v, v)
         /\ SameOn(S, v, w) => SameOn(S, w, v)
         /\ SameOn(S, v, w) /\ SameOn(S, w, x) => SameOn(S, v, x)
BY DEF SameOn, Twin, Alike

LEMMA AmendTwin ==
  ASSUME NEW S \in SUBSET Session, NEW t \in [Session -> SessionRow],
         NEW u \in [Session -> SessionRow], \A s \in S : Twin(t[s], u[s]),
         NEW o \in Session, NEW row, NEW new, o \in S /\ Known(t, o) => Twin(row, new)
  PROVE  \A s \in S : Twin(Amend(t, o, row)[s], Amend(u, o, new)[s])
<1>1. ASSUME NEW s \in S, s # o
      PROVE  Amend(t, o, row)[s] = t[s] /\ Amend(u, o, new)[s] = u[s]
  BY <1>1 DEF Amend
<1>2. ASSUME o \in S
      PROVE  Twin(Amend(t, o, row)[o], Amend(u, o, new)[o])
  <2>1. Known(t, o) <=> Known(u, o)
    BY <1>2 DEF Twin, Alike, Known
  <2>2. CASE Known(t, o)
    BY <1>2, <2>1, <2>2 DEF Amend
  <2>3. CASE ~Known(t, o)
    BY <1>2, <2>1, <2>3 DEF Amend
  <2> QED BY <2>2, <2>3
<1> QED BY <1>1, <1>2

(* What is applied to the same is the same, when no session is given a     *)
(* parent outside S.                                                       *)
LEMMA SessionsTwin ==
  ASSUME NEW S \in SUBSET Session, NEW t \in [Session -> SessionRow],
         NEW u \in [Session -> SessionRow], \A s \in S : Twin(t[s], u[s]),
         NEW e \in Event, NEW f \in Event, Tells(e, f),
         Links(e) /\ e.session \in S /\ Known(t, e.session) => e.parent \in S
  PROVE  \A s \in S : Twin(ViewSessions(t, e)[s], ViewSessions(u, f)[s])
<1>0. Fields(e)
  BY EventFields
<1> DEFINE Good == \A s \in S : Twin(ViewSessions(t, e)[s], ViewSessions(u, f)[s])
<1>1. ASSUME NEW o \in Session, NEW row, NEW new, o \in S /\ Known(t, o) => Twin(row, new),
             ViewSessions(t, e) = Amend(t, o, row), ViewSessions(u, f) = Amend(u, o, new)
      PROVE  Good
  <2>1. o \in S /\ Known(t, o) => Twin(row, new)
    BY <1>1
  <2>2. \A s \in S : Twin(Amend(t, o, row)[s], Amend(u, o, new)[s])
    <3> HIDE DEF Good
    <3> QED BY <2>1, AmendTwin
  <2> QED BY <1>1, <2>2
<1> SUFFICES Good
  OBVIOUS
<1>2. e.type # "created" => f = e
  BY DEF Tells
<1>20. ASSUME NEW o \in S
       PROVE  t[o] \in SessionRow /\ u[o] \in SessionRow /\ Twin(t[o], u[o])
  BY <1>20
<1>3. CASE e.type = "created"
  <2>1. /\ e.session \in Session /\ f.type = "created" /\ f.session = e.session
        /\ f.source = e.source
    BY <1>0, <1>3 DEF Tells, Fields, SessionTypes
  <2>2. /\ ViewSessions(t, e) = [t EXCEPT ![e.session] = Fresh(e)]
        /\ ViewSessions(u, f) = [u EXCEPT ![e.session] = Fresh(f)]
    BY <1>3, <2>1 DEF ViewSessions
  <2>3. Twin(Fresh(e), Fresh(f))
    BY <2>1 DEF Twin, Alike, Fresh, NoSession
  <2> QED BY <2>1, <2>2, <2>3
<1>4. CASE e.type = "archived"
  <2>1. e.session \in Session /\ f = e
    BY <1>0, <1>2, <1>4 DEF Fields, SessionTypes
  <2> DEFINE row == [t[e.session] EXCEPT !.archived = TRUE]
             new == [u[e.session] EXCEPT !.archived = TRUE]
  <2>2. ViewSessions(t, e) = Amend(t, e.session, row) /\ ViewSessions(u, f) = Amend(u, e.session, new)
    BY <1>4, <2>1 DEF ViewSessions
  <2>3. e.session \in S => Twin(row, new)
    BY <1>20 DEF SessionRow, Twin, Alike
  <2> HIDE DEF row, new, Good
  <2> QED BY <1>1, <2>1, <2>2, <2>3
<1>5. CASE e.type = "message"
  <2>1. e.session \in Session /\ f = e
    BY <1>0, <1>2, <1>5 DEF Fields, SessionTypes
  <2> DEFINE row == [t[e.session] EXCEPT !.count = @ + 1]
             new == [u[e.session] EXCEPT !.count = @ + 1]
  <2>2. /\ ViewSessions(t, e) = IF Managed(t[e.session]) THEN [t EXCEPT ![e.session] = row] ELSE t
        /\ ViewSessions(u, f) = IF Managed(u[e.session]) THEN [u EXCEPT ![e.session] = new] ELSE u
    BY <1>5, <2>1 DEF ViewSessions
  <2>3. ASSUME e.session \in S
        PROVE  Twin(row, new) /\ (Managed(t[e.session]) <=> Managed(u[e.session]))
    <3>1. t[e.session] \in SessionRow /\ u[e.session] \in SessionRow /\ Twin(t[e.session], u[e.session])
      BY <1>20, <2>3
    <3> QED BY <3>1 DEF SessionRow, Twin, Alike, Managed
  <2> HIDE DEF row, new
  <2>4. ASSUME NEW s \in S
        PROVE  Twin(ViewSessions(t, e)[s], ViewSessions(u, f)[s])
    <3>1. CASE s = e.session
      BY <2>1, <2>2, <2>3, <2>4, <3>1
    <3>2. CASE s # e.session
      BY <2>1, <2>2, <2>4, <3>2
    <3> QED BY <3>1, <3>2
  <2> QED BY <2>4
<1>6. CASE e.type = "attached"
  <2>1. e.session \in Session /\ f = e
    BY <1>0, <1>2, <1>6 DEF Fields, SessionTypes
  <2> DEFINE row == [t[e.session] EXCEPT !.project = e.project]
             new == [u[e.session] EXCEPT !.project = e.project]
  <2>2. ViewSessions(t, e) = Amend(t, e.session, row) /\ ViewSessions(u, f) = Amend(u, e.session, new)
    BY <1>6, <2>1 DEF ViewSessions
  <2>3. e.session \in S => Twin(row, new)
    BY <1>20 DEF SessionRow, Twin, Alike
  <2> HIDE DEF row, new, Good
  <2> QED BY <1>1, <2>1, <2>2, <2>3
<1>7. CASE e.type \in {"context_attached", "context_detached"}
  <2> DEFINE mode == IF e.type = "context_attached" THEN e.mode ELSE None
  <2>1. e.session \in Session /\ e.project \in Project /\ f = e
    BY <1>0, <1>2, <1>7 DEF Fields, SessionTypes
  <2>2. /\ ViewSessions(t, e) = Context(t, e, mode) /\ ViewSessions(u, f) = Context(u, e, mode)
    BY <1>7, <2>1 DEF ViewSessions
  <2> HIDE DEF mode
  <2> DEFINE row == [t[e.session] EXCEPT !.context[e.project] = mode]
             new == [u[e.session] EXCEPT !.context[e.project] = mode]
  <2>3. ViewSessions(t, e) = Amend(t, e.session, row) /\ ViewSessions(u, f) = Amend(u, e.session, new)
    BY <2>2 DEF Context
  <2>4. ASSUME e.session \in S PROVE Twin(row, new)
    <3>1. t[e.session] \in SessionRow /\ u[e.session] \in SessionRow /\ Twin(t[e.session], u[e.session])
      BY <1>20, <2>4
    <3>2. /\ row.context = [t[e.session].context EXCEPT ![e.project] = mode]
          /\ new.context = [u[e.session].context EXCEPT ![e.project] = mode]
      BY <3>1 DEF SessionRow
    <3> QED BY <3>1, <3>2 DEF SessionRow, Twin, Alike
  <2> HIDE DEF row, new, Good
  <2> QED BY <1>1, <2>1, <2>3, <2>4
<1>8. CASE e.type = "forked"
  <2>1. e.session \in Session /\ e.parent \in Session /\ f = e
    BY <1>0, <1>2, <1>8 DEF Fields, SessionTypes
  <2>2. ViewSessions(t, e) = Amend(t, e.session, Child(t, e))
          /\ ViewSessions(u, f) = Amend(u, e.session, Child(u, e))
    BY <1>8, <2>1 DEF ViewSessions
  <2>3. ASSUME e.session \in S, Known(t, e.session)
        PROVE  Twin(Child(t, e), Child(u, e))
    <3>1. e.parent \in S
      BY <1>8, <2>3 DEF Links
    <3>2. /\ t[e.session] \in SessionRow /\ u[e.session] \in SessionRow
          /\ Twin(t[e.session], u[e.session]) /\ Twin(t[e.parent], u[e.parent])
      BY <1>20, <2>3, <3>1
    <3>3. Known(t, e.parent) <=> Known(u, e.parent)
      BY <3>2 DEF Twin, Alike, Known
    <3>4. CASE Known(t, e.parent)
      <4>1. /\ Child(t, e) = [[t[e.session] EXCEPT !.parent = e.parent]
                                EXCEPT !.card = t[e.parent].card, !.project = t[e.parent].project]
            /\ Child(u, e) = [[u[e.session] EXCEPT !.parent = e.parent]
                                EXCEPT !.card = u[e.parent].card, !.project = u[e.parent].project]
        BY <3>3, <3>4 DEF Child
      <4> QED BY <3>2, <4>1 DEF SessionRow, Twin, Alike
    <3>5. CASE ~Known(t, e.parent)
      <4>1. /\ Child(t, e) = [t[e.session] EXCEPT !.parent = e.parent]
            /\ Child(u, e) = [u[e.session] EXCEPT !.parent = e.parent]
        BY <3>3, <3>5 DEF Child
      <4> QED BY <3>2, <4>1 DEF SessionRow, Twin, Alike
    <3> QED BY <3>4, <3>5
  <2> HIDE DEF Good
  <2> QED BY <1>1, <2>1, <2>2, <2>3
<1>9. CASE e.type = "handover"
  <2>1. e.session \in Session /\ e.parent \in Session /\ f = e
    BY <1>0, <1>2, <1>9 DEF Fields, SessionTypes
  <2>2. ViewSessions(t, e) = Amend(t, e.session, Target(t, e))
          /\ ViewSessions(u, f) = Amend(u, e.session, Target(u, e))
    BY <1>9, <2>1 DEF ViewSessions
  <2>3. ASSUME e.session \in S, Known(t, e.session)
        PROVE  Twin(Target(t, e), Target(u, e))
    <3>1. e.parent \in S
      BY <1>9, <2>3 DEF Links
    <3>2. /\ t[e.session] \in SessionRow /\ u[e.session] \in SessionRow
          /\ Twin(t[e.session], u[e.session]) /\ t[e.parent].card = u[e.parent].card
      BY <1>20, <2>3, <3>1 DEF Twin, Alike
    <3> QED BY <3>2 DEF SessionRow, Twin, Alike, Target
  <2> HIDE DEF Good
  <2> QED BY <1>1, <2>1, <2>2, <2>3
<1>10. CASE e.type = "linked"
  <2>1. e.session \in Session /\ f = e
    BY <1>0, <1>2, <1>10 DEF Fields, SessionTypes
  <2>2. ViewSessions(t, e) = LinkTree(t, e) /\ ViewSessions(u, f) = LinkTree(u, e)
    BY <1>10, <2>1 DEF ViewSessions
  <2>3. ASSUME NEW s \in S
        PROVE  Twin(LinkTree(t, e)[s], LinkTree(u, e)[s])
    <3>1. t[s] \in SessionRow /\ u[s] \in SessionRow /\ Twin(t[s], u[s]) /\ s \in Session
      BY <1>20
    <3>2. (Known(t, s) <=> Known(u, s)) /\ t[s].parent = u[s].parent
      BY <3>1 DEF Twin, Alike, Known
    <3>3. CASE Known(t, s) /\ e.session \in {s, t[s].parent}
      <4>1. /\ LinkTree(t, e)[s] = [t[s] EXCEPT !.card = e.card]
            /\ LinkTree(u, e)[s] = [u[s] EXCEPT !.card = e.card]
        BY <3>1, <3>2, <3>3 DEF LinkTree
      <4> QED BY <3>1, <4>1 DEF SessionRow, Twin, Alike
    <3>4. CASE ~(Known(t, s) /\ e.session \in {s, t[s].parent})
      <4>1. LinkTree(t, e)[s] = t[s] /\ LinkTree(u, e)[s] = u[s]
        BY <3>1, <3>2, <3>4 DEF LinkTree
      <4> QED BY <3>1, <4>1
    <3> QED BY <3>3, <3>4
  <2> QED BY <2>2, <2>3
<1>11. CASE e.type \notin SessionTypes
  <2>1. ViewSessions(t, e) = t /\ ViewSessions(u, f) = u
    BY <1>2, <1>11 DEF ViewSessions, SessionTypes
  <2> QED BY <2>1
<1> QED BY <1>3, <1>4, <1>5, <1>6, <1>7, <1>8, <1>9, <1>10, <1>11 DEF SessionTypes

LEMMA SameAfter ==
  ASSUME NEW S \in SUBSET Session, NEW v \in Views, NEW w \in Views, SameOn(S, v, w),
         NEW e \in Event, NEW f \in Event, Tells(e, f),
         Links(e) /\ e.session \in S /\ Known(v.sessions, e.session) => e.parent \in S
  PROVE  SameOn(S, ApplyView(v, e), ApplyView(w, f))
<1>1. /\ v.sessions \in [Session -> SessionRow] /\ w.sessions \in [Session -> SessionRow]
      /\ v.hot \in [Session -> Hot] /\ w.hot \in [Session -> Hot]
      /\ \A s \in S : Twin(v.sessions[s], w.sessions[s]) /\ v.hot[s] = w.hot[s]
      /\ v.cards = w.cards /\ v.projects = w.projects
  BY DEF Views, SameOn
<1>2. \A s \in S : Twin(ViewSessions(v.sessions, e)[s], ViewSessions(w.sessions, f)[s])
  BY <1>1, SessionsTwin
<1>3. /\ e.type # "created" => f = e
      /\ e.type = "created" => f.type = "created"
  BY DEF Tells
<1>4. /\ ViewCards(v.cards, e) = ViewCards(w.cards, f)
      /\ ViewProjects(v.projects, e) = ViewProjects(w.projects, f)
  BY <1>1, <1>3 DEF ViewCards, ViewProjects, CardOnly, ProjectOnly
<1>5. ASSUME NEW s \in S
      PROVE  ViewMessages(v.hot, e)[s] = ViewMessages(w.hot, f)[s]
  <2>1. CASE e.type # "message"
    BY <1>1, <1>3, <2>1 DEF ViewMessages
  <2>2. CASE e.type = "message"
    <3>1. f = e /\ e.session \in Session
      BY <1>3, <2>2, EventFields DEF Fields, SessionTypes
    <3>2. CASE s = e.session
      BY <1>1, <2>2, <3>1, <3>2 DEF ViewMessages
    <3>3. CASE s # e.session
      BY <1>1, <2>2, <3>1, <3>3 DEF ViewMessages
    <3> QED BY <3>2, <3>3
  <2> QED BY <2>1, <2>2
<1>6. /\ ApplyView(v, e).sessions = ViewSessions(v.sessions, e)
      /\ ApplyView(v, e).hot = ViewMessages(v.hot, e)
      /\ ApplyView(v, e).cards = ViewCards(v.cards, e)
      /\ ApplyView(v, e).projects = ViewProjects(v.projects, e)
      /\ ApplyView(w, f).sessions = ViewSessions(w.sessions, f)
      /\ ApplyView(w, f).hot = ViewMessages(w.hot, f)
      /\ ApplyView(w, f).cards = ViewCards(w.cards, f)
      /\ ApplyView(w, f).projects = ViewProjects(w.projects, f)
  BY ViewAfter
<1> QED BY <1>2, <1>4, <1>5, <1>6 DEF SameOn

(* What an event makes of a session's parent, and of a card's attempts.    *)
LEMMA ParentAfter ==
  ASSUME NEW t \in [Session -> SessionRow], NEW e \in Event, NEW s \in Session
  PROVE  ViewSessions(t, e)[s].parent =
           IF Links(e) /\ e.session = s /\ Known(t, s) THEN e.parent
           ELSE IF Creates(e, s) THEN None ELSE t[s].parent
<1>0. Fields(e)
  BY EventFields
<1> DEFINE Good == ViewSessions(t, e)[s].parent =
                     IF Links(e) /\ e.session = s /\ Known(t, s) THEN e.parent
                     ELSE IF Creates(e, s) THEN None ELSE t[s].parent
<1>1. ASSUME NEW o \in Session, NEW row, row.parent = t[o].parent,
             ViewSessions(t, e) = Amend(t, o, row), ~Links(e), ~Creates(e, s)
      PROVE  Good
  BY <1>1 DEF Amend
<1> SUFFICES Good
  OBVIOUS
<1>2. CASE e.type = "created"
  BY <1>0, <1>2 DEF Fields, SessionTypes, ViewSessions, Fresh, NoSession, Creates, Links
<1>3. CASE e.type = "archived"
  <2> DEFINE row == [t[e.session] EXCEPT !.archived = TRUE]
  <2>1. /\ e.session \in Session /\ ~Links(e) /\ ~Creates(e, s)
        /\ ViewSessions(t, e) = Amend(t, e.session, row)
    BY <1>0, <1>3 DEF Fields, SessionTypes, ViewSessions, Links, Creates
  <2>2. row.parent = t[e.session].parent
    BY <2>1 DEF SessionRow
  <2> HIDE DEF row, Good
  <2> QED BY <1>1, <1>3, <2>1, <2>2
<1>4. CASE e.type = "message"
  <2>1. /\ e.session \in Session /\ ~Links(e) /\ ~Creates(e, s)
        /\ ViewSessions(t, e) = t \/ ViewSessions(t, e) = [t EXCEPT ![e.session].count = @ + 1]
    BY <1>0, <1>4 DEF Fields, SessionTypes, ViewSessions, Links, Creates
  <2>2. [t EXCEPT ![e.session].count = @ + 1][s].parent = t[s].parent
    BY <2>1 DEF SessionRow
  <2> QED BY <2>1, <2>2
<1>5. CASE e.type = "attached"
  <2> DEFINE row == [t[e.session] EXCEPT !.project = e.project]
  <2>1. /\ e.session \in Session /\ ~Links(e) /\ ~Creates(e, s)
        /\ ViewSessions(t, e) = Amend(t, e.session, row)
    BY <1>0, <1>5 DEF Fields, SessionTypes, ViewSessions, Links, Creates
  <2>2. row.parent = t[e.session].parent
    BY <2>1 DEF SessionRow
  <2> HIDE DEF row, Good
  <2> QED BY <1>1, <1>5, <2>1, <2>2
<1>6. CASE e.type \in {"context_attached", "context_detached"}
  <2> DEFINE mode == IF e.type = "context_attached" THEN e.mode ELSE None
             row == [t[e.session] EXCEPT !.context[e.project] = mode]
  <2>1. /\ e.session \in Session /\ ~Links(e) /\ ~Creates(e, s)
        /\ ViewSessions(t, e) = Amend(t, e.session, row)
    BY <1>0, <1>6 DEF Fields, SessionTypes, ViewSessions, Links, Creates, Context
  <2> HIDE DEF mode
  <2>2. row.parent = t[e.session].parent
    BY <2>1 DEF SessionRow
  <2> HIDE DEF row, Good
  <2> QED BY <1>1, <1>6, <2>1, <2>2
<1>7. CASE Links(e)
  <2>1. /\ e.session \in Session /\ e.parent \in Session /\ ~Creates(e, s)
    BY <1>0, <1>7 DEF Fields, SessionTypes, Links, Creates
  <2>2. PICK row : /\ row.parent = e.parent /\ ViewSessions(t, e) = Amend(t, e.session, row)
    <3>1. t[e.session] \in SessionRow
      BY <2>1
    <3>2. CASE e.type = "forked"
      <4>1. ViewSessions(t, e) = Amend(t, e.session, Child(t, e))
        BY <3>2 DEF ViewSessions
      <4>2. Child(t, e).parent = e.parent
        BY <3>1 DEF Child, SessionRow
      <4> QED BY <4>1, <4>2
    <3>3. CASE e.type = "handover"
      <4>1. ViewSessions(t, e) = Amend(t, e.session, Target(t, e))
        BY <3>3 DEF ViewSessions
      <4>2. Target(t, e).parent = e.parent
        BY <3>1 DEF Target, SessionRow
      <4> QED BY <4>1, <4>2
    <3> QED BY <1>7, <3>2, <3>3 DEF Links
  <2> QED BY <1>7, <2>1, <2>2 DEF Amend
<1>8. CASE e.type = "linked"
  <2>1. ViewSessions(t, e) = LinkTree(t, e) /\ ~Links(e) /\ ~Creates(e, s)
    BY <1>8 DEF ViewSessions, Links, Creates
  <2>2. LinkTree(t, e)[s] = t[s] \/ LinkTree(t, e)[s] = [t[s] EXCEPT !.card = e.card]
    BY DEF LinkTree
  <2>3. [t[s] EXCEPT !.card = e.card].parent = t[s].parent
    BY DEF SessionRow
  <2> QED BY <2>1, <2>2, <2>3
<1>9. CASE e.type \notin SessionTypes
  BY <1>9 DEF ViewSessions, SessionTypes, Links, Creates
<1> QED BY <1>2, <1>3, <1>4, <1>5, <1>6, <1>7, <1>8, <1>9 DEF SessionTypes, Links

LEMMA AttemptsAfter ==
  ASSUME NEW t \in [Card -> CardRow], NEW e \in Event, NEW k \in Card
  PROVE  LET after == ViewCards(t, e)[k].attempts
         IN  /\ e = CardEvent("card_created", k) => after = <<>>
             /\ e # CardEvent("card_created", k) =>
                  /\ \A i \in DOMAIN t[k].attempts :
                       i \in DOMAIN after /\ after[i].session = t[k].attempts[i].session
                  /\ t[k].status = None => after = t[k].attempts
             /\ e.type \in {"assigned", "reassigned"} /\ e.card = k /\ t[k].status # None =>
                  \E i \in DOMAIN after : after[i].session = e.session
<1>0. Fields(e) /\ t[k] \in CardRow
  BY EventFields
<1> DEFINE r == ViewCards(t, e)[k].attempts
<1>7. PICK q : q = t[k].attempts
  OBVIOUS
<1>1. q \in Seq([session : Session, outcome : {"running", "reassigned", "done"}])
  BY <1>0, <1>7 DEF CardRow
<1>2. /\ Len(q) \in Nat /\ DOMAIN q = 1..Len(q)
      /\ \A i \in 1..Len(q) : q[i] \in [session : Session, outcome : {"running", "reassigned", "done"}]
  <2>1. PICK R : R = [session : Session, outcome : {"running", "reassigned", "done"}]
    OBVIOUS
  <2>2. q \in Seq(R)
    BY <1>1, <2>1
  <2>3. /\ Len(q) \in Nat /\ DOMAIN q = 1..Len(q)
        /\ \A i \in 1..Len(q) : q[i] \in R
    BY <2>2
  <2> QED BY <2>1, <2>3
<1>3. CASE e.type = "card_created"
  <2>1. e = CardEvent("card_created", e.card) /\ e.card \in Card
    BY <1>0, <1>3 DEF Fields, CardOnly
  <2>2. e = CardEvent("card_created", k) <=> e.card = k
    BY <2>1 DEF CardEvent
  <2>3. ViewCards(t, e) = [t EXCEPT ![e.card] = [NoCard EXCEPT !.status = "todo"]]
    BY <1>3 DEF ViewCards
  <2>4. [NoCard EXCEPT !.status = "todo"].attempts = <<>>
    BY DEF NoCard
  <2> QED BY <1>3, <1>7, <2>1, <2>2, <2>3, <2>4
<1>4. CASE e.type # "card_created" /\ (e.type \notin CardOnly \cup {"assigned", "reassigned"}
                                        \/ e.card # k \/ t[k].status = None)
  <2>1. ViewCards(t, e)[k] = t[k]
    BY <1>0, <1>4 DEF ViewCards, Fields
  <2>2. e # CardEvent("card_created", k)
    BY <1>4 DEF CardEvent
  <2>3. ~(e.type \in {"assigned", "reassigned"} /\ e.card = k /\ t[k].status # None)
    BY <1>4
  <2> QED BY <1>7, <2>1, <2>2, <2>3
<1>5. CASE e.type # "card_created" /\ e.type \in CardOnly \cup {"assigned", "reassigned"}
             /\ e.card = k /\ t[k].status # None
  <2>0. e # CardEvent("card_created", k)
    BY <1>5 DEF CardEvent
  <2>1. CASE e.type \in {"assigned", "reassigned"}
    <3> DEFINE s == IF e.type = "assigned" THEN q ELSE Superseded(q, e)
    <3>1. ViewCards(t, e)[k] = Attempt(s, e)
      BY <1>5, <1>7, <2>1 DEF ViewCards
    <3>2. /\ s \in Seq([session : Session, outcome : {"running", "reassigned", "done"}])
          /\ Len(s) = Len(q) /\ \A i \in 1..Len(q) : s[i].session = q[i].session
      <4>1. CASE e.type = "assigned"
        BY <1>1, <1>2, <4>1
      <4>2. CASE e.type = "reassigned"
        <5> DEFINE R == [session : Session, outcome : {"running", "reassigned", "done"}]
                   p == Superseded(q, e)
        <5>1. p = [i \in 1..Len(q) |->
                     IF q[i] = [session |-> e.previous, outcome |-> "running"]
                     THEN [q[i] EXCEPT !.outcome = "reassigned"] ELSE q[i]]
          BY <1>2 DEF Superseded
        <5>2. ASSUME NEW i \in 1..Len(q)
              PROVE  p[i] \in R /\ p[i].session = q[i].session
          <6>1. q[i] \in R /\ (p[i] = q[i] \/ p[i] = [q[i] EXCEPT !.outcome = "reassigned"])
            BY <1>2, <5>1
          <6> QED BY <6>1
        <5>3. p \in Seq(R) /\ Len(p) = Len(q)
          <6> HIDE DEF R, p
          <6> QED BY <1>2, <5>1, <5>2
        <5> QED BY <4>2, <5>2, <5>3
      <4> QED BY <2>1, <4>1, <4>2
    <3>3. r = Append(s, Running(e))
      BY <3>1 DEF Attempt
    <3> HIDE DEF s, r
    <3>4. /\ Running(e).session = e.session
          /\ Running(e) \in [session : Session, outcome : {"running", "reassigned", "done"}]
      BY <1>0, <2>1 DEF Running, Fields
    <3>5. /\ DOMAIN r = 1..(Len(q) + 1) /\ r[Len(q) + 1] = Running(e)
          /\ \A i \in 1..Len(q) : r[i] = s[i]
      BY <1>2, <3>2, <3>3, <3>4
    <3>6. Len(q) + 1 \in DOMAIN r /\ \A i \in DOMAIN q : i \in DOMAIN r /\ i \in 1..Len(q)
      BY <1>2, <3>5
    <3> QED BY <1>5, <1>7, <2>0, <3>2, <3>4, <3>5, <3>6 DEF r
  <2>2. CASE e.type \in CardOnly
    <3>1. ViewCards(t, e)[k] = IF e.type = "card_done"
                               THEN [t[k] EXCEPT !.status = "done", !.attempts = LastDone(q)]
                               ELSE [t[k] EXCEPT !.status = "moved"]
      BY <1>5, <1>7, <2>2 DEF ViewCards, CardOnly
    <3>2. r = LastDone(q) \/ r = q
      BY <1>0, <1>7, <3>1 DEF CardRow
    <3>3. /\ DOMAIN LastDone(q) = DOMAIN q
          /\ \A i \in DOMAIN q : LastDone(q)[i].session = q[i].session
      <4>1. ASSUME NEW i \in DOMAIN q
            PROVE  LastDone(q)[i].session = q[i].session
        <5>1. /\ q[i] \in [session : Session, outcome : {"running", "reassigned", "done"}]
              /\ LastDone(q)[i] = q[i] \/ LastDone(q)[i] = [q[i] EXCEPT !.outcome = "done"]
          BY <1>2 DEF LastDone
        <5> QED BY <5>1
      <4> QED BY <4>1 DEF LastDone
    <3>4. e.type \notin {"assigned", "reassigned"}
      BY <2>2 DEF CardOnly
    <3> HIDE DEF r
    <3> QED BY <1>5, <1>7, <2>0, <3>2, <3>3, <3>4 DEF r
  <2> QED BY <1>5, <2>1, <2>2
<1> QED BY <1>3, <1>4, <1>5

(* An event of a session outside S changes nothing in S, unless it links a *)
(* child in S to a card, or assigns a card.                                *)
LEMMA NotTouched ==
  ASSUME NEW S \in SUBSET Session, NEW v \in Views, NEW e \in Event,
         Column(e) # None, Column(e) \notin S,
         e.type = "linked" =>
           \A s \in S : ~(Known(v.sessions, s) /\ v.sessions[s].parent = e.session),
         e.type = "assigned" => v.cards[e.card].status = None
  PROVE  SameOn(S, v, ApplyView(v, e))
<1>1. /\ v.sessions \in [Session -> SessionRow] /\ v.hot \in [Session -> Hot]
      /\ Fields(e)
  BY EventFields DEF Views
<1>2. /\ e.type \in SessionTypes \cup {"assigned"} /\ Column(e) = e.session /\ e.session \notin S
      /\ e.session \in Session
  <2>1. e.type \notin CardOnly \cup {"reassigned"} \cup ProjectOnly /\ Column(e) = e.session
    BY DEF Column
  <2>2. e.type \in SessionTypes \cup {"assigned", "reassigned"} \cup CardOnly \cup ProjectOnly
    BY DEF Event, SessionTypes, CardOnly, ProjectOnly
  <2> QED BY <1>1, <2>1, <2>2 DEF Fields
<1>3. PICK t \in [Session -> SessionRow] : t = v.sessions
  BY <1>1
<1>4. ASSUME NEW s \in S
      PROVE  ViewSessions(t, e)[s] = t[s]
  <2>0. s # e.session /\ s \in Session
    BY <1>2
  <2>1. \A row : Amend(t, e.session, row)[s] = t[s]
    BY <2>0 DEF Amend
  <2>2. CASE e.type = "created"
    BY <2>0, <2>2 DEF ViewSessions
  <2>3. CASE e.type = "message"
    BY <2>0, <2>3 DEF ViewSessions
  <2>4. CASE e.type \in {"archived", "attached", "forked", "handover"}
    BY <2>1, <2>4 DEF ViewSessions
  <2>5. CASE e.type \in {"context_attached", "context_detached"}
    BY <2>1, <2>5 DEF ViewSessions, Context
  <2>6. CASE e.type = "linked"
    BY <1>3, <2>0, <2>6 DEF ViewSessions, LinkTree
  <2>7. CASE e.type = "assigned"
    BY <2>7 DEF ViewSessions
  <2> QED BY <1>2, <2>2, <2>3, <2>4, <2>5, <2>6, <2>7 DEF SessionTypes
<1>5. ASSUME NEW s \in S
      PROVE  ViewMessages(v.hot, e)[s] = v.hot[s]
  BY <1>1, <1>2 DEF ViewMessages
<1>6. ViewCards(v.cards, e) = v.cards /\ ViewProjects(v.projects, e) = v.projects
  BY <1>2 DEF ViewCards, ViewProjects, SessionTypes, CardOnly, ProjectOnly
<1>7. /\ ApplyView(v, e).sessions = ViewSessions(v.sessions, e)
      /\ ApplyView(v, e).hot = ViewMessages(v.hot, e)
      /\ ApplyView(v, e).cards = ViewCards(v.cards, e)
      /\ ApplyView(v, e).projects = ViewProjects(v.projects, e)
  BY ViewAfter
<1> QED BY <1>3, <1>4, <1>5, <1>6, <1>7 DEF SameOn, Twin, Alike

(* What a view shows of parents and cards, it has from the log.            *)
Recorded(v, q, n) ==
  /\ \A s \in Session : v.sessions[s].parent # None =>
       \E i \in 1..n : Links(q[i]) /\ q[i].session = s
  /\ \A k \in Card :
       /\ v.cards[k].status # None => \E i \in 1..n : q[i] = CardEvent("card_created", k)
       /\ v.cards[k].status = None => v.cards[k].attempts = <<>>

LEMMA RecordedAfter ==
  ASSUME NEW q, NEW n \in Nat, NEW v \in Views, Recorded(v, q, n), q[n + 1] \in Event
  PROVE  Recorded(ApplyView(v, q[n + 1]), q, n + 1)
<1>2. PICK e \in Event, w \in Views : e = q[n + 1] /\ w = ApplyView(v, e)
  BY ViewAfter
<1>4. /\ v.sessions \in [Session -> SessionRow] /\ v.cards \in [Card -> CardRow]
      /\ w.sessions = ViewSessions(v.sessions, e) /\ w.cards = ViewCards(v.cards, e)
  BY <1>2, ViewAfter DEF Views
<1>5. \A i \in 1..n : i \in 1..(n + 1)
  OBVIOUS
<1>6. n + 1 \in 1..(n + 1)
  OBVIOUS
<1>7. ASSUME NEW s \in Session, w.sessions[s].parent # None
      PROVE  \E i \in 1..(n + 1) : Links(q[i]) /\ q[i].session = s
  <2>1. \/ Links(e) /\ e.session = s
        \/ v.sessions[s].parent # None
    BY <1>4, <1>7, ParentAfter
  <2> QED BY <1>2, <1>5, <1>6, <2>1 DEF Recorded
<1>8. ASSUME NEW k \in Card
      PROVE  /\ w.cards[k].status # None => \E i \in 1..(n + 1) : q[i] = CardEvent("card_created", k)
             /\ w.cards[k].status = None => w.cards[k].attempts = <<>>
  <2>1. w.cards[k].status # None <=> v.cards[k].status # None \/ e = CardEvent("card_created", k)
    BY <1>4, CardsAfter
  <2>2. /\ e = CardEvent("card_created", k) => w.cards[k].attempts = <<>>
        /\ e # CardEvent("card_created", k) /\ v.cards[k].status = None =>
             w.cards[k].attempts = v.cards[k].attempts
    BY <1>4, AttemptsAfter
  <2>3. /\ v.cards[k].status # None => \E i \in 1..n : q[i] = CardEvent("card_created", k)
        /\ v.cards[k].status = None => v.cards[k].attempts = <<>>
    BY DEF Recorded
  <2> QED BY <1>2, <1>5, <1>6, <2>1, <2>2, <2>3
<1> QED BY <1>2, <1>7, <1>8 DEF Recorded

LEMMA AllRecorded ==
  ASSUME NEW q \in Seq(Event), NEW f \in [0..Len(q) -> Views], f[0] = Empty,
         \A n \in 1..Len(q) : f[n] = ApplyView(f[n - 1], q[n])
  PROVE  \A n \in 0..Len(q) : Recorded(f[n], q, n)
<1> DEFINE T == {n \in 0..Len(q) : Recorded(f[n], q, n)}
<1>0. Len(q) \in Nat
  OBVIOUS
<1>1. 0 \in T
  <2>1. /\ \A s \in Session : Empty.sessions[s].parent = None
        /\ \A k \in Card : Empty.cards[k].status = None /\ Empty.cards[k].attempts = <<>>
    BY DEF Empty, NoSession, NoCard
  <2> QED BY <1>0, <2>1 DEF Recorded
<1>2. ASSUME NEW n \in 0..(Len(q) - 1), n \in T
      PROVE  n + 1 \in T
  <2>1. n + 1 \in 1..Len(q) /\ n + 1 - 1 = n /\ n \in 0..Len(q) /\ n \in Nat
    OBVIOUS
  <2>2. PICK v \in Views, w \in Views, e \in Event :
          v = f[n] /\ w = f[n + 1] /\ e = q[n + 1] /\ w = ApplyView(v, e)
    BY <2>1
  <2>3. Recorded(v, q, n) /\ q[n + 1] \in Event
    BY <1>2, <2>2
  <2>9. Recorded(w, q, n + 1)
    BY <2>1, <2>2, <2>3, RecordedAfter
  <2> QED BY <2>1, <2>2, <2>9
<1> HIDE DEF T
<1>3. \A n \in 0..Len(q) : n \in T
  BY <1>0, <1>1, <1>2, UpTo
<1> QED BY <1>3 DEF T

(* No event takes back what another one linked or created.                 *)
Undoes(f, e) ==
  \/ /\ f.type \in {"created", "forked", "handover"} /\ Links(e)
     /\ f.session = e.session /\ f.session \in NativeId
  \/ e.type = "card_created" /\ f = e
Unrepeated(q) == \A i, j \in 1..Len(q) : i < j => ~Undoes(q[j], q[i])

DomesticIn(v) ==
  /\ \A s \in NativeId : v.sessions[s].parent \in NativeId \cup {None}
  /\ \A k \in Card : \A i \in DOMAIN v.cards[k].attempts :
       v.cards[k].attempts[i].session \in NativeId

(* What imported sessions had a part in, they have a part in for ever.     *)
LEMMA DomesticBefore ==
  ASSUME NEW q \in Seq(Event), Unrepeated(q), NEW n \in 0..(Len(q) - 1), NEW v \in Views,
         Recorded(v, q, n), DomesticIn(ApplyView(v, q[n + 1]))
  PROVE  DomesticIn(v)
<1>1. PICK e \in Event, w \in Views : e = q[n + 1] /\ w = ApplyView(v, e)
  BY ViewAfter
<1>2. /\ v.sessions \in [Session -> SessionRow] /\ v.cards \in [Card -> CardRow]
      /\ w.sessions = ViewSessions(v.sessions, e) /\ w.cards = ViewCards(v.cards, e)
  BY <1>1, ViewAfter DEF Views
<1>3. \A i \in 1..n : ~Undoes(e, q[i])
  <2>1. ASSUME NEW i \in 1..n PROVE ~Undoes(e, q[i])
    <3>1. i \in 1..Len(q) /\ n + 1 \in 1..Len(q) /\ i < n + 1
      OBVIOUS
    <3> QED BY <1>1, <3>1 DEF Unrepeated
  <2> QED BY <2>1
<1>4. ASSUME NEW s \in NativeId
      PROVE  v.sessions[s].parent \in NativeId \cup {None}
  <2>1. s \in Session /\ w.sessions[s].parent \in NativeId \cup {None}
    BY <1>1 DEF DomesticIn, Session
  <2>2. CASE v.sessions[s].parent = None
    BY <2>2
  <2>3. CASE v.sessions[s].parent # None
    <3>1. PICK i \in 1..n : Links(q[i]) /\ q[i].session = s
      BY <2>1, <2>3 DEF Recorded
    <3>2. ~(Links(e) /\ e.session = s) /\ ~Creates(e, s)
      BY <1>3, <3>1 DEF Undoes, Links, Creates
    <3>3. w.sessions[s].parent = v.sessions[s].parent
      BY <1>2, <2>1, <3>2, ParentAfter
    <3> QED BY <2>1, <3>3
  <2> QED BY <2>2, <2>3
<1>5. ASSUME NEW k \in Card, NEW i \in DOMAIN v.cards[k].attempts
      PROVE  v.cards[k].attempts[i].session \in NativeId
  <2>1. v.cards[k].status # None
    BY DEF Recorded
  <2>2. PICK j \in 1..n : q[j] = CardEvent("card_created", k)
    BY <2>1 DEF Recorded
  <2>3. e # CardEvent("card_created", k)
    BY <1>3, <2>2 DEF Undoes, CardEvent
  <2>4. i \in DOMAIN w.cards[k].attempts
          /\ w.cards[k].attempts[i].session = v.cards[k].attempts[i].session
    BY <1>2, <2>3, AttemptsAfter
  <2> QED BY <1>1, <2>4 DEF DomesticIn
<1> QED BY <1>4, <1>5 DEF DomesticIn

LEMMA RetainedInTurn ==
  ASSUME NEW q \in Seq(Event), NEW C
  PROVE  \E g \in [0..Len(q) -> Seq(Event)] :
           /\ g[0] = <<>> /\ Retained(q, C) = g[Len(q)]
           /\ \A n \in 1..Len(q) : g[n] = Retain(g[n - 1], q[n], C)
<1> DEFINE g == CHOOSE f : f = [n \in 0..Len(q) |->
                                  IF n = 0 THEN <<>> ELSE Retain(f[n - 1], q[n], C)]
<1>0. Len(q) \in Nat
  OBVIOUS
<1>1. g = [n \in 0..Len(q) |-> IF n = 0 THEN <<>> ELSE Retain(g[n - 1], q[n], C)]
  <2>1. IsRetaining(g, q, C, Len(q))
    BY <1>0, RetainingExists DEF IsRetaining
  <2> HIDE DEF g
  <2> QED BY <2>1 DEF IsRetaining
<1>2. Retained(q, C) = g[Len(q)]
  BY DEF Retained
<1> HIDE DEF g
<1>3. g[0] = <<>>
  BY <1>0, <1>1
<1>4. \A n \in 1..Len(q) : g[n] = Retain(g[n - 1], q[n], C)
  <2>1. ASSUME NEW n \in 1..Len(q)
        PROVE  g[n] = Retain(g[n - 1], q[n], C)
    <3>1. n \in 0..Len(q) /\ n # 0
      BY <1>0
    <3> QED BY <1>1, <3>1
  <2> QED BY <2>1
<1>5. \A n \in 0..Len(q) : g[n] \in Seq(Event)
  <2> DEFINE T == {n \in 0..Len(q) : g[n] \in Seq(Event)}
  <2>1. 0 \in T
    <3>1. PICK E \in Seq(Event) : E = <<>>
      BY EmptySeq
    <3>2. g[0] \in Seq(Event)
      BY <1>3, <3>1
    <3>3. 0 \in 0..Len(q)
      BY <1>0
    <3> QED BY <3>2, <3>3
  <2>2. ASSUME NEW n \in 0..(Len(q) - 1), n \in T
        PROVE  n + 1 \in T
    <3>1. n + 1 \in 1..Len(q) /\ n + 1 - 1 = n /\ g[n] \in Seq(Event)
      BY <1>0, <2>2
    <3>2. q[n + 1] \in Event /\ g[n + 1] = Retain(g[n], q[n + 1], C)
      BY <1>4, <3>1
    <3>3. g[n + 1] \in Seq(Event)
      BY <3>1, <3>2 DEF Retain
    <3> QED BY <3>1, <3>3
  <2> HIDE DEF T
  <2>3. \A n \in 0..Len(q) : n \in T
    BY <1>0, <2>1, <2>2, UpTo
  <2> QED BY <2>3 DEF T
<1>6. g \in [0..Len(q) -> Seq(Event)]
  <2>1. g = [n \in 0..Len(q) |-> g[n]]
    BY <1>1
  <2> QED BY <1>5, <2>1
<1> QED BY <1>2, <1>3, <1>4, <1>6

LEMMA ShownAppended ==
  ASSUME NEW v \in Views, NEW q \in Seq(Event), NEW e \in Event
  PROVE  ShowAll(v, Append(q, e)) = ApplyView(ShowAll(v, q), e)
<1>1. Append(q, e) = q \o <<e>> /\ <<e>> \in Seq(Event)
  OBVIOUS
<1>2. PICK w \in Views : w = ShowAll(v, q)
  BY AllTyped
<1>3. ShowAll(w, <<e>>) = ApplyView(w, e)
  <2>1. Empty \in Rows
    BY EmptyAlike
  <2> QED BY <2>1, OneProjected
<1>4. ShowAll(v, q \o <<e>>) = ShowAll(ShowAll(v, q), <<e>>)
  BY <1>1, ShownInTurn
<1> QED BY <1>1, <1>2, <1>3, <1>4

(* What is shown of Stellarc's own sessions, of cards and of projects does *)
(* not change when events of imported sessions are left out that had no    *)
(* part in them.                                                           *)
LEMMA RetainedShown ==
  ASSUME NEW q \in Seq(Event), NEW C, None \in C, Unrepeated(q),
         \A i \in 1..Len(q) : Column(q[i]) \in C \cup HermesId,
         DomesticIn(Replay(q))
  PROVE  SameOn(NativeId, Replay(q), Replay(Retained(q, C)))
<1>0. Len(q) \in Nat /\ Len(q) \in 0..Len(q) /\ Empty \in Views /\ NativeId \in SUBSET Session
  BY EmptyTyped DEF Session
<1>1. PICK f \in [0..Len(q) -> Views] :
        /\ f[0] = Empty /\ Replay(q) = f[Len(q)]
        /\ \A n \in 1..Len(q) : f[n] = ApplyView(f[n - 1], q[n])
  BY <1>0, ShowAllIs DEF Replay
<1>2. PICK g \in [0..Len(q) -> Seq(Event)] :
        /\ g[0] = <<>> /\ Retained(q, C) = g[Len(q)]
        /\ \A n \in 1..Len(q) : g[n] = Retain(g[n - 1], q[n], C)
  BY RetainedInTurn
<1>3. \A n \in 0..Len(q) : Recorded(f[n], q, n)
  BY <1>1, AllRecorded
<1> DEFINE T == {n \in 0..Len(q) : DomesticIn(f[n]) => SameOn(NativeId, f[n], Replay(g[n]))}
<1>4. 0 \in T
  <2>1. ShowAll(Empty, <<>>) = Empty
    <3>1. PICK E \in Seq(Event) : E = <<>>
      BY EmptySeq
    <3>2. PICK h \in [0..Len(E) -> Views] : h[0] = Empty /\ ShowAll(Empty, E) = h[Len(E)]
      BY <1>0, ShowAllIs
    <3> QED BY <3>1, <3>2
  <2>2. f[0] = Replay(g[0])
    BY <1>1, <1>2, <2>1 DEF Replay
  <2>3. SameOn(NativeId, f[0], Replay(g[0]))
    BY <2>2, SameGoesOn
  <2> QED BY <1>0, <2>3
<1>5. ASSUME NEW n \in 0..(Len(q) - 1), n \in T
      PROVE  n + 1 \in T
  <2>1. n + 1 \in 1..Len(q) /\ n + 1 - 1 = n /\ n \in 0..Len(q) /\ n + 1 \in 0..Len(q)
    BY <1>0
  <2>2. PICK v \in Views, e \in Event, r \in Seq(Event) :
          v = f[n] /\ e = q[n + 1] /\ r = g[n]
    <3>1. f[n] \in Views
      BY ONLY <2>1, f \in [0..Len(q) -> Views]
    <3>2. g[n] \in Seq(Event)
      BY ONLY <2>1, g \in [0..Len(q) -> Seq(Event)]
    <3>3. q[n + 1] \in Event
      BY ONLY <2>1, q \in Seq(Event)
    <3> QED BY ONLY <3>1, <3>2, <3>3
  <2>3. f[n + 1] = ApplyView(v, e) /\ g[n + 1] = Retain(r, e, C)
    <3>1. f[n + 1] = ApplyView(f[n + 1 - 1], q[n + 1])
      BY ONLY <1>1, <2>1
    <3>2. g[n + 1] = Retain(g[n + 1 - 1], q[n + 1], C)
      BY ONLY <1>2, <2>1
    <3> QED BY ONLY <2>1, <2>2, <3>1, <3>2
  <2> SUFFICES ASSUME DomesticIn(ApplyView(v, e))
               PROVE  SameOn(NativeId, ApplyView(v, e), Replay(Retain(r, e, C)))
    BY <2>1, <2>3
  <2>4. Recorded(v, q, n) /\ DomesticIn(v)
    BY <1>3, <2>1, <2>2, DomesticBefore
  <2>5. PICK w \in Views : w = Replay(r)
    BY <1>0, AllTyped DEF Replay
  <2>6. SameOn(NativeId, v, w)
    BY <1>5, <2>2, <2>4, <2>5
  <2>7. PICK u \in Views : u = ApplyView(v, e) /\ DomesticIn(u)
    BY ViewAfter
  <2>8. /\ u.sessions = ViewSessions(v.sessions, e) /\ u.cards = ViewCards(v.cards, e)
        /\ v.sessions \in [Session -> SessionRow] /\ v.cards \in [Card -> CardRow]
    BY <2>7, ViewAfter DEF Views
  <2>9. CASE Column(e) \in C
    <3>1. Replay(Retain(r, e, C)) = ApplyView(w, e)
      BY <1>0, <2>5, <2>9, ShownAppended DEF Retain, Replay
    <3>2. ASSUME Links(e), e.session \in NativeId, Known(v.sessions, e.session)
          PROVE  e.parent \in NativeId
      <4>1. e.session \in Session /\ e.parent \in Session
        BY <3>2, EventFields DEF Fields, Links, SessionTypes
      <4>2. u.sessions[e.session].parent = e.parent
        BY <2>8, <3>2, <4>1, ParentAfter
      <4>3. e.parent \in NativeId \cup {None}
        BY <2>7, <3>2, <4>2 DEF DomesticIn
      <4> QED BY <4>1, <4>3, NoneAssumption DEF Session
    <3>3. Tells(e, e)
      BY DEF Tells
    <3> QED BY <1>0, <2>6, <3>1, <3>2, <3>3, SameAfter
  <2>10. CASE Column(e) \notin C
    <3>1. Replay(Retain(r, e, C)) = w
      BY <2>5, <2>10 DEF Retain
    <3>2. Column(e) \in HermesId /\ Column(e) \notin NativeId /\ Column(e) # None
      BY <2>1, <2>2, <2>10
    <3>3. ASSUME e.type = "linked", NEW s \in NativeId
          PROVE  ~(Known(v.sessions, s) /\ v.sessions[s].parent = e.session)
      <4>1. v.sessions[s].parent \in NativeId \cup {None}
        BY <2>4 DEF DomesticIn
      <4>2. e.session = Column(e)
        BY <3>3 DEF Column, CardOnly, ProjectOnly
      <4> QED BY <3>2, <4>1, <4>2
    <3>4. ASSUME e.type = "assigned"
          PROVE  v.cards[e.card].status = None
      <4>1. PICK k \in Card : k = e.card
        BY <3>4, EventFields DEF Fields
      <4>2. e.session = Column(e)
        BY <3>4 DEF Column, CardOnly, ProjectOnly
      <4>3. v.cards[k].status # None =>
              \E i \in DOMAIN u.cards[k].attempts : u.cards[k].attempts[i].session = e.session
        <5>1. e.type \in {"assigned", "reassigned"} /\ e \in Event /\ k \in Card
          BY <3>4
        <5>2. PICK t \in [Card -> CardRow] : t = v.cards
          BY <2>8
        <5>3. t[k].status # None =>
                \E i \in DOMAIN ViewCards(t, e)[k].attempts :
                  ViewCards(t, e)[k].attempts[i].session = e.session
          BY ONLY <4>1, <5>1, t \in [Card -> CardRow], AttemptsAfter
        <5> QED BY <2>8, <5>2, <5>3
      <4>4. \A i \in DOMAIN u.cards[k].attempts : u.cards[k].attempts[i].session \in NativeId
        BY <2>7 DEF DomesticIn
      <4> QED BY <3>2, <4>1, <4>2, <4>3, <4>4
    <3>5. SameOn(NativeId, v, ApplyView(v, e))
      BY <1>0, <3>2, <3>3, <3>4, NotTouched
    <3> QED BY <2>6, <3>1, <3>5, SameGoesOn
  <2> QED BY <2>9, <2>10
<1> HIDE DEF T
<1>6. \A n \in 0..Len(q) : n \in T
  BY <1>0, <1>4, <1>5, UpTo
<1> QED BY <1>0, <1>1, <1>2, <1>6 DEF T

(***************************************************************************)
(* A sound log: what an event of a session of Stellarc's own is about was  *)
(* created, by Stellarc, and no event takes back what another one made.    *)
(***************************************************************************)
MadeIn(s, q) == \E j \in 1..Len(q) : Creates(q[j], s)
Rooted(q) ==
  \A i \in 1..Len(q) : Column(q[i]) \in NativeId => MadeIn(Column(q[i]), q)
Owns(e) == e.type = "created" /\ e.session \in NativeId => e.source = "stellarc"
Sound(q) == Unrepeated(q) /\ Rooted(q) /\ \A i \in 1..Len(q) : Owns(q[i])

(* E may follow the log q.                                                 *)
Follows(E, q) ==
  /\ \A n \in 1..Len(E) : /\ Owns(E[n])
                          /\ Column(E[n]) \in NativeId =>
                               MadeIn(Column(E[n]), q) \/ MadeIn(Column(E[n]), E)
  /\ \A n \in 1..Len(E) : \A i \in 1..Len(q) : ~Undoes(E[n], q[i])
  /\ \A m, n \in 1..Len(E) : m < n => ~Undoes(E[n], E[m])

LEMMA MadeGrows ==
  ASSUME NEW r, NEW q, NEW E, Grows(r, q, E), NEW s
  PROVE  MadeIn(s, r) <=> MadeIn(s, q) \/ MadeIn(s, E)
<1>1. /\ \A i \in 1..Len(q) : i \in 1..Len(r) /\ r[i] = q[i]
      /\ \A j \in 1..Len(E) : Len(q) + j \in 1..Len(r) /\ r[Len(q) + j] = E[j]
      /\ \A i \in 1..Len(r) : i \in 1..Len(q) \/ \E j \in 1..Len(E) : i = Len(q) + j
  BY DEF Grows
<1>2. MadeIn(s, q) => MadeIn(s, r)
  BY <1>1 DEF MadeIn
<1>3. MadeIn(s, E) => MadeIn(s, r)
  BY <1>1 DEF MadeIn
<1>4. MadeIn(s, r) => MadeIn(s, q) \/ MadeIn(s, E)
  <2>1. SUFFICES ASSUME NEW i \in 1..Len(r), Creates(r[i], s)
                 PROVE  MadeIn(s, q) \/ MadeIn(s, E)
    BY DEF MadeIn
  <2>2. CASE i \in 1..Len(q)
    BY <1>1, <2>1, <2>2 DEF MadeIn
  <2>3. CASE \E j \in 1..Len(E) : i = Len(q) + j
    BY <1>1, <2>1, <2>3 DEF MadeIn
  <2> QED BY <1>1, <2>2, <2>3
<1> QED BY <1>2, <1>3, <1>4

LEMMA SoundGrows ==
  ASSUME NEW q \in Seq(Event), NEW E \in Seq(Event), Sound(q), Follows(E, q)
  PROVE  Sound(q \o E)
<1>1. PICK r : r = q \o E
  OBVIOUS
<1>2. Grows(r, q, E)
  BY <1>1, AppendGrows
<1>3. /\ Len(q) \in Nat /\ Len(E) \in Nat
      /\ \A i \in 1..Len(q) : i \in 1..Len(r) /\ r[i] = q[i]
      /\ \A j \in 1..Len(E) : Len(q) + j \in 1..Len(r) /\ r[Len(q) + j] = E[j]
      /\ \A i \in 1..Len(r) : i \in 1..Len(q) \/ \E j \in 1..Len(E) : i = Len(q) + j
  BY <1>2 DEF Grows
<1>4. ASSUME NEW i \in 1..Len(r)
      PROVE  Owns(r[i]) /\ (Column(r[i]) \in NativeId => MadeIn(Column(r[i]), r))
  <2>1. CASE i \in 1..Len(q)
    <3>1. r[i] = q[i] /\ Owns(q[i]) /\ (Column(q[i]) \in NativeId => MadeIn(Column(q[i]), q))
      BY <1>3, <2>1 DEF Sound, Rooted
    <3> QED BY <1>2, <3>1, MadeGrows
  <2>2. CASE \E j \in 1..Len(E) : i = Len(q) + j
    <3>1. PICK j \in 1..Len(E) : i = Len(q) + j
      BY <2>2
    <3>2. /\ r[i] = E[j] /\ Owns(E[j])
          /\ Column(E[j]) \in NativeId => MadeIn(Column(E[j]), q) \/ MadeIn(Column(E[j]), E)
      BY <1>3, <3>1 DEF Follows
    <3> QED BY <1>2, <3>2, MadeGrows
  <2> QED BY <1>3, <2>1, <2>2
<1>5. ASSUME NEW i \in 1..Len(r), NEW j \in 1..Len(r), i < j
      PROVE  ~Undoes(r[j], r[i])
  <2>1. CASE i \in 1..Len(q) /\ j \in 1..Len(q)
    BY <1>3, <1>5, <2>1 DEF Sound, Unrepeated
  <2>2. CASE i \in 1..Len(q) /\ \E n \in 1..Len(E) : j = Len(q) + n
    BY <1>3, <2>2 DEF Follows
  <2>3. CASE /\ \E m \in 1..Len(E) : i = Len(q) + m
             /\ \E n \in 1..Len(E) : j = Len(q) + n
    <3>1. PICK m \in 1..Len(E), n \in 1..Len(E) : i = Len(q) + m /\ j = Len(q) + n
      BY <2>3
    <3>2. m < n
      BY <1>3, <1>5, <3>1
    <3> QED BY <1>3, <3>1, <3>2 DEF Follows
  <2>4. CASE j \in 1..Len(q) /\ \E m \in 1..Len(E) : i = Len(q) + m
    BY <1>3, <1>5, <2>4
  <2> QED BY <1>3, <2>1, <2>2, <2>3, <2>4
<1> QED BY <1>1, <1>4, <1>5 DEF Sound, Unrepeated, Rooted

(* ... an event of its own.                                                *)
LEMMA OneFollows ==
  ASSUME NEW q, NEW e, Owns(e),
         Column(e) \in NativeId => MadeIn(Column(e), q) \/ Creates(e, Column(e)),
         \A i \in 1..Len(q) : ~Undoes(e, q[i])
  PROVE  Follows(<<e>>, q)
<1>1. PICK E : E = <<e>>
  OBVIOUS
<1>2. Len(E) = 1 /\ E[1] = e /\ \A n \in 1..Len(E) : n = 1
  BY <1>1
<1>3. Creates(e, Column(e)) => MadeIn(Column(e), E)
  BY <1>2 DEF MadeIn
<1>4. \A m, n \in 1..Len(E) : ~(m < n)
  BY <1>2
<1> QED BY <1>1, <1>2, <1>3, <1>4 DEF Follows

LEMMA QuietlyFollows ==
  ASSUME NEW q, NEW e, e.type \notin {"created", "forked", "handover", "card_created"},
         Column(e) \in NativeId => MadeIn(Column(e), q)
  PROVE  Follows(<<e>>, q)
<1>1. Owns(e) /\ \A i \in 1..Len(q) : ~Undoes(e, q[i])
  BY DEF Owns, Undoes
<1> QED BY <1>1, OneFollows

(* What is about a session is about one that was created.                  *)
LEMMA NotLinkedYet ==
  ASSUME NEW q, Sound(q), NEW s \in NativeId, ~MadeIn(s, q)
  PROVE  \A i \in 1..Len(q) : ~(Links(q[i]) /\ q[i].session = s)
<1>1. ASSUME NEW i \in 1..Len(q), Links(q[i]), q[i].session = s
      PROVE  FALSE
  <2>1. Column(q[i]) = s
    BY <1>1 DEF Column, Links, CardOnly, ProjectOnly
  <2> QED BY <2>1 DEF Sound, Rooted
<1> QED BY <1>1

(* A boot keeps a sound log sound.                                         *)
LEMMA SoundRetained ==
  ASSUME NEW q \in Seq(Event), Sound(q), NEW C,
         \A i \in 1..Len(q) : Column(q[i]) \in NativeId => Column(q[i]) \in C
  PROVE  /\ Sound(Retained(q, C))
         /\ \A i \in 1..Len(Retained(q, C)) : \E j \in 1..Len(q) : Retained(q, C)[i] = q[j]
<1>1. PICK r : r = Retained(q, C)
  OBVIOUS
<1>2. PICK at : Places(at, r, q, C, Len(q))
  BY <1>1, RetainedIs
<1>3. /\ \A i \in 1..Len(r) : r[i] = q[at[i]] /\ at[i] \in 1..Len(q)
      /\ \A i, j \in 1..Len(r) : i < j => at[i] < at[j]
      /\ \A l \in 1..Len(q) : Column(q[l]) \in C => \E i \in 1..Len(r) : at[i] = l
  BY <1>2 DEF Places
<1>4. ASSUME NEW i \in 1..Len(r), Column(r[i]) \in NativeId
      PROVE  MadeIn(Column(r[i]), r)
  <2>1. PICK c \in NativeId : c = Column(r[i])
    BY <1>4
  <2>2. PICK j \in 1..Len(q) : Creates(q[j], c)
    BY <1>3, <2>1 DEF Sound, Rooted, MadeIn
  <2>3. Column(q[j]) = c
    BY <2>2 DEF Column, Creates, CardOnly, ProjectOnly
  <2>4. PICK l \in 1..Len(r) : at[l] = j
    BY <1>3, <2>3
  <2> QED BY <1>3, <2>1, <2>2, <2>4 DEF MadeIn
<1>5. ASSUME NEW i \in 1..Len(r), NEW j \in 1..Len(r), i < j
      PROVE  ~Undoes(r[j], r[i])
  BY <1>3, <1>5 DEF Sound, Unrepeated
<1>6. \A i \in 1..Len(r) : Owns(r[i])
  BY <1>3 DEF Sound
<1> QED BY <1>1, <1>3, <1>4, <1>5, <1>6 DEF Sound, Unrepeated, Rooted

(***************************************************************************)
(* The rows hold what the log made.                                        *)
(***************************************************************************)
LEMMA SourceAfter ==
  ASSUME NEW t \in [Session -> SessionRow], NEW e \in Event, NEW s \in Session
  PROVE  SqlSessions(t, e)[s].source = IF Creates(e, s) THEN e.source ELSE t[s].source
<1>0. Fields(e)
  BY EventFields
<1> DEFINE Good == SqlSessions(t, e)[s].source = IF Creates(e, s) THEN e.source ELSE t[s].source
<1>1. ASSUME NEW o \in Session, NEW row, row.source = t[o].source,
             SqlSessions(t, e) = Amend(t, o, row), ~Creates(e, s)
      PROVE  Good
  BY <1>1 DEF Amend
<1> SUFFICES Good
  OBVIOUS
<1>2. CASE e.type = "created"
  <2>1. e.session \in Session
    BY <1>0, <1>2 DEF Fields, SessionTypes
  <2>2. SqlSessions(t, e) = [t EXCEPT ![e.session].source = e.source, ![e.session].titled = e.titled]
    BY <1>2 DEF SqlSessions
  <2>3. CASE s = e.session
    <3>1. Creates(e, s)
      BY <1>2, <2>3 DEF Creates
    <3>2. SqlSessions(t, e)[s] = [[t[s] EXCEPT !.source = e.source] EXCEPT !.titled = e.titled]
      BY <2>1, <2>2, <2>3
    <3> QED BY <3>1, <3>2 DEF SessionRow
  <2>4. CASE s # e.session
    BY <2>1, <2>2, <2>4 DEF Creates
  <2> QED BY <2>3, <2>4
<1>3. CASE e.type = "archived"
  <2> DEFINE row == [t[e.session] EXCEPT !.archived = TRUE]
  <2>1. /\ e.session \in Session /\ ~Creates(e, s)
        /\ SqlSessions(t, e) = Amend(t, e.session, row)
    BY <1>0, <1>3 DEF Fields, SessionTypes, SqlSessions, ViewSessions, Creates
  <2>2. row.source = t[e.session].source
    BY <2>1 DEF SessionRow
  <2> HIDE DEF row, Good
  <2> QED BY <1>1, <2>1, <2>2
<1>4. CASE e.type = "message"
  BY <1>4 DEF SqlSessions, Creates
<1>5. CASE e.type = "attached"
  <2> DEFINE row == [t[e.session] EXCEPT !.project = e.project]
  <2>1. /\ e.session \in Session /\ ~Creates(e, s)
        /\ SqlSessions(t, e) = Amend(t, e.session, row)
    BY <1>0, <1>5 DEF Fields, SessionTypes, SqlSessions, ViewSessions, Creates
  <2>2. row.source = t[e.session].source
    BY <2>1 DEF SessionRow
  <2> HIDE DEF row, Good
  <2> QED BY <1>1, <2>1, <2>2
<1>6. CASE e.type \in {"context_attached", "context_detached"}
  <2> DEFINE mode == IF e.type = "context_attached" THEN e.mode ELSE None
             row == [t[e.session] EXCEPT !.context[e.project] = mode]
  <2>1. /\ e.session \in Session /\ ~Creates(e, s)
        /\ SqlSessions(t, e) = Amend(t, e.session, row)
    BY <1>0, <1>6 DEF Fields, SessionTypes, SqlSessions, SqlContext, Creates, Context
  <2> HIDE DEF mode
  <2>2. row.source = t[e.session].source
    BY <2>1 DEF SessionRow
  <2> HIDE DEF row, Good
  <2> QED BY <1>1, <2>1, <2>2
<1>7. CASE e.type = "forked"
  <2> DEFINE row == [t[e.session] EXCEPT !.parent = e.parent,
                       !.card = t[e.parent].card, !.project = t[e.parent].project]
  <2>1. /\ e.session \in Session /\ ~Creates(e, s)
        /\ SqlSessions(t, e) = Amend(t, e.session, row)
    BY <1>0, <1>7 DEF Fields, SessionTypes, SqlSessions, SqlForked, Creates
  <2>2. row.source = t[e.session].source
    BY <2>1 DEF SessionRow
  <2> HIDE DEF row, Good
  <2> QED BY <1>1, <2>1, <2>2
<1>8. CASE e.type = "handover"
  <2> DEFINE row == [t[e.session] EXCEPT !.parent = e.parent, !.card = t[e.parent].card]
  <2>1. /\ e.session \in Session /\ ~Creates(e, s)
        /\ SqlSessions(t, e) = Amend(t, e.session, row)
    BY <1>0, <1>8 DEF Fields, SessionTypes, SqlSessions, SqlHandover, Creates
  <2>2. row.source = t[e.session].source
    BY <2>1 DEF SessionRow
  <2> HIDE DEF row, Good
  <2> QED BY <1>1, <2>1, <2>2
<1>9. CASE e.type = "linked"
  <2>1. ~Creates(e, s) /\ SqlSessions(t, e)[s] \in {t[s], [t[s] EXCEPT !.card = e.card]}
    BY <1>9 DEF Creates, SqlSessions, ViewSessions, LinkTree
  <2>2. t[s] \in SessionRow
    OBVIOUS
  <2> QED BY <2>1, <2>2 DEF SessionRow
<1>10. CASE e.type \notin SessionTypes
  BY <1>10 DEF SqlSessions, ViewSessions, Creates, SessionTypes
<1> QED BY <1>2, <1>3, <1>4, <1>5, <1>6, <1>7, <1>8, <1>9, <1>10 DEF SessionTypes

LEMMA StatusAfter ==
  ASSUME NEW t \in [Card -> CardRow], NEW e \in Event, NEW k \in Card,
         t[k].status # None \/ e = CardEvent("card_created", k)
  PROVE  SqlCards(t, e)[k].status # None
<1>0. Fields(e)
  BY EventFields
<1>1. CASE e.type = "card_created"
  <2>1. e.card \in Card /\ (e.card = k \/ t[k].status # None)
    BY <1>0, <1>1 DEF Fields, CardOnly, CardEvent
  <2>2. SqlCards(t, e) = [t EXCEPT ![e.card].status = IF @ = None THEN "todo" ELSE @]
    BY <1>1 DEF SqlCards
  <2>3. CASE e.card = k
    BY <2>1, <2>2, <2>3 DEF CardRow, None
  <2>4. CASE e.card # k
    BY <2>1, <2>2, <2>4
  <2> QED BY <2>3, <2>4
<1>2. CASE e.type = "card_done"
  <2>1. e.card \in Card /\ t[k].status # None
    BY <1>0, <1>2 DEF Fields, CardOnly, CardEvent
  <2>2. SqlCards(t, e) = IF t[e.card].status = None THEN t ELSE [t EXCEPT ![e.card].status = "done"]
    BY <1>2 DEF SqlCards
  <2>3. CASE e.card = k
    BY <2>1, <2>2, <2>3 DEF CardRow, None
  <2>4. CASE e.card # k
    BY <2>1, <2>2, <2>4
  <2> QED BY <2>3, <2>4
<1>3. CASE e.type \notin {"card_created", "card_done"}
  <2>1. t[k].status # None /\ SqlCards(t, e) = ViewCards(t, e)
    BY <1>3 DEF SqlCards, CardEvent
  <2> QED BY <2>1, CardsAfter
<1> QED BY <1>1, <1>2, <1>3

HoldsSessions(r, q) == \A s \in NativeId : MadeIn(s, q) => Managed(r.sessions[s])
HoldsCards(r, q) ==
  \A k \in Card : \A i \in 1..Len(q) : q[i] = CardEvent("card_created", k) => r.cards[k].status # None

LEMMA BatchHolds ==
  ASSUME NEW r \in Rows, NEW E \in Seq(Event), \A n \in 1..Len(E) : Owns(E[n])
  PROVE  /\ \A s \in NativeId : Managed(r.sessions[s]) \/ MadeIn(s, E) =>
              Managed(ProjectAll(r, E).sessions[s])
         /\ \A k \in Card :
              r.cards[k].status # None \/ (\E i \in 1..Len(E) : E[i] = CardEvent("card_created", k)) =>
                ProjectAll(r, E).cards[k].status # None
<1>0. Len(E) \in Nat
  OBVIOUS
<1>1. PICK f \in [0..Len(E) -> Rows] :
        /\ f[0] = r /\ ProjectAll(r, E) = f[Len(E)]
        /\ \A n \in 1..Len(E) : f[n] = ApplySql(f[n - 1], E[n])
  BY ProjectAllIs
<1> DEFINE Held(x, n) ==
             /\ \A s \in NativeId :
                  Managed(r.sessions[s]) \/ (\E j \in 1..n : Creates(E[j], s)) => Managed(x.sessions[s])
             /\ \A k \in Card :
                  r.cards[k].status # None \/ (\E i \in 1..n : E[i] = CardEvent("card_created", k)) =>
                    x.cards[k].status # None
           T == {n \in 0..Len(E) : Held(f[n], n)}
<1>2. 0 \in T
  <2>1. Held(r, 0)
    OBVIOUS
  <2> QED BY <1>0, <1>1, <2>1
<1>3. ASSUME NEW n \in 0..(Len(E) - 1), n \in T
      PROVE  n + 1 \in T
  <2>1. /\ n \in 0..Len(E) /\ n + 1 \in 1..Len(E) /\ n + 1 - 1 = n /\ n + 1 \in 0..Len(E) /\ n \in Nat
        /\ \A j : j \in 1..(n + 1) <=> j \in 1..n \/ j = n + 1
    <3>1. Len(E) \in Nat
      BY <1>0
    <3>2. /\ n \in 0..Len(E) /\ n + 1 \in 1..Len(E) /\ n + 1 - 1 = n /\ n + 1 \in 0..Len(E) /\ n \in Nat
      BY ONLY <3>1, n \in 0..(Len(E) - 1)
    <3>3. \A j : j \in 1..(n + 1) <=> j \in 1..n \/ j = n + 1
      BY ONLY <3>2
    <3> QED BY <3>2, <3>3
  <2>2. PICK x \in Rows, e \in Event : x = f[n] /\ e = E[n + 1]
    BY <2>1
  <2>3. f[n + 1] = ApplySql(x, e) /\ Held(x, n) /\ Owns(e)
    <3>1. f[n + 1] = ApplySql(f[n + 1 - 1], E[n + 1]) /\ Owns(E[n + 1])
      BY <1>1, <2>1
    <3>2. Held(f[n], n)
      BY <1>3
    <3> QED BY ONLY <2>1, <2>2, <3>1, <3>2
  <2>4. PICK y \in Rows : y = ApplySql(x, e)
    BY RowsAfter
  <2>5. /\ x.sessions \in [Session -> SessionRow] /\ x.cards \in [Card -> CardRow]
        /\ y.sessions = SqlSessions(x.sessions, e) /\ y.cards = SqlCards(x.cards, e)
    BY <2>4, RowsAfter DEF Rows
  <2>6. ASSUME NEW s \in NativeId,
               Managed(r.sessions[s]) \/ \E j \in 1..(n + 1) : Creates(E[j], s)
        PROVE  Managed(y.sessions[s])
    <3>1. s \in Session /\ (Managed(x.sessions[s]) \/ Creates(e, s))
      BY <2>1, <2>2, <2>3, <2>6 DEF Session
    <3>2. Creates(e, s) => e.source = "stellarc"
      BY <2>3 DEF Owns, Creates
    <3> QED BY <2>5, <3>1, <3>2, SourceAfter DEF Managed
  <2>7. ASSUME NEW k \in Card,
               r.cards[k].status # None \/ \E i \in 1..(n + 1) : E[i] = CardEvent("card_created", k)
        PROVE  y.cards[k].status # None
    <3>1. x.cards[k].status # None \/ e = CardEvent("card_created", k)
      BY <2>1, <2>2, <2>3, <2>7
    <3> QED BY <2>5, <3>1, StatusAfter
  <2>8. Held(y, n + 1)
    BY <2>6, <2>7
  <2> HIDE DEF Held
  <2> QED BY <2>1, <2>3, <2>4, <2>8
<1> HIDE DEF T
<1>4. \A n \in 0..Len(E) : n \in T
  BY <1>0, <1>2, <1>3, UpTo
<1>5. Held(ProjectAll(r, E), Len(E))
  BY <1>0, <1>1, <1>4 DEF T
<1> QED BY <1>5 DEF MadeIn

LEMMA HoldsOn ==
  ASSUME NEW r \in Rows, NEW q \in Seq(Event), NEW E \in Seq(Event), Sound(q \o E)
  PROVE  /\ HoldsSessions(r, q) => HoldsSessions(ProjectAll(r, E), q \o E)
         /\ HoldsCards(r, q) => HoldsCards(ProjectAll(r, E), q \o E)
<1>1. PICK p : p = q \o E
  OBVIOUS
<1>2. Grows(p, q, E)
  BY <1>1, AppendGrows
<1>3. /\ \A i \in 1..Len(q) : i \in 1..Len(p) /\ p[i] = q[i]
      /\ \A j \in 1..Len(E) : Len(q) + j \in 1..Len(p) /\ p[Len(q) + j] = E[j]
      /\ \A i \in 1..Len(p) : i \in 1..Len(q) \/ \E j \in 1..Len(E) : i = Len(q) + j
  BY <1>2 DEF Grows
<1>4. \A n \in 1..Len(E) : Owns(E[n])
  BY <1>1, <1>3 DEF Sound
<1>5. PICK y : y = ProjectAll(r, E)
  OBVIOUS
<1>6. /\ \A s \in NativeId : Managed(r.sessions[s]) \/ MadeIn(s, E) => Managed(y.sessions[s])
      /\ \A k \in Card :
           r.cards[k].status # None \/ (\E i \in 1..Len(E) : E[i] = CardEvent("card_created", k)) =>
             y.cards[k].status # None
  BY <1>4, <1>5, BatchHolds
<1>7. HoldsSessions(r, q) => HoldsSessions(y, p)
  BY <1>2, <1>6, MadeGrows DEF HoldsSessions
<1>8. ASSUME HoldsCards(r, q), NEW k \in Card, NEW i \in 1..Len(p), p[i] = CardEvent("card_created", k)
      PROVE  y.cards[k].status # None
  <2>1. CASE i \in 1..Len(q)
    BY <1>3, <1>6, <1>8, <2>1 DEF HoldsCards
  <2>2. CASE \E j \in 1..Len(E) : i = Len(q) + j
    BY <1>3, <1>6, <1>8, <2>2
  <2> QED BY <1>3, <2>1, <2>2
<1> QED BY <1>1, <1>5, <1>7, <1>8 DEF HoldsCards

(***************************************************************************)
(* What is shown of a batch.                                               *)
(***************************************************************************)
LEMMA BatchSame ==
  ASSUME NEW v \in Views, NEW w \in Views, SameOn(Session, v, w), NEW E \in Seq(Event),
         NEW F \in Seq(Event), ToldAs(E, F)
  PROVE  SameOn(Session, ShowAll(v, E), ShowAll(w, F))
<1>1. PICK f \in [0..Len(E) -> Views] :
        /\ f[0] = v /\ ShowAll(v, E) = f[Len(E)]
        /\ \A n \in 1..Len(E) : f[n] = ApplyView(f[n - 1], E[n])
  BY ShowAllIs
<1>2. PICK g \in [0..Len(F) -> Views] :
        /\ g[0] = w /\ ShowAll(w, F) = g[Len(F)]
        /\ \A n \in 1..Len(F) : g[n] = ApplyView(g[n - 1], F[n])
  BY ShowAllIs
<1>3. /\ Len(E) = Len(F) /\ Len(E) \in Nat /\ Len(E) \in 0..Len(E)
      /\ \A n \in 1..Len(E) : Tells(E[n], F[n])
  BY DEF ToldAs
<1> DEFINE T == {n \in 0..Len(E) : SameOn(Session, f[n], g[n])}
<1>4. 0 \in T
  BY <1>1, <1>2, <1>3
<1>5. ASSUME NEW n \in 0..(Len(E) - 1), n \in T
      PROVE  n + 1 \in T
  <2>1. n \in 0..Len(E) /\ n + 1 \in 1..Len(E) /\ n + 1 - 1 = n /\ n + 1 \in 0..Len(E)
    BY <1>3
  <2>2. PICK x, y, e, d : x = f[n] /\ y = g[n] /\ e = E[n + 1] /\ d = F[n + 1]
    BY ONLY TRUE
  <2>3. /\ x \in Views /\ y \in Views /\ e \in Event /\ d \in Event
        /\ f[n + 1] = ApplyView(x, e) /\ g[n + 1] = ApplyView(y, d)
        /\ SameOn(Session, x, y) /\ Tells(e, d)
    <3>1. f[n + 1] = ApplyView(f[n + 1 - 1], E[n + 1])
      BY ONLY <1>1, <2>1
    <3>2. g[n + 1] = ApplyView(g[n + 1 - 1], F[n + 1])
      BY ONLY <1>2, <1>3, <2>1
    <3>3. x \in Views /\ e \in Event
      BY ONLY <2>1, <2>2, f \in [0..Len(E) -> Views], E \in Seq(Event)
    <3>4. y \in Views /\ d \in Event
      BY ONLY <1>3, <2>1, <2>2, g \in [0..Len(F) -> Views], F \in Seq(Event)
    <3>5. SameOn(Session, x, y) /\ Tells(e, d)
      BY <1>3, <1>5, <2>1, <2>2
    <3> QED BY ONLY <2>1, <2>2, <3>1, <3>2, <3>3, <3>4, <3>5
  <2>4. Links(e) => e.parent \in Session
    BY <2>3, EventFields DEF Fields, Links
  <2>5. SameOn(Session, ApplyView(x, e), ApplyView(y, d))
    BY <2>3, <2>4, SameAfter
  <2> QED BY <2>1, <2>3, <2>5
<1> HIDE DEF T
<1>6. \A n \in 0..Len(E) : n \in T
  BY <1>3, <1>4, <1>5, UpTo
<1> QED BY <1>1, <1>2, <1>3, <1>6 DEF T

LEMMA CreatedElsewhere ==
  ASSUME NEW v \in Views, NEW E \in Seq(Event),
         \A n \in 1..Len(E) : E[n].type = "created" /\ E[n].session \notin NativeId
  PROVE  SameOn(NativeId, v, ShowAll(v, E))
<1>0. Len(E) \in Nat /\ NativeId \in SUBSET Session
  BY DEF Session
<1>1. PICK f \in [0..Len(E) -> Views] :
        /\ f[0] = v /\ ShowAll(v, E) = f[Len(E)]
        /\ \A n \in 1..Len(E) : f[n] = ApplyView(f[n - 1], E[n])
  BY ShowAllIs
<1> DEFINE T == {n \in 0..Len(E) : SameOn(NativeId, v, f[n])}
<1>2. 0 \in T
  BY <1>0, <1>1, SameGoesOn
<1>3. ASSUME NEW n \in 0..(Len(E) - 1), n \in T
      PROVE  n + 1 \in T
  <2>1. n \in 0..Len(E) /\ n + 1 \in 1..Len(E) /\ n + 1 - 1 = n /\ n + 1 \in 0..Len(E)
    BY <1>0
  <2>2. PICK x \in Views, e \in Event : x = f[n] /\ e = E[n + 1]
    BY <2>1
  <2>3. /\ f[n + 1] = ApplyView(x, e) /\ SameOn(NativeId, v, x)
        /\ e.type = "created" /\ e.session \notin NativeId
    BY <1>1, <1>3, <2>1, <2>2
  <2>4. Column(e) \notin NativeId \cup {None}
    <3>1. Column(e) = e.session /\ e.session \in Session
      BY <2>3, EventFields DEF Column, CardOnly, ProjectOnly, Fields, SessionTypes
    <3> QED BY <2>3, <3>1 DEF Session
  <2>5. SameOn(NativeId, x, ApplyView(x, e))
    BY <1>0, <2>3, <2>4, NotTouched
  <2> QED BY <2>1, <2>3, <2>5, SameGoesOn
<1> HIDE DEF T
<1>4. \A n \in 0..Len(E) : n \in T
  BY <1>0, <1>2, <1>3, UpTo
<1> QED BY <1>0, <1>1, <1>4 DEF T

(***************************************************************************)
(* What is shown is what a replay of the log would show.                   *)
(***************************************************************************)
(* The steps are told as they are stored, and leave a sound log sound.     *)
Orderly(steps, q) ==
  /\ Len(steps) <= 4
  /\ \A i \in 1..Len(steps) : steps[i].op = "append" =>
       /\ i < Len(steps) /\ ToldAs(steps[i].events, steps[i + 1].events)
       /\ i <= 2 => Sound(q \o steps[i].events)
       /\ i = 3 /\ steps[1].op = "append" => Sound((q \o steps[1].events) \o steps[3].events)

ReplayInv ==
  calm =>
    /\ indexing \in {"import", "replay", "done"}
    /\ Sound(log) /\ HoldsCards(rows, log)
    /\ backend = "sqlite" => HoldsSessions(rows, log)
    /\ indexing # "done" => ~Busy
    /\ indexing = "replay" => SameOn(NativeId, view, Replay(log))
    /\ indexing # "replay" /\ ~Busy => SameOn(Session, view, Replay(log))
    /\ \A g, h \in Handlers : handlers[g] # <<>> /\ handlers[h] # <<>> => g = h
    /\ \A h \in Handlers : handlers[h] # <<>> =>
         Orderly(handlers[h], log) /\ SameOn(Session, ToShow(handlers[h], view), Replay(log))

LEMMA BeginsOrderly ==
  ASSUME StoreInv, ReplayInv, NEW steps, Begins(steps), Begin(steps),
         Sound(log) /\ HoldsCards(rows, log) => Orderly(steps, log)
  PROVE  ReplayInv'
<1>1. /\ UNCHANGED <<log, rows, view, indexing, backend>> /\ begun \in Nat /\ arrived \in Nat
      /\ handlers \in [Handlers -> Seq(Steps)] /\ begun + arrived < MaxWork
      /\ handlers' = [handlers EXCEPT ![begun + 1] = steps]
      /\ calm' = (calm /\ ~Busy /\ indexing = "done")
  BY DEF Begin, StoreInv, StoreTypeOK
<1>2. begun + 1 \in Handlers
  BY <1>1 DEF Handlers, StoreAssumption
<1>3. PICK o \in Handlers : o = begun + 1
  BY <1>2
<1>4. handlers'[o] = steps /\ \A h \in Handlers : h # o => handlers'[h] = handlers[h]
  BY <1>1, <1>3
<1>5. SUFFICES ASSUME calm' PROVE ReplayInv'
  BY DEF ReplayInv
<1>6. calm /\ indexing = "done" /\ \A h \in Handlers : handlers[h] = <<>>
  BY <1>1, <1>5 DEF Busy
<1>7. /\ Sound(log) /\ HoldsCards(rows, log) /\ (backend = "sqlite" => HoldsSessions(rows, log))
      /\ SameOn(Session, view, Replay(log))
  BY <1>6 DEF ReplayInv, Busy
<1>8. Orderly(steps, log) /\ ToShow(steps, view) = view
  BY <1>7 DEF Begins, Showing, ToShow
<1>9. \A h \in Handlers : handlers'[h] # <<>> => h = o
  BY <1>4, <1>6
<1>10. indexing' = "done"
  BY <1>1, <1>6
<1>11. /\ Sound(log') /\ HoldsCards(rows', log') /\ (backend' = "sqlite" => HoldsSessions(rows', log'))
       /\ SameOn(Session, view', Replay(log'))
  BY <1>1, <1>7
<1>12. \A h \in Handlers : handlers'[h] # <<>> =>
         Orderly(handlers'[h], log') /\ SameOn(Session, ToShow(handlers'[h], view'), Replay(log'))
  BY <1>1, <1>4, <1>7, <1>8, <1>9
<1> QED BY <1>9, <1>10, <1>11, <1>12 DEF ReplayInv

(* A handler stores.                                                       *)
LEMMA StoresOrderly ==
  ASSUME StoreInv, RowsInv, ReplayInv, NEW h \in Handlers, Do(h),
         Head(handlers[h]).op = "append", AppendBatch(Head(handlers[h]).events),
         handlers' = [handlers EXCEPT ![h] = Tail(handlers[h])], UNCHANGED <<view, calm>>
  PROVE  ReplayInv'
<1> DEFINE steps == handlers[h]
           E == steps[1].events
           F == steps[2].events
           rest == SubSeq(steps, 2, Len(steps))
<1>1. /\ UNCHANGED <<indexing, backend>> /\ log \in Seq(Event)
      /\ handlers \in [Handlers -> Seq(Steps)] /\ steps \in Seq(Steps) /\ steps # <<>>
      /\ view \in Views /\ rows \in Rows
  BY DEF Do, StoreInv, StoreTypeOK, RowsInv
<1>2. /\ Head(steps) = steps[1] /\ steps[1] \in Steps /\ Len(steps) \in Nat /\ Len(steps) >= 1
      /\ Tail(steps) = rest
  BY <1>1, TailIsSuffix
<1>3. /\ E \in Seq(Event) /\ rows' = ProjectAll(rows, E) /\ log' = log \o E
      /\ steps[1].op = "append"
  BY <1>2 DEF Steps, AppendBatch
<1>31. Shape(steps) /\ 1 \in 1..Len(steps)
  BY <1>2 DEF StoreInv, Handled
<1>4. 1 < Len(steps) /\ steps[2].op = "apply" /\ steps[2] \in Steps /\ F \in Seq(Event)
  <2>2. 1 < Len(steps) /\ steps[2].op = "apply"
    BY <1>3, <1>31 DEF Shape
  <2>3. 2 \in 1..Len(steps)
    BY <1>2, <2>2
  <2>4. steps[2] \in Steps
    BY <1>1, <2>3
  <2> QED BY <2>2, <2>4 DEF Steps
<1>5. /\ rest \in Seq(Steps) /\ Len(rest) = Len(steps) - 1
      /\ \A i \in 1..Len(rest) : rest[i] = steps[i + 2 - 1]
  BY <1>1, <1>2, <1>4, SuffixIs
<1>6. rest # <<>> /\ rest[1] = steps[2] /\ handlers' = [handlers EXCEPT ![h] = rest]
  <2>1. 1 \in 1..Len(rest)
    BY <1>2, <1>4, <1>5
  <2>2. rest[1] = steps[2]
    BY <1>5, <2>1
  <2> HIDE DEF rest
  <2>3. rest # <<>>
    BY <2>1
  <2> QED BY <1>2, <2>2, <2>3
<1> HIDE DEF rest
<1>7. handlers'[h] = rest /\ \A g \in Handlers : g # h => handlers'[g] = handlers[g]
  BY <1>1, <1>6
<1>8. SUFFICES ASSUME calm PROVE ReplayInv'
  BY DEF ReplayInv
<1>9. /\ indexing = "done" /\ \A g \in Handlers : handlers[g] # <<>> => g = h
      /\ Orderly(steps, log) /\ SameOn(Session, ToShow(steps, view), Replay(log))
      /\ HoldsCards(rows, log) /\ (backend = "sqlite" => HoldsSessions(rows, log))
  BY <1>1, <1>8 DEF ReplayInv, Busy
<1>10. SameOn(Session, view, Replay(log))
  BY <1>3, <1>9 DEF ToShow
<1>11. ToldAs(E, F) /\ Sound(log \o E)
  BY <1>3, <1>9, <1>31 DEF Orderly
<1>12. Sound(log') /\ HoldsCards(rows', log') /\ (backend' = "sqlite" => HoldsSessions(rows', log'))
  <2> HIDE DEF E, steps
  <2> QED BY <1>1, <1>3, <1>9, <1>11, HoldsOn
<1>13. SameOn(Session, ToShow(rest, view), Replay(log'))
  <2>1. Replay(log') = ShowAll(Replay(log), E)
    BY <1>1, <1>3, EmptyTyped, ShownInTurn DEF Replay
  <2>2. ToShow(rest, view) = ShowAll(view, F)
    BY <1>4, <1>6 DEF ToShow
  <2>3. PICK w \in Views : w = Replay(log)
    BY <1>1, EmptyTyped, AllTyped DEF Replay
  <2>4. SameOn(Session, w, view)
    BY <1>10, <2>3, SameGoesOn
  <2>5. SameOn(Session, ShowAll(w, E), ShowAll(view, F))
    <3> HIDE DEF E, F
    <3> QED BY <1>1, <1>3, <1>4, <1>11, <2>4, BatchSame
  <2> QED BY <2>1, <2>2, <2>3, <2>5, SameGoesOn
<1>14. Orderly(rest, log')
  <2>1. Len(rest) <= 3 /\ Len(steps) <= 4
    BY <1>2, <1>5, <1>9 DEF Orderly
  <2>2. ASSUME NEW i \in 1..Len(rest), rest[i].op = "append"
        PROVE  /\ i < Len(rest) /\ ToldAs(rest[i].events, rest[i + 1].events)
               /\ i <= 2 => Sound(log' \o rest[i].events)
               /\ i # 3
    <3>1. /\ i \in Nat /\ i + 1 \in 1..Len(steps) /\ i + 2 - 1 = i + 1 /\ i # 0
          /\ rest[i] = steps[i + 1]
      BY <1>2, <1>5
    <3>2. i # 1
      BY <1>4, <1>6, <2>2
    <3>3. PICK j \in 1..Len(steps) : j = i + 1
      BY <3>1
    <3>4. j < Len(steps) /\ ToldAs(steps[j].events, steps[j + 1].events)
      BY <1>9, <2>2, <3>1, <3>3 DEF Orderly
    <3>5. i < Len(rest) /\ i # 3 /\ j \in 1..Len(rest) /\ j + 2 - 1 = j + 1
      <4>1. Len(steps) \in Nat /\ i \in Nat /\ j < Len(steps) /\ Len(steps) <= 4 /\ j = i + 1
        BY <1>2, <2>1, <3>1, <3>3, <3>4
      <4>2. Len(rest) = Len(steps) - 1
        BY <1>5
      <4> QED BY ONLY <4>1, <4>2, <3>1
    <3>6. rest[i + 1] = steps[j + 1]
      BY <1>5, <3>3, <3>5
    <3>7. ASSUME i <= 2 PROVE Sound(log' \o rest[i].events)
      <4>1. i = 2 /\ j = 3
        BY <3>1, <3>2, <3>3, <3>7
      <4>2. Sound((log \o steps[1].events) \o steps[3].events)
        BY <1>3, <1>9, <2>2, <3>1, <3>3, <4>1 DEF Orderly
      <4> QED BY <1>3, <3>1, <3>3, <4>1, <4>2
    <3> QED BY <3>1, <3>3, <3>4, <3>5, <3>6, <3>7
  <2> QED BY <1>2, <1>5, <2>1, <2>2 DEF Orderly
<1>15. \A g \in Handlers : handlers'[g] # <<>> => g = h
  BY <1>7, <1>9
<1>16. indexing' = "done" /\ Busy'
  BY <1>1, <1>6, <1>7, <1>9 DEF Busy
<1>17. \A g \in Handlers : handlers'[g] # <<>> =>
         Orderly(handlers'[g], log') /\ SameOn(Session, ToShow(handlers'[g], view'), Replay(log'))
  BY <1>7, <1>13, <1>14, <1>15
<1> QED BY <1>12, <1>15, <1>16, <1>17 DEF ReplayInv

(* A handler shows.                                                        *)
LEMMA ShowsOrderly ==
  ASSUME StoreInv, ReplayInv, NEW h \in Handlers, Do(h), Head(handlers[h]).op = "apply",
         view' = ShowAll(view, Head(handlers[h]).events),
         handlers' = [handlers EXCEPT ![h] = Tail(handlers[h])],
         UNCHANGED <<log, rows, calm>>
  PROVE  ReplayInv'
<1> DEFINE steps == handlers[h]
           rest == SubSeq(steps, 2, Len(steps))
<1>1. /\ UNCHANGED <<indexing, backend>>
      /\ handlers \in [Handlers -> Seq(Steps)] /\ steps \in Seq(Steps) /\ steps # <<>>
  BY DEF Do, StoreInv, StoreTypeOK
<1>2. /\ Head(steps) = steps[1] /\ steps[1] \in Steps /\ Len(steps) \in Nat /\ Len(steps) >= 1
      /\ Tail(steps) = rest
  BY <1>1, TailIsSuffix
<1>3. steps[1].op = "apply" /\ view' = ToShow(steps, view) /\ Shape(steps)
  BY <1>1, <1>2 DEF ToShow, StoreInv, Handled
<1>4. handlers' = [handlers EXCEPT ![h] = rest]
  BY <1>2
<1>5. /\ rest \in Seq(Steps) /\ Len(rest) = IF 2 <= Len(steps) THEN Len(steps) - 2 + 1 ELSE 0
      /\ \A i \in 1..Len(rest) : rest[i] = steps[i + 2 - 1] /\ i + 2 - 1 \in 1..Len(steps)
  BY <1>1, <1>2, SuffixIs
<1> HIDE DEF rest
<1>6. rest # <<>> => rest[1].op = "append" /\ 2 \in 1..Len(steps) /\ steps[2].op = "append"
  <2>1. ASSUME rest # <<>> PROVE rest[1].op = "append" /\ 2 \in 1..Len(steps) /\ steps[2].op = "append"
    <3>1. Len(rest) \in Nat /\ Len(rest) # 0
      BY <1>5, <2>1, EmptySeq
    <3>2. 1 \in 1..Len(rest) /\ 1 + 2 - 1 = 2 /\ 2 <= Len(steps) /\ 1 \in 1..Len(steps)
      BY <1>2, <1>5, <3>1
    <3>3. rest[1] = steps[2] /\ 2 \in 1..Len(steps)
      BY <1>5, <3>2
    <3> QED BY <1>2, <1>3, <3>2, <3>3 DEF Shape
  <2> QED BY <2>1
<1>7. handlers'[h] = rest /\ \A g \in Handlers : g # h => handlers'[g] = handlers[g]
  BY <1>1, <1>4
<1>8. SUFFICES ASSUME calm PROVE ReplayInv'
  BY DEF ReplayInv
<1>9. /\ indexing = "done" /\ \A g \in Handlers : handlers[g] # <<>> => g = h
      /\ Orderly(steps, log) /\ SameOn(Session, view', Replay(log))
      /\ Sound(log) /\ HoldsCards(rows, log) /\ (backend = "sqlite" => HoldsSessions(rows, log))
  BY <1>1, <1>3, <1>8 DEF ReplayInv, Busy
<1>10. ToShow(rest, view') = view'
  BY <1>6 DEF ToShow
<1>11. Orderly(rest, log)
  <2>1. Len(rest) <= 3 /\ Len(steps) <= 4
    BY <1>2, <1>5, <1>9 DEF Orderly
  <2>2. ASSUME NEW i \in 1..Len(rest), rest[i].op = "append"
        PROVE  /\ i < Len(rest) /\ ToldAs(rest[i].events, rest[i + 1].events)
               /\ i <= 2 => Sound(log \o rest[i].events)
               /\ i # 3
    <3>1. /\ i \in Nat /\ i + 1 \in 1..Len(steps) /\ i + 2 - 1 = i + 1 /\ i # 0
          /\ rest[i] = steps[i + 1]
      <4>1. rest[i] = steps[i + 2 - 1] /\ i + 2 - 1 \in 1..Len(steps)
        BY <1>5
      <4>2. i \in Nat /\ i # 0 /\ i + 2 - 1 = i + 1
        BY <1>2, <1>5
      <4> QED BY <4>1, <4>2
    <3>2. PICK j \in 1..Len(steps) : j = i + 1
      BY <3>1
    <3>3. j < Len(steps) /\ ToldAs(steps[j].events, steps[j + 1].events)
      BY <1>9, <2>2, <3>1, <3>2 DEF Orderly
    <3>4. i < Len(rest) /\ i # 3 /\ j \in 1..Len(rest) /\ j + 2 - 1 = j + 1
      BY <1>2, <1>5, <2>1, <3>1, <3>2, <3>3
    <3>5. rest[i + 1] = steps[j + 1]
      BY <1>5, <3>2, <3>4
    <3>6. i # 2
      <4>1. SUFFICES ASSUME i = 2 PROVE FALSE
        OBVIOUS
      <4>2. steps[3].op = "append" /\ 3 <= Len(steps)
        BY <2>2, <3>1, <3>2, <4>1
      <4>3. 2 \in 1..Len(steps) /\ 2 < Len(steps) /\ steps[2].op = "append"
        <5>1. 2 \in 1..Len(steps) /\ 2 < Len(steps) /\ 1 \in 1..Len(steps) /\ 1 < Len(steps)
          BY <1>2, <4>2
        <5> QED BY <1>3, <5>1 DEF Shape
      <4>4. steps[3].op = "apply"
        BY <1>3, <4>3 DEF Shape
      <4> QED BY <4>2, <4>4
    <3>7. ASSUME i <= 2 PROVE Sound(log \o rest[i].events)
      <4>1. i = 1 /\ j = 2
        BY <3>1, <3>2, <3>6, <3>7
      <4>2. Sound(log \o steps[2].events)
        BY <1>9, <2>2, <3>1, <3>2, <4>1 DEF Orderly
      <4> QED BY <3>1, <3>2, <4>1, <4>2
    <3> QED BY <3>1, <3>2, <3>3, <3>4, <3>5, <3>7
  <2> QED BY <1>2, <1>5, <2>1, <2>2 DEF Orderly
<1>12. \A g \in Handlers : handlers'[g] # <<>> => g = h
  BY <1>7, <1>9
<1>13. \A g \in Handlers : handlers'[g] # <<>> =>
         Orderly(handlers'[g], log') /\ SameOn(Session, ToShow(handlers'[g], view'), Replay(log'))
  BY <1>7, <1>9, <1>10, <1>11, <1>12
<1>14. /\ Sound(log') /\ HoldsCards(rows', log') /\ (backend' = "sqlite" => HoldsSessions(rows', log'))
       /\ SameOn(Session, view', Replay(log')) /\ indexing' = "done"
  BY <1>1, <1>9
<1> QED BY <1>12, <1>13, <1>14 DEF ReplayInv

(* An event that is stored and shown under the views' lock.                *)
LEMMA LockedOrderly ==
  ASSUME StoreInv, RowsInv, ReplayInv, NEW e \in Event, Locked(e),
         e.type \notin {"created", "forked", "handover", "card_created"},
         Column(e) \in NativeId => MadeIn(Column(e), log)
  PROVE  ReplayInv'
<1>1. /\ UNCHANGED <<handlers, indexing, backend>> /\ rows' = ProjectAll(rows, <<e>>)
      /\ log' = log \o <<e>> /\ view' = ApplyView(view, e)
      /\ calm' = (calm /\ ~Busy /\ indexing = "done")
      /\ view \in Views /\ log \in Seq(Event) /\ rows \in Rows
  BY DEF Locked, AppendBatch, StoreInv, StoreTypeOK, RowsInv
<1>2. SUFFICES ASSUME calm' PROVE ReplayInv'
  BY DEF ReplayInv
<1>3. calm /\ indexing = "done" /\ ~Busy
  BY <1>1, <1>2
<1>4. /\ Sound(log) /\ HoldsCards(rows, log) /\ (backend = "sqlite" => HoldsSessions(rows, log))
      /\ SameOn(Session, view, Replay(log))
  BY <1>3 DEF ReplayInv
<1>50. PICK E : E = <<e>>
  OBVIOUS
<1>5. E \in Seq(Event) /\ E = <<e>>
  BY <1>50
<1>6. Sound(log \o E)
  BY <1>1, <1>4, <1>5, QuietlyFollows, SoundGrows
<1>7. Sound(log') /\ HoldsCards(rows', log') /\ (backend' = "sqlite" => HoldsSessions(rows', log'))
  BY <1>1, <1>4, <1>5, <1>6, HoldsOn
<1>8. SameOn(Session, view', Replay(log'))
  <2>1. PICK w \in Views : w = Replay(log)
    BY <1>1, EmptyTyped, AllTyped DEF Replay
  <2>2. Replay(log') = ApplyView(w, e)
    <3>1. Replay(log') = ShowAll(w, E)
      BY <1>1, <1>5, <2>1, EmptyTyped, ShownInTurn DEF Replay
    <3> QED BY <1>1, <1>5, <3>1, OneProjected
  <2>3. Tells(e, e) /\ (Links(e) => e.parent \in Session)
    BY EventFields DEF Tells, Links, Fields
  <2>4. SameOn(Session, ApplyView(view, e), ApplyView(w, e))
    BY <1>1, <1>4, <2>1, <2>3, SameAfter
  <2> QED BY <1>1, <2>2, <2>4
<1>9. \A h \in Handlers : handlers'[h] = <<>>
  BY <1>1, <1>3 DEF Busy
<1>10. indexing' = "done"
  BY <1>1, <1>3
<1> QED BY <1>7, <1>8, <1>9, <1>10 DEF ReplayInv

(* The import adds sessions of others.                                     *)
LEMMA ImportsAre ==
  Imports \in Seq(Event)
    /\ \A n \in 1..Len(Imports) : Imports[n].type = "created" /\ Imports[n].session \in HermesId
<1> DEFINE all == SetToSeq(HermesId)
<1>1. all \in Seq(HermesId) /\ Len(all) \in Nat /\ DOMAIN all = 1..Len(all)
  <2>1. all \in Seq(HermesId)
    BY SetToSeqTyped DEF StoreAssumption
  <2> HIDE DEF all
  <2> QED BY <2>1
<1>2. Imports = [i \in 1..Len(all) |-> Created(all[i], "cli", TRUE)]
  BY <1>1 DEF Imports
<1> HIDE DEF all
<1>3. Imports \in Seq(Event)
  BY ImportsSuit
<1>4. \A i \in 1..Len(all) : /\ Imports[i].type = "created" /\ Imports[i].session = all[i]
                             /\ all[i] \in HermesId
  BY <1>1, <1>2 DEF Created
<1>5. Len(Imports) = Len(all)
  BY <1>1, <1>2, <1>3
<1> QED BY <1>3, <1>4, <1>5

LEMMA ImportsFollow ==
  ASSUME NEW q
  PROVE  Follows(Imports, q)
<1>1. ASSUME NEW n \in 1..Len(Imports)
      PROVE  /\ Imports[n].type = "created" /\ Imports[n].session \notin NativeId
             /\ Column(Imports[n]) \notin NativeId
  BY ImportsAre DEF Column, CardOnly, ProjectOnly
<1>2. ASSUME NEW n \in 1..Len(Imports)
      PROVE  Owns(Imports[n]) /\ \A f : ~Undoes(Imports[n], f)
  <2>1. /\ Imports[n].type = "created" /\ Imports[n].session \notin NativeId
    BY <1>1
  <2>2. ASSUME NEW f PROVE ~Undoes(Imports[n], f)
    BY <2>1 DEF Undoes
  <2> QED BY <2>1, <2>2 DEF Owns
<1> QED BY <1>1, <1>2 DEF Follows

LEMMA ImportsOrderly ==
  ASSUME StoreInv, RowsInv, ReplayInv, Import
  PROVE  ReplayInv'
<1>1. /\ UNCHANGED <<view, handlers, backend>> /\ indexing = "import"
      /\ calm' = (calm /\ ~Busy) /\ view \in Views /\ log \in Seq(Event) /\ rows \in Rows
  BY DEF Import, StoreInv, StoreTypeOK, RowsInv
<1>2. \/ log' = log \o Imports /\ rows' = ProjectAll(rows, Imports) /\ indexing' = "replay"
      \/ UNCHANGED <<log, rows>> /\ indexing' = "done"
  BY DEF Import, AppendBatch, Imports
<1>3. SUFFICES ASSUME calm' PROVE ReplayInv'
  BY DEF ReplayInv
<1>4. calm /\ ~Busy /\ \A h \in Handlers : handlers'[h] = <<>>
  BY <1>1, <1>3 DEF Busy
<1>5. /\ Sound(log) /\ HoldsCards(rows, log) /\ (backend = "sqlite" => HoldsSessions(rows, log))
      /\ SameOn(Session, view, Replay(log))
  BY <1>1, <1>4 DEF ReplayInv
<1>6. CASE UNCHANGED <<log, rows>> /\ indexing' = "done"
  <2>1. /\ Sound(log') /\ HoldsCards(rows', log')
        /\ (backend' = "sqlite" => HoldsSessions(rows', log'))
        /\ SameOn(Session, view', Replay(log'))
    BY <1>1, <1>5, <1>6
  <2> QED BY <1>4, <1>6, <2>1 DEF ReplayInv, Busy
<1>7. CASE log' = log \o Imports /\ rows' = ProjectAll(rows, Imports) /\ indexing' = "replay"
  <2>1. Imports \in Seq(Event) /\ Sound(log \o Imports)
    BY <1>1, <1>5, ImportsAre, ImportsFollow, SoundGrows
  <2>2. Sound(log') /\ HoldsCards(rows', log') /\ (backend' = "sqlite" => HoldsSessions(rows', log'))
    BY <1>1, <1>5, <1>7, <2>1, HoldsOn
  <2>3. PICK w \in Views : w = Replay(log)
    BY <1>1, EmptyTyped, AllTyped DEF Replay
  <2>4. Replay(log') = ShowAll(w, Imports)
    BY <1>1, <1>7, <2>1, <2>3, EmptyTyped, ShownInTurn DEF Replay
  <2>5. SameOn(NativeId, w, ShowAll(w, Imports))
    <3>1. \A n \in 1..Len(Imports) : Imports[n].type = "created" /\ Imports[n].session \notin NativeId
      BY ImportsAre
    <3> QED BY <2>1, <3>1, CreatedElsewhere
  <2>6. SameOn(NativeId, view, w)
    BY <1>5, <2>3 DEF SameOn, Session
  <2>7. SameOn(NativeId, view', Replay(log'))
    BY <1>1, <2>4, <2>5, <2>6, SameGoesOn
  <2>8. /\ (indexing \in {"import", "replay", "done"})' = TRUE /\ (indexing # "replay")' = FALSE
    BY <1>7
  <2> QED BY <1>4, <2>2, <2>7, <2>8 DEF ReplayInv, Busy
<1> QED BY <1>2, <1>6, <1>7

LEMMA ReindexOrderly ==
  ASSUME ReplayInv, Reindex
  PROVE  ReplayInv'
<1>1. /\ UNCHANGED <<log, rows, handlers, backend>> /\ indexing = "replay" /\ indexing' = "done"
      /\ view' = Replay(log) /\ calm' = (calm /\ ~Busy)
  BY DEF Reindex
<1>2. SUFFICES ASSUME calm' PROVE ReplayInv'
  BY DEF ReplayInv
<1>3. calm /\ \A h \in Handlers : handlers'[h] = <<>>
  BY <1>1, <1>2 DEF Busy
<1>4. /\ Sound(log') /\ HoldsCards(rows', log') /\ (backend' = "sqlite" => HoldsSessions(rows', log'))
  BY <1>1, <1>3 DEF ReplayInv
<1>5. SameOn(Session, view', Replay(log'))
  BY <1>1, SameGoesOn
<1> QED BY <1>1, <1>3, <1>4, <1>5 DEF ReplayInv

(***************************************************************************)
(* A boot.                                                                 *)
(***************************************************************************)
(* On SQLite it retains every event of Stellarc's own sessions.            *)
LEMMA OwnIsRetained ==
  ASSUME log \in Seq(Event), Sound(log), HoldsSessions(rows, log)
  PROVE  /\ \A i \in 1..Len(log) : Column(log[i]) \in NativeId => Column(log[i]) \in Native
         /\ \A i \in 1..Len(log) : Column(log[i]) \in (Native \cup {None}) \cup HermesId
<1>1. ASSUME NEW i \in 1..Len(log), Column(log[i]) \in NativeId
      PROVE  Column(log[i]) \in Native
  BY <1>1 DEF Sound, Rooted, HoldsSessions, Native, Session
<1>2. ASSUME NEW i \in 1..Len(log)
      PROVE  Column(log[i]) \in Session \cup {None}
  <2>1. PICK e \in Event : e = log[i]
    OBVIOUS
  <2>2. Fields(e)
    BY EventFields
  <2> QED BY <2>1, <2>2 DEF Fields, Column, SessionTypes, CardOnly, ProjectOnly
<1> QED BY <1>1, <1>2 DEF Session

LEMMA BootsOrderly ==
  ASSUME StoreInv, RowsInv, ReplayInv, Boot
  PROVE  ReplayInv'
<1>1. /\ view' = Replay(log') /\ indexing' = "import" /\ calm' = (calm /\ ~Busy)
      /\ backend' = backend /\ \A h \in Handlers : handlers'[h] = <<>>
      /\ log \in Seq(Event) /\ rows \in Rows
  BY DEF Boot, StoreInv, StoreTypeOK, RowsInv
<1>2. SUFFICES ASSUME calm' PROVE ReplayInv'
  BY DEF ReplayInv
<1>3. Sound(log) /\ HoldsCards(rows, log) /\ (backend = "sqlite" => HoldsSessions(rows, log))
  BY <1>1, <1>2 DEF ReplayInv
<1>4. SameOn(Session, view', Replay(log'))
  BY <1>1, SameGoesOn
<1>5. CASE backend = "sqlite"
  <2> DEFINE C == Native \cup {None}
  <2>1. /\ log' = Retained(log, C)
        /\ rows' = [rows EXCEPT !.messages = {m \in @ : m[1] \in Native},
             !.sessions = [s \in Session |-> IF Managed(@[s]) THEN @[s] ELSE NoSession]]
    BY <1>5 DEF Boot, RetainSqlite
  <2>2. /\ rows'.cards = rows.cards
        /\ rows'.sessions = [s \in Session |-> IF Managed(rows.sessions[s]) THEN rows.sessions[s]
                                               ELSE NoSession]
    BY <1>1, <2>1 DEF Rows
  <2>3. \A i \in 1..Len(log) : Column(log[i]) \in NativeId => Column(log[i]) \in C
    BY <1>1, <1>3, <1>5, OwnIsRetained
  <2> HIDE DEF C
  <2>4. Sound(log') /\ \A i \in 1..Len(log') : \E j \in 1..Len(log) : log'[i] = log[j]
    BY <1>1, <1>3, <2>1, <2>3, SoundRetained
  <2>5. HoldsCards(rows', log')
    BY <1>3, <2>2, <2>4 DEF HoldsCards
  <2>6. HoldsSessions(rows', log')
    <3>1. ASSUME NEW s \in NativeId, MadeIn(s, log')
          PROVE  Managed(rows'.sessions[s])
      <4>1. MadeIn(s, log)
        BY <2>4, <3>1 DEF MadeIn
      <4>2. Managed(rows.sessions[s]) /\ s \in Session
        BY <1>3, <1>5, <4>1 DEF HoldsSessions, Session
      <4> QED BY <2>2, <4>2
    <3> QED BY <3>1 DEF HoldsSessions
  <2> QED BY <1>1, <1>4, <2>4, <2>5, <2>6 DEF ReplayInv, Busy
<1>6. CASE backend # "sqlite"
  <2>1. log' = log /\ rows'.cards = rows.cards
    <3>1. /\ log' = log
          /\ rows' = [rows EXCEPT !.messages = {m \in @ : ~Known(rows.sessions, m[1])},
                                  !.sessions = Empty.sessions]
      BY <1>6 DEF Boot, RetainPostgres
    <3> QED BY <1>1, <3>1 DEF Rows
  <2>2. Sound(log') /\ HoldsCards(rows', log') /\ backend' # "sqlite"
    BY <1>1, <1>3, <1>6, <2>1 DEF HoldsCards
  <2> QED BY <1>1, <1>4, <2>2 DEF ReplayInv, Busy
<1> QED BY <1>5, <1>6

(* ... and shows what was shown.                                           *)
LEMMA BootShowsTheSame ==
  ASSUME StoreInv, RowsInv, ReplayInv, Boot, calm, ~Busy, Domestic
  PROVE  SameOn(NativeId, view', view)
<1>1. /\ view' = Replay(log') /\ log \in Seq(Event) /\ Sound(log)
      /\ backend = "sqlite" => HoldsSessions(rows, log)
  BY DEF Boot, StoreInv, StoreTypeOK, ReplayInv
<1>2. SameOn(NativeId, view, Replay(log))
  <2>1. SameOn(Session, view, Replay(log)) => SameOn(NativeId, view, Replay(log))
    BY DEF SameOn, Session
  <2> QED BY <2>1 DEF ReplayInv
<1>3. CASE backend = "sqlite"
  <2> DEFINE C == Native \cup {None}
  <2>1. log' = Retained(log, C)
    BY <1>3 DEF Boot, RetainSqlite
  <2>2. None \in C /\ \A i \in 1..Len(log) : Column(log[i]) \in C \cup HermesId
    BY <1>1, <1>3, OwnIsRetained
  <2>3. DomesticIn(Replay(log))
    <3>1. /\ \A s \in NativeId : Replay(log).sessions[s].parent = view.sessions[s].parent
          /\ Replay(log).cards = view.cards
      BY <1>2 DEF SameOn, Twin, Alike
    <3> QED BY <3>1 DEF Domestic, DomesticIn
  <2> HIDE DEF C
  <2>4. SameOn(NativeId, Replay(log), Replay(log'))
    BY <1>1, <2>1, <2>2, <2>3, RetainedShown DEF Sound
  <2> QED BY <1>1, <1>2, <2>4, SameGoesOn
<1>4. CASE backend # "sqlite"
  <2>1. log' = log
    BY <1>4 DEF Boot, RetainPostgres
  <2> QED BY <1>1, <1>2, <2>1, SameGoesOn
<1> QED BY <1>3, <1>4

LEMMA TwinIsUntitled ==
  ASSUME NEW r \in SessionRow, NEW v \in SessionRow, Twin(r, v)
  PROVE  Untitled(r) = Untitled(v)
<1>1. PICK x, y : x = Untitled(v) /\ y = Untitled(r)
  OBVIOUS
<1>2. PICK A, B, C, D, F, G :
        /\ A = {None, "stellarc", "cli"} /\ B = Session \cup {None} /\ C = Card \cup {None}
        /\ D = Project \cup {None} /\ F = [Project -> {None, "read", "write"}] /\ G = Nat
  OBVIOUS
<1>3. SessionRow = [source : A, titled : BOOLEAN, archived : BOOLEAN, parent : B, card : C,
                    project : D, context : F, count : G]
  BY <1>2 DEF SessionRow
<1>4. x = [source |-> v.source, titled |-> FALSE, archived |-> v.archived, parent |-> v.parent,
           card |-> v.card, project |-> v.project, context |-> v.context, count |-> v.count]
  BY <1>1, <1>3 DEF Untitled
<1>5. y = [source |-> r.source, titled |-> FALSE, archived |-> r.archived, parent |-> r.parent,
           card |-> r.card, project |-> r.project, context |-> r.context, count |-> r.count]
  BY <1>1, <1>3 DEF Untitled
<1>6. x = y
  BY <1>4, <1>5 DEF Alike, Twin
<1> QED BY <1>1, <1>6

LEMMA BootChangesNothing ==
  ASSUME StoreInv, StoreInv', RowsInv, ReplayInv, Boot
  PROVE  ChangesNothing
<1>1. SUFFICES ASSUME calm, ~Busy, Domestic
               PROVE  /\ \A s \in NativeId : Untitled(view'.sessions[s]) = Untitled(view.sessions[s])
                      /\ \A s \in NativeId : view'.hot[s] = view.hot[s]
                      /\ view'.cards = view.cards /\ view'.projects = view.projects
  BY DEF ChangesNothing
<1>2. SameOn(NativeId, view', view)
  BY <1>1, BootShowsTheSame
<1>3. \A s \in NativeId : view'.sessions[s] \in SessionRow /\ view.sessions[s] \in SessionRow
  BY DEF StoreInv, StoreTypeOK, Views, Session
<1>4. \A s \in NativeId : Untitled(view'.sessions[s]) = Untitled(view.sessions[s])
  BY <1>2, <1>3, TwinIsUntitled DEF SameOn
<1> QED BY <1>2, <1>4 DEF SameOn

(***************************************************************************)
(* What handlers store.                                                    *)
(***************************************************************************)
LEMMA OrderlyTwo ==
  ASSUME NEW q, NEW E, NEW F, NEW d, Sound(q \o E), ToldAs(E, F)
  PROVE  Orderly(<<Store(E, d), Show(F)>>, q)
<1> DEFINE a == Store(E, d)
           b == Show(F)
           steps == <<a, b>>
<1>1. a.op = "append" /\ a.events = E /\ b.op # "append" /\ b.events = F
  BY DEF Store, Show
<1> HIDE DEF a, b
<1>2. Len(steps) = 2 /\ steps[1] = a /\ steps[2] = b
  OBVIOUS
<1> HIDE DEF steps
<1>3. Orderly(steps, q)
  <2>1. \A i \in 1..Len(steps) : i = 1 \/ i = 2
    BY <1>2
  <2> QED BY <1>1, <1>2, <2>1 DEF Orderly
<1> QED BY <1>3 DEF steps, a, b

LEMMA OrderlyFour ==
  ASSUME NEW q, NEW E, NEW F, NEW G, NEW d, Sound(q \o E), ToldAs(E, F), Sound((q \o E) \o G)
  PROVE  Orderly(<<Store(E, d), Show(F), Store(G, 0), Show(G)>>, q)
<1> DEFINE a == Store(E, d)
           b == Show(F)
           c == Store(G, 0)
           g == Show(G)
           steps == <<a, b, c, g>>
<1>1. /\ a.op = "append" /\ a.events = E /\ b.op # "append" /\ b.events = F
      /\ c.op = "append" /\ c.events = G /\ g.op # "append" /\ g.events = G
  BY DEF Store, Show
<1> HIDE DEF a, b, c, g
<1>2. Len(steps) = 4 /\ steps[1] = a /\ steps[2] = b /\ steps[3] = c /\ steps[4] = g
  OBVIOUS
<1> HIDE DEF steps
<1>3. ToldAs(G, G)
  BY ToldAsItself
<1>4. Orderly(steps, q)
  <2>1. \A i \in 1..Len(steps) : i = 1 \/ i = 2 \/ i = 3 \/ i = 4
    BY <1>2
  <2>2. ASSUME NEW i \in 1..Len(steps), steps[i].op = "append"
        PROVE  /\ i < Len(steps) /\ ToldAs(steps[i].events, steps[i + 1].events)
               /\ i <= 2 => Sound(q \o steps[i].events)
               /\ i = 3 /\ steps[1].op = "append" =>
                    Sound((q \o steps[1].events) \o steps[3].events)
    <3>1. CASE i = 1
      BY <1>1, <1>2, <3>1
    <3>2. CASE i = 3
      BY <1>1, <1>2, <1>3, <3>2
    <3> QED BY <1>1, <1>2, <2>1, <2>2, <3>1, <3>2
  <2> QED BY <1>2, <2>2 DEF Orderly
<1> QED BY <1>4 DEF steps, a, b, c, g

LEMMA ShownOrderly ==
  ASSUME NEW q \in Seq(Event), Sound(q), NEW e \in Event, Follows(<<e>>, q)
  PROVE  Orderly(Shown(e), q)
<1>1. PICK E : E = <<e>>
  OBVIOUS
<1>2. E \in Seq(Event)
  BY <1>1
<1>3. Sound(q \o E) /\ ToldAs(E, E)
  BY <1>1, <1>2, SoundGrows, ToldAsItself
<1>4. Orderly(<<Store(E, 1), Show(E)>>, q)
  BY <1>3, OrderlyTwo
<1> QED BY <1>1, <1>4 DEF Shown

LEMMA TwiceOrderly ==
  ASSUME NEW q \in Seq(Event), Sound(q), NEW e \in Event, NEW g \in Event,
         e.type \notin {"created", "forked", "handover", "card_created"},
         g.type \notin {"created", "forked", "handover", "card_created"},
         Column(e) \in NativeId => MadeIn(Column(e), q),
         Column(g) \in NativeId => MadeIn(Column(g), q)
  PROVE  Orderly(Shown(e) \o <<Store(<<g>>, 0), Show(<<g>>)>>, q)
<1>1. PICK E, G : E = <<e>> /\ G = <<g>>
  OBVIOUS
<1>2. E \in Seq(Event) /\ G \in Seq(Event)
  BY <1>1
<1>3. PICK p : p = q \o E
  OBVIOUS
<1>4. p \in Seq(Event) /\ Grows(p, q, E)
  BY <1>2, <1>3, AppendGrows DEF Grows
<1>5. Sound(p)
  BY <1>1, <1>2, <1>3, QuietlyFollows, SoundGrows
<1>6. Column(g) \in NativeId => MadeIn(Column(g), p)
  BY <1>4, MadeGrows
<1>7. Sound(p \o G)
  BY <1>1, <1>2, <1>4, <1>5, <1>6, QuietlyFollows, SoundGrows
<1>8. ToldAs(E, E)
  BY ToldAsItself
<1>9. Orderly(<<Store(E, 1), Show(E), Store(G, 0), Show(G)>>, q)
  BY <1>3, <1>5, <1>7, <1>8, OrderlyFour
<1>10. Orderly(<<Store(<<e>>, 1), Show(<<e>>), Store(<<g>>, 0), Show(<<g>>)>>, q)
  BY <1>1, <1>9
<1> QED BY <1>10, FourInTwo DEF Shown

(* A session that is new has no events.                                    *)
LEMMA NewFollows ==
  ASSUME NEW q, Sound(q), NEW s \in NativeId, ~MadeIn(s, q), NEW titled
  PROVE  Follows(<<Created(s, "stellarc", titled)>>, q)
<1>1. PICK e : e = Created(s, "stellarc", titled)
  OBVIOUS
<1>2. /\ e.type = "created" /\ e.session = s /\ e.source = "stellarc" /\ Column(e) = s
  BY <1>1 DEF Created, Column, CardOnly, ProjectOnly
<1>3. \A i \in 1..Len(q) : ~Undoes(e, q[i])
  <2>1. ASSUME NEW i \in 1..Len(q), Undoes(e, q[i]) PROVE FALSE
    <3>1. \/ Links(q[i]) /\ q[i].session = s
          \/ q[i].type = "card_created" /\ e = q[i]
      BY <1>2, <2>1 DEF Undoes
    <3> QED BY <1>2, <3>1, NotLinkedYet
  <2> QED BY <2>1
<1> QED BY <1>1, <1>2, <1>3, OneFollows DEF Owns, Creates

LEMMA ForkOrderly ==
  ASSUME NEW q \in Seq(Event), Sound(q), NEW s \in NativeId, ~MadeIn(s, q), NEW o \in Session
  PROVE  Orderly(ForkSteps(s, o), q)
<1> DEFINE e == Created(s, "stellarc", FALSE)
           f == Created(s, "stellarc", TRUE)
           g == Forked(s, o)
<1>1. /\ e \in Event /\ g \in Event /\ Tells(e, f)
      /\ e.type = "created" /\ e.session = s
      /\ g.type = "forked" /\ g.session = s /\ Column(g) = s
  <2>1. e \in Event /\ g \in Event
    BY EventsTyped DEF Session
  <2>2. /\ Tells(e, f) /\ e.type = "created" /\ e.session = s
        /\ g.type = "forked" /\ g.session = s /\ Column(g) = s
    BY DEF Tells, Created, Forked, Column, CardOnly, ProjectOnly
  <2> QED BY <2>1, <2>2
<1>2. Follows(<<e>>, q)
  BY NewFollows
<1> HIDE DEF e, f, g
<1>3. PICK E, F, G : E = <<e>> /\ F = <<f>> /\ G = <<g>>
  OBVIOUS
<1>4. E \in Seq(Event) /\ G \in Seq(Event) /\ Len(E) = 1 /\ E[1] = e /\ Len(F) = 1 /\ F[1] = f
  BY <1>1, <1>3
<1>5. ToldAs(E, F)
  BY <1>1, <1>4 DEF ToldAs
<1>6. PICK p : p = q \o E
  OBVIOUS
<1>7. p \in Seq(Event) /\ Grows(p, q, E) /\ Sound(p)
  <2>0. E \in Seq(Event)
    BY <1>4
  <2>1. p \in Seq(Event) /\ Grows(p, q, E)
    BY <1>6, <2>0, AppendGrows DEF Grows
  <2> QED BY <1>2, <1>3, <1>4, <1>6, <2>1, SoundGrows
<1>8. MadeIn(s, p)
  <2>1. MadeIn(s, E)
    BY <1>1, <1>4 DEF MadeIn, Creates
  <2> QED BY <1>7, <2>1, MadeGrows
<1>9. \A i \in 1..Len(p) : ~(Links(p[i]) /\ p[i].session = s)
  <2>1. ASSUME NEW i \in 1..Len(p), Links(p[i]), p[i].session = s PROVE FALSE
    <3>1. CASE i \in 1..Len(q)
      <4>1. p[i] = q[i]
        BY <1>7, <3>1 DEF Grows
      <4> QED BY <2>1, <3>1, <4>1, NotLinkedYet
    <3>2. CASE i \notin 1..Len(q)
      <4>1. p[i] = e
        BY <1>4, <1>7, <3>2 DEF Grows
      <4> QED BY <1>1, <2>1, <4>1 DEF Links
    <3> QED BY <3>1, <3>2
  <2> QED BY <2>1
<1>10. Follows(<<g>>, p)
  <2>1. \A i \in 1..Len(p) : ~Undoes(g, p[i])
    <3>1. ASSUME NEW i \in 1..Len(p), Undoes(g, p[i]) PROVE FALSE
      <4>1. \/ Links(p[i]) /\ p[i].session = s
            \/ p[i].type = "card_created" /\ g = p[i]
        BY <1>1, <3>1 DEF Undoes
      <4> QED BY <1>1, <1>9, <4>1
    <3> QED BY <3>1
  <2> QED BY <1>1, <1>8, <2>1, OneFollows DEF Owns
<1>11. Sound(p \o G)
  BY <1>3, <1>4, <1>7, <1>10, SoundGrows
<1>12. Orderly(<<Store(E, 3), Show(F), Store(G, 0), Show(G)>>, q)
  BY <1>5, <1>6, <1>7, <1>11, OrderlyFour
<1> QED BY <1>3, <1>12 DEF ForkSteps, e, f, g

(* The batch of a handover.                                                *)
LEMMA HandoverBatch ==
  ASSUME NEW s \in Session, NEW from \in Session, NEW titled, NEW N \in Nat
  PROVE  LET copies == [i \in 1..N |-> Message(s, i - 1, "axis")]
             batch == <<Created(s, "stellarc", titled)>> \o copies
                      \o <<HandedOver(s, from), Archived(from)>>
         IN  /\ Len(batch) = N + 3
             /\ batch[1] = Created(s, "stellarc", titled)
             /\ \A i \in 2..(N + 1) : batch[i].type = "message" /\ batch[i].session = s
             /\ batch[N + 2] = HandedOver(s, from) /\ batch[N + 3] = Archived(from)
<1> DEFINE copies == [i \in 1..N |-> Message(s, i - 1, "axis")]
           a == Created(s, "stellarc", titled)
           b == HandedOver(s, from)
           c == Archived(from)
           batch == <<a>> \o copies \o <<b, c>>
<1>2. \A i \in 1..N : copies[i].type = "message" /\ copies[i].session = s
  BY DEF Message
<1>3. PICK S : a \in S /\ b \in S /\ c \in S /\ \A i \in 1..N : copies[i] \in S
  <2> DEFINE S == {a, b, c} \cup {copies[i] : i \in 1..N}
  <2>1. a \in S /\ b \in S /\ c \in S /\ \A i \in 1..N : copies[i] \in S
    OBVIOUS
  <2> HIDE DEF S
  <2> QED BY <2>1
<1>4. copies \in [1..N -> S]
  <2>1. copies = [i \in 1..N |-> copies[i]]
    OBVIOUS
  <2> HIDE DEF copies
  <2> QED BY <1>3, <2>1
<1> HIDE DEF a, b, c, copies
<1>5. copies \in Seq(S) /\ Len(copies) = N
  <2>1. \A q \in [1..N -> S] : q \in Seq(S) /\ Len(q) = N
    OBVIOUS
  <2> QED BY <1>4, <2>1
<1>6. <<a>> \in Seq(S) /\ Len(<<a>>) = 1 /\ <<a>>[1] = a
  BY <1>3
<1>7. <<b, c>> \in Seq(S) /\ Len(<<b, c>>) = 2 /\ <<b, c>>[1] = b /\ <<b, c>>[2] = c
  BY <1>3
<1>8. PICK p, q : p = <<a>> \o copies /\ q = <<b, c>>
  OBVIOUS
<1>9. /\ p \in Seq(S) /\ Len(p) = N + 1 /\ p[1] = a
      /\ \A i \in 1..N : p[1 + i] = copies[i]
  <2>1. PICK x : x = <<a>>
    OBVIOUS
  <2>2. x \in Seq(S) /\ Len(x) = 1 /\ x[1] = a /\ p = x \o copies /\ 1 \in Nat /\ 1 \in 1..1
    BY <1>6, <1>8, <2>1
  <2>3. /\ x \o copies \in Seq(S) /\ Len(x \o copies) = 1 + N
        /\ \A i \in 1..1 : (x \o copies)[i] = x[i]
        /\ \A k \in 1..N : (x \o copies)[1 + k] = copies[k]
    <3>1. /\ x \o copies \in Seq(S) /\ Len(x \o copies) = Len(x) + Len(copies)
          /\ \A i \in 1..Len(x) : (x \o copies)[i] = x[i]
          /\ \A i \in 1..Len(copies) : (x \o copies)[Len(x) + i] = copies[i]
      <4>1. x \in Seq(S)
        BY <2>2
      <4>2. copies \in Seq(S)
        BY <1>5
      <4> QED BY <4>1, <4>2
    <3> QED BY <1>5, <2>2, <3>1
  <2>4. 1 + N = N + 1
    OBVIOUS
  <2> QED BY <2>2, <2>3, <2>4
<1>10. /\ Len(batch) = N + 3 /\ batch[1] = a
       /\ \A i \in 1..N : batch[1 + i] = copies[i]
       /\ batch[N + 2] = b /\ batch[N + 3] = c
  <2>1. q \in Seq(S) /\ Len(q) = 2 /\ q[1] = b /\ q[2] = c /\ batch = p \o q
    BY <1>7, <1>8
  <2> HIDE DEF batch
  <2>2. /\ Len(batch) = N + 1 + 2
        /\ \A i \in 1..(N + 1) : batch[i] = p[i]
        /\ \A i \in 1..2 : batch[N + 1 + i] = q[i]
    <3>1. N + 1 \in Nat /\ 2 \in Nat
      OBVIOUS
    <3>2. /\ Len(p \o q) = N + 1 + 2
          /\ \A i \in 1..(N + 1) : (p \o q)[i] = p[i]
          /\ \A i \in 1..2 : (p \o q)[N + 1 + i] = q[i]
      <4>1. /\ Len(p \o q) = Len(p) + Len(q)
            /\ \A i \in 1..Len(p) : (p \o q)[i] = p[i]
            /\ \A i \in 1..Len(q) : (p \o q)[Len(p) + i] = q[i]
        <5>1. p \in Seq(S)
          BY <1>9
        <5>2. q \in Seq(S)
          BY <2>1
        <5> QED BY <5>1, <5>2
      <4> QED BY <1>9, <2>1, <3>1, <4>1
    <3> QED BY <2>1, <3>2
  <2>3. /\ 1 \in 1..(N + 1) /\ \A i \in 1..N : 1 + i \in 1..(N + 1)
        /\ 1 \in 1..2 /\ 2 \in 1..2 /\ N + 1 + 1 = N + 2 /\ N + 1 + 2 = N + 3
    OBVIOUS
  <2> QED BY <1>9, <2>1, <2>2, <2>3
<1> HIDE DEF batch
<1>11. \A i \in 2..(N + 1) : batch[i].type = "message" /\ batch[i].session = s
  <2>1. ASSUME NEW i \in 2..(N + 1) PROVE batch[i].type = "message" /\ batch[i].session = s
    <3>1. i - 1 \in 1..N /\ 1 + (i - 1) = i
      OBVIOUS
    <3>2. batch[i] = copies[i - 1]
      BY <1>10, <3>1
    <3> QED BY <1>2, <3>1, <3>2
  <2> QED BY <2>1
<1> QED BY <1>10, <1>11 DEF batch, a, b, c, copies

LEMMA HandoverFollows ==
  ASSUME NEW q, Sound(q), NEW s \in NativeId, ~MadeIn(s, q), NEW from \in Session,
         from \in NativeId => MadeIn(from, q), NEW N \in Nat, NEW B,
         Len(B) = N + 3, B[1].type = "created", B[1].session = s, B[1].source = "stellarc",
         \A i \in 2..(N + 1) : B[i].type = "message" /\ B[i].session = s,
         B[N + 2].type = "handover", B[N + 2].session = s,
         B[N + 3].type = "archived", B[N + 3].session = from
  PROVE  Follows(B, q)
<1>1. MadeIn(s, B)
  BY DEF MadeIn, Creates
<1>2. ASSUME NEW n \in 1..Len(B)
      PROVE  n = 1 \/ n \in 2..(N + 1) \/ n = N + 2 \/ n = N + 3
  OBVIOUS
<1>3. ASSUME NEW n \in 1..Len(B)
      PROVE  /\ B[n].type = "created" => n = 1
             /\ B[n].type \in {"created", "message", "handover", "archived"}
             /\ B[n].type = "handover" => n = N + 2 /\ B[n].session = s
             /\ B[n].type # "archived" => B[n].session = s
             /\ B[n].type = "archived" => B[n].session = from
  <2>1. CASE n = 1
    BY <2>1
  <2>2. CASE n \in 2..(N + 1)
    BY <2>2
  <2>3. CASE n = N + 2
    BY <2>3
  <2>4. CASE n = N + 3
    BY <2>4
  <2> QED BY <1>2, <2>1, <2>2, <2>3, <2>4
<1>4. ASSUME NEW n \in 1..Len(B)
      PROVE  /\ Owns(B[n])
             /\ Column(B[n]) \in NativeId => MadeIn(Column(B[n]), q) \/ MadeIn(Column(B[n]), B)
  <2>1. Owns(B[n])
    BY <1>3 DEF Owns
  <2>2. PICK c : c = Column(B[n])
    OBVIOUS
  <2>3. c = B[n].session
    BY <1>3, <2>2 DEF Column, CardOnly, ProjectOnly
  <2>4. c = s \/ c = from
    BY <1>3, <2>3
  <2>5. c \in NativeId => MadeIn(c, q) \/ MadeIn(c, B)
    BY <1>1, <2>4
  <2> QED BY <2>1, <2>2, <2>5
<1>5. ASSUME NEW n \in 1..Len(B), NEW e, Undoes(B[n], e)
      PROVE  Links(e) /\ e.session = s
  <2>1. B[n].type # "card_created"
    BY <1>3
  <2>2. Links(e) /\ B[n].session = e.session /\ B[n].type \in {"created", "forked", "handover"}
    BY <1>5, <2>1 DEF Undoes
  <2> QED BY <1>3, <2>2
<1>6. ASSUME NEW n \in 1..Len(B), NEW i \in 1..Len(q), Undoes(B[n], q[i])
      PROVE  FALSE
  BY <1>5, <1>6, NotLinkedYet
<1>7. ASSUME NEW m \in 1..Len(B), NEW n \in 1..Len(B), m < n, Undoes(B[n], B[m])
      PROVE  FALSE
  <2>1. B[m].type = "handover"
    BY <1>3, <1>5, <1>7 DEF Links
  <2>2. B[n].type \in {"created", "forked", "handover"}
    <3>1. B[n].type # "card_created"
      BY <1>3
    <3> QED BY <1>7, <3>1 DEF Undoes
  <2>3. m = N + 2 /\ (n = 1 \/ n = N + 2)
    BY <1>3, <2>1, <2>2
  <2> QED BY <1>7, <2>3
<1> QED BY <1>4, <1>6, <1>7 DEF Follows

LEMMA HandoverOrderly ==
  ASSUME NEW q \in Seq(Event), Sound(q), NEW s \in NativeId, ~MadeIn(s, q),
         NEW from \in Session, from \in NativeId => MadeIn(from, q), NEW titled, NEW N \in Nat
  PROVE  LET copies == [i \in 1..N |-> Message(s, i - 1, "axis")]
             batch == <<Created(s, "stellarc", titled)>> \o copies
                      \o <<HandedOver(s, from), Archived(from)>>
         IN  batch \in Seq(Event) => Orderly(<<Store(batch, 1), Show(batch)>>, q)
<1> DEFINE copies == [i \in 1..N |-> Message(s, i - 1, "axis")]
           batch == <<Created(s, "stellarc", titled)>> \o copies
                      \o <<HandedOver(s, from), Archived(from)>>
<1>1. PICK B : B = batch
  OBVIOUS
<1>2. /\ Len(B) = N + 3 /\ B[1] = Created(s, "stellarc", titled)
      /\ \A i \in 2..(N + 1) : B[i].type = "message" /\ B[i].session = s
      /\ B[N + 2] = HandedOver(s, from) /\ B[N + 3] = Archived(from)
  <2>1. s \in Session
    BY DEF Session
  <2> QED BY <1>1, <2>1, HandoverBatch
<1>3. /\ B[1].type = "created" /\ B[1].session = s /\ B[1].source = "stellarc"
      /\ B[N + 2].type = "handover" /\ B[N + 2].session = s
      /\ B[N + 3].type = "archived" /\ B[N + 3].session = from
  BY <1>2 DEF Created, HandedOver, Archived
<1>4. Follows(B, q)
  BY <1>2, <1>3, HandoverFollows
<1>5. SUFFICES ASSUME B \in Seq(Event) PROVE Orderly(<<Store(B, 1), Show(B)>>, q)
  BY <1>1
<1> QED BY <1>4, <1>5, SoundGrows, ToldAsItself, OrderlyTwo

(* What each handler is to store may follow the log that it finds.         *)
LEMMA HandlersOrderly ==
  ASSUME StoreInv,
         \/ CreateSession \/ PostMessage \/ ArchiveSession \/ CreateSubsession \/ HandoverSession
         \/ CompleteSession \/ CardHandler \/ AssignCard \/ ReassignCard \/ CreateProject
  PROVE  \E steps : /\ Begins(steps) /\ Begin(steps)
                    /\ Sound(log) /\ HoldsCards(rows, log) => Orderly(steps, log)
<1> DEFINE Kinds == {"created", "forked", "handover", "card_created"}
           Good == \E steps : /\ Begins(steps) /\ Begin(steps)
                              /\ Sound(log) /\ HoldsCards(rows, log) => Orderly(steps, log)
<1>0. view \in Views /\ log \in Seq(Event)
  BY DEF StoreInv, StoreTypeOK
<1>1. ASSUME NEW s \in Session
      PROVE  /\ Unused(s) => s \in NativeId /\ ~MadeIn(s, log)
             /\ Known(view.sessions, s) => MadeIn(s, log)
  <2>1. DOMAIN log = 1..Len(log)
    BY <1>0
  <2>2. Known(view.sessions, s) => \E i \in DOMAIN log : Creates(log[i], s)
    BY DEF StoreInv, ShownIsStored, ShownIsIn
  <2> QED BY <2>1, <2>2 DEF Unused, MadeIn
<1>2. ASSUME NEW e \in Event, Plain(e), Begin(Shown(e)),
             Sound(log) /\ HoldsCards(rows, log) => Follows(<<e>>, log)
      PROVE  Good
  BY <1>0, <1>2, ShownBegins, ShownOrderly
<1>3. ASSUME NEW e \in Event, Plain(e), Begin(Shown(e)), e.type \notin Kinds,
             Column(e) \in NativeId => MadeIn(Column(e), log)
      PROVE  Good
  BY <1>2, <1>3, QuietlyFollows
<1>4. ASSUME NEW e \in Event, Plain(e), e.type \notin Kinds,
             Column(e) \in NativeId => MadeIn(Column(e), log),
             NEW g \in Event, Plain(g), g.type \notin ShownTypes, g.type \notin Kinds,
             Column(g) \in NativeId => MadeIn(Column(g), log),
             Begin(Shown(e) \o <<Store(<<g>>, 0), Show(<<g>>)>>)
      PROVE  Good
  BY <1>0, <1>4, TwiceBegins, TwiceOrderly
<1> SUFFICES Good
  OBVIOUS
<1> HIDE DEF Good
<1>5. ASSUME NEW s \in Session, Known(view.sessions, s)
      PROVE  LET m == Message(s, NextId(s), "axis")
             IN  m \in Event /\ Plain(m) /\ m.type \notin Kinds /\ MadeIn(Column(m), log)
  <2>1. NextId(s) \in Int /\ "axis" \in {"axis", "orbit"}
    BY <1>0, NextIdTyped
  <2>2. PICK m : m = Message(s, NextId(s), "axis")
    OBVIOUS
  <2>3. m \in Event /\ Plain(m)
    BY <2>1, <2>2, EventsTyped, PlainEvents
  <2>4. m.type = "message" /\ Column(m) = s
    BY <2>2 DEF Message, Column, CardOnly, ProjectOnly
  <2>5. MadeIn(s, log)
    BY <1>1, <1>5
  <2> QED BY <2>2, <2>3, <2>4, <2>5
<1>6. ASSUME NEW s \in Session, Known(view.sessions, s)
      PROVE  LET a == Archived(s)
             IN  /\ a \in Event /\ Plain(a) /\ a.type \notin ShownTypes /\ a.type \notin Kinds
                 /\ MadeIn(Column(a), log)
  <2>1. PICK a : a = Archived(s)
    OBVIOUS
  <2>2. a \in Event /\ Plain(a) /\ a.type \notin ShownTypes
    BY <2>1, EventsTyped, PlainEvents
  <2>3. a.type = "archived" /\ Column(a) = s
    BY <2>1 DEF Archived, Column, CardOnly, ProjectOnly
  <2>4. MadeIn(s, log)
    BY <1>1, <1>6
  <2> QED BY <2>1, <2>2, <2>3, <2>4
<1>7. CASE CreateSession
  <2>1. PICK s \in Session : Unused(s) /\ Begin(Shown(Created(s, "stellarc", FALSE)))
    BY <1>7 DEF CreateSession
  <2>2. PICK e : e = Created(s, "stellarc", FALSE)
    OBVIOUS
  <2>3. "stellarc" \in {"stellarc", "cli"} /\ FALSE \in BOOLEAN
    OBVIOUS
  <2>4. e \in Event /\ Plain(e)
    BY <2>2, <2>3, EventsTyped, PlainEvents
  <2>5. Sound(log) => Follows(<<e>>, log)
    BY <1>1, <2>1, <2>2, NewFollows
  <2> QED BY <1>2, <2>1, <2>2, <2>4, <2>5
<1>8. CASE PostMessage
  <2>1. PICK s \in Session :
          Managed(view.sessions[s]) /\ Begin(Shown(Message(s, NextId(s), "axis")))
    BY <1>8 DEF PostMessage, PostSteps
  <2>2. Known(view.sessions, s)
    BY <2>1 DEF Managed, Known, None
  <2> QED BY <1>3, <1>5, <2>1, <2>2
<1>9. CASE ArchiveSession
  <2>1. PICK s \in Session : Known(view.sessions, s) /\ Begin(Shown(Archived(s)))
    BY <1>9 DEF ArchiveSession
  <2> QED BY <1>3, <1>6, <2>1
<1>10. CASE CreateSubsession
  <2>1. PICK s \in Session, parent \in Session : Unused(s) /\ Begin(ForkSteps(s, parent))
    BY <1>10 DEF CreateSubsession
  <2>2. Sound(log) => Orderly(ForkSteps(s, parent), log)
    BY <1>0, <1>1, <2>1, ForkOrderly
  <2> QED BY <2>1, <2>2, ForkBegins DEF Good
<1>11. CASE HandoverSession
  <2>1. PICK s \in Session, from \in Session :
          /\ Unused(s) /\ Known(view.sessions, from)
          /\ LET copies == [i \in DOMAIN view.hot[from] |-> Message(s, i - 1, "axis")]
                 batch == <<Created(s, "stellarc", view.sessions[from].titled)>> \o copies
                          \o <<HandedOver(s, from), Archived(from)>>
             IN  Begin(<<Store(batch, 1), Show(batch)>>)
    BY <1>11 DEF HandoverSession
  <2>2. PICK N \in Nat : DOMAIN view.hot[from] = 1..N
    <3>1. view.hot[from] \in Seq(Int)
      BY <1>0 DEF Views, Hot
    <3>2. Len(view.hot[from]) \in Nat /\ DOMAIN view.hot[from] = 1..Len(view.hot[from])
      BY <3>1
    <3> QED BY <3>2
  <2> DEFINE copies == [i \in 1..N |-> Message(s, i - 1, "axis")]
             batch == <<Created(s, "stellarc", view.sessions[from].titled)>> \o copies
                        \o <<HandedOver(s, from), Archived(from)>>
  <2>3. Begins(<<Store(batch, 1), Show(batch)>>) /\ Begin(<<Store(batch, 1), Show(batch)>>)
    BY <1>0, <2>1, <2>2, HandoverBegins
  <2>4. s \in NativeId /\ ~MadeIn(s, log) /\ MadeIn(from, log)
    BY <1>1, <2>1
  <2>5. Sound(log) /\ batch \in Seq(Event) => Orderly(<<Store(batch, 1), Show(batch)>>, log)
    BY <1>0, <2>4, HandoverOrderly
  <2>6. PICK B : B = batch
    OBVIOUS
  <2>7. B \in Seq(Event)
    <3> HIDE DEF batch
    <3>1. Begins(<<Store(B, 1), Show(B)>>)
      BY <2>3, <2>6
    <3>2. PICK steps : steps = <<Store(B, 1), Show(B)>>
      OBVIOUS
    <3>3. steps \in Seq(Steps) /\ Len(steps) = 2 /\ steps[1] = Store(B, 1)
      BY <3>1, <3>2 DEF Begins
    <3>4. steps[1] \in Steps /\ steps[1].events = B
      BY <3>3 DEF Store
    <3> QED BY <3>4 DEF Steps
  <2> HIDE DEF batch
  <2> QED BY <2>3, <2>5, <2>6, <2>7 DEF Good
<1>12. CASE CompleteSession
  <2>1. PICK s \in Session :
          LET parent == view.sessions[s].parent
          IN  /\ Known(view.sessions, s) /\ parent # None /\ Known(view.sessions, parent)
              /\ Begin(Shown(Message(parent, NextId(parent), "axis"))
                    \o <<Store(<<Archived(s)>>, 0), Show(<<Archived(s)>>)>>)
    BY <1>12 DEF CompleteSession
  <2>2. view.sessions[s].parent \in Session
    BY <1>0, <2>1 DEF Views, SessionRow
  <2>3. PICK parent \in Session : parent = view.sessions[s].parent
    BY <2>2
  <2>4. /\ Known(view.sessions, s) /\ Known(view.sessions, parent)
        /\ Begin(Shown(Message(parent, NextId(parent), "axis"))
                    \o <<Store(<<Archived(s)>>, 0), Show(<<Archived(s)>>)>>)
    BY <2>1, <2>3
  <2> QED BY <1>4, <1>5, <1>6, <2>4
<1>13. CASE CardHandler
  <2>1. PICK k \in Card, type \in CardOnly :
          /\ Begin(Shown(CardEvent(type, k)))
          /\ type = "card_created" => rows.cards[k].status = None
    BY <1>13 DEF CardHandler, CardOnly
  <2>2. PICK e : e = CardEvent(type, k)
    OBVIOUS
  <2>3. e \in Event /\ Plain(e)
    BY <2>1, <2>2, EventsTyped, PlainEvents
  <2>4. e.type = type /\ Column(e) = None /\ None \notin NativeId
    BY <2>2, NoneAssumption DEF CardEvent, Column
  <2>5. CASE type # "card_created"
    <3>1. e.type \notin Kinds
      BY <2>4, <2>5 DEF CardOnly
    <3> QED BY <1>3, <2>1, <2>2, <2>3, <2>4, <3>1
  <2>6. CASE type = "card_created"
    <3>1. ASSUME HoldsCards(rows, log), NEW i \in 1..Len(log), Undoes(e, log[i])
          PROVE  FALSE
      <4>1. e = log[i]
        BY <2>4, <2>6, <3>1 DEF Undoes
      <4>2. log[i] = CardEvent("card_created", k)
        BY <2>2, <2>6, <4>1
      <4> QED BY <2>1, <2>6, <3>1, <4>2 DEF HoldsCards
    <3>2. HoldsCards(rows, log) => Follows(<<e>>, log)
      BY <2>4, <2>6, <3>1, OneFollows DEF Owns
    <3> QED BY <1>2, <2>1, <2>2, <2>3, <3>2
  <2> QED BY <2>5, <2>6
<1>14. CASE AssignCard
  <2>1. PICK k \in Card, s \in Session :
          /\ Known(view.sessions, s)
          /\ Begin(Shown(Assigned(k, s)) \o <<Store(<<Linked(s, k)>>, 0), Show(<<Linked(s, k)>>)>>)
    BY <1>14 DEF AssignCard
  <2>2. PICK e, g : e = Assigned(k, s) /\ g = Linked(s, k)
    OBVIOUS
  <2>3. e \in Event /\ g \in Event /\ Plain(e) /\ Plain(g) /\ g.type \notin ShownTypes
    BY <2>2, EventsTyped, PlainEvents
  <2>4. e.type = "assigned" /\ g.type = "linked" /\ Column(e) = s /\ Column(g) = s
    BY <2>2 DEF Assigned, Linked, Column, CardOnly, ProjectOnly
  <2>5. MadeIn(s, log)
    BY <1>1, <2>1
  <2>6. Begin(Shown(e) \o <<Store(<<g>>, 0), Show(<<g>>)>>)
    BY <2>1, <2>2
  <2> QED BY <1>4, <2>3, <2>4, <2>5, <2>6
<1>15. CASE ReassignCard
  <2>1. PICK k \in Card, s \in Session : Begin(Shown(Reassigned(k, s, view.cards[k].session)))
    BY <1>15 DEF ReassignCard
  <2>2. view.cards[k].session \in Session \cup {None}
    BY <1>0 DEF Views, CardRow
  <2>3. PICK e : e = Reassigned(k, s, view.cards[k].session)
    OBVIOUS
  <2>4. e \in Event /\ Plain(e)
    BY <2>2, <2>3, EventsTyped, PlainEvents
  <2>5. e.type = "reassigned" /\ Column(e) = None /\ None \notin NativeId
    BY <2>3, NoneAssumption DEF Reassigned, Column
  <2> QED BY <1>3, <2>1, <2>3, <2>4, <2>5
<1>16. CASE CreateProject
  <2>1. PICK p \in Project : Begin(Shown(ProjectEvent("project_created", p)))
    BY <1>16 DEF CreateProject
  <2>2. PICK e : e = ProjectEvent("project_created", p)
    OBVIOUS
  <2>3. e \in Event /\ Plain(e)
    <3>1. "project_created" \in ProjectOnly
      BY DEF ProjectOnly
    <3> QED BY <2>2, <3>1, EventsTyped, PlainEvents
  <2>4. e.type = "project_created" /\ Column(e) = None /\ None \notin NativeId
    BY <2>2, NoneAssumption DEF ProjectEvent, Column, ProjectOnly
  <2> QED BY <1>3, <2>1, <2>2, <2>3, <2>4
<1> QED
  BY <1>7, <1>8, <1>9, <1>10, <1>11, <1>12, <1>13, <1>14, <1>15, <1>16

LEMMA LockedStepsOrderly ==
  ASSUME StoreInv, RowsInv, ReplayInv,
         EditProject \/ DeleteProject \/ AttachProject \/ AttachContext \/ DetachContext
  PROVE  ReplayInv'
<1>0. Live(view) \subseteq Project
  BY DEF Live
<1>1. ASSUME NEW s \in Session, Known(view.sessions, s)
      PROVE  MadeIn(s, log)
  <2>1. DOMAIN log = 1..Len(log)
    BY DEF StoreInv, StoreTypeOK
  <2>2. Known(view.sessions, s) => \E i \in DOMAIN log : Creates(log[i], s)
    BY DEF StoreInv, ShownIsStored, ShownIsIn
  <2> QED BY <1>1, <2>1, <2>2 DEF MadeIn
<1>2. CASE EditProject \/ DeleteProject
  <2>1. PICK p \in Live(view), type \in {"project_updated", "project_layout", "project_deleted"} :
          Locked(ProjectEvent(type, p))
    BY <1>2 DEF EditProject, DeleteProject
  <2>2. PICK e : e = ProjectEvent(type, p)
    OBVIOUS
  <2>3. e \in Event
    BY <1>0, <2>2, EventsTyped DEF ProjectOnly
  <2>4. /\ e.type \notin {"created", "forked", "handover", "card_created"}
        /\ Column(e) = None /\ None \notin NativeId
    BY <2>2, NoneAssumption DEF ProjectEvent, Column, ProjectOnly
  <2>5. Locked(e)
    BY <2>1, <2>2
  <2> QED BY <2>3, <2>4, <2>5, LockedOrderly
<1>3. CASE AttachProject
  <2>1. PICK s \in Session, p \in Live(view) : Known(view.sessions, s) /\ Locked(Attached(s, p))
    BY <1>3 DEF AttachProject
  <2>2. PICK e : e = Attached(s, p)
    OBVIOUS
  <2>3. e \in Event
    BY <1>0, <2>2, EventsTyped
  <2>4. e.type \notin {"created", "forked", "handover", "card_created"} /\ Column(e) = s
    BY <2>2 DEF Attached, Column, CardOnly, ProjectOnly
  <2>5. Locked(e) /\ MadeIn(s, log)
    BY <1>1, <2>1, <2>2
  <2> QED BY <2>3, <2>4, <2>5, LockedOrderly
<1>4. CASE AttachContext
  <2>1. PICK s \in Session, p \in Live(view), mode \in {"read", "write"} :
          Known(view.sessions, s) /\ Locked(ContextAttached(s, p, mode))
    BY <1>4 DEF AttachContext
  <2>2. PICK e : e = ContextAttached(s, p, mode)
    OBVIOUS
  <2>3. e \in Event
    BY <1>0, <2>2, EventsTyped
  <2>4. e.type \notin {"created", "forked", "handover", "card_created"} /\ Column(e) = s
    BY <2>2 DEF ContextAttached, Column, CardOnly, ProjectOnly
  <2>5. Locked(e) /\ MadeIn(s, log)
    BY <1>1, <2>1, <2>2
  <2> QED BY <2>3, <2>4, <2>5, LockedOrderly
<1>5. CASE DetachContext
  <2>1. PICK s \in Session, p \in Live(view) : Known(view.sessions, s) /\ Locked(ContextDetached(s, p))
    BY <1>5 DEF DetachContext
  <2>2. PICK e : e = ContextDetached(s, p)
    OBVIOUS
  <2>3. e \in Event
    BY <1>0, <2>2, EventsTyped
  <2>4. e.type \notin {"created", "forked", "handover", "card_created"} /\ Column(e) = s
    BY <2>2 DEF ContextDetached, Column, CardOnly, ProjectOnly
  <2>5. Locked(e) /\ MadeIn(s, log)
    BY <1>1, <2>1, <2>2
  <2> QED BY <2>3, <2>4, <2>5, LockedOrderly
<1> QED BY <1>2, <1>3, <1>4, <1>5

LEMMA DoesOrderly ==
  ASSUME StoreInv, RowsInv, ReplayInv, NEW h \in Handlers, Do(h)
  PROVE  ReplayInv'
<1> DEFINE step == Head(handlers[h])
           rest == Tail(handlers[h])
<1>1. CASE /\ step.op = "append" /\ AppendBatch(step.events)
           /\ handlers' = [handlers EXCEPT ![h] = rest] /\ UNCHANGED <<view, calm>>
  BY <1>1, StoresOrderly
<1>2. CASE calm' = FALSE
  BY <1>2 DEF ReplayInv
<1>3. CASE /\ step.op = "apply" /\ view' = ShowAll(view, step.events)
           /\ handlers' = [handlers EXCEPT ![h] = rest] /\ UNCHANGED <<log, rows, calm>>
  BY <1>3, ShowsOrderly
<1> QED BY <1>1, <1>2, <1>3 DEF Do

(* The log starts sound.                                                   *)
LEMMA EarlierAre ==
  ASSUME NEW i \in 1..Len(Earlier)
  PROVE  \/ Earlier[i].type = "project_created" \/ Earlier[i].type = "card_created"
         \/ /\ Earlier[i].type = "created" /\ Earlier[i].source = "stellarc"
            /\ Earlier[i].session \in NativeId
<1> DEFINE seq == SetToSeq(Stored)
           start(x) == IF x \in NativeId THEN Created(x, "stellarc", FALSE)
                       ELSE CardEvent("card_created", x)
           at(j) == IF seq[j] \in Project THEN ProjectEvent("project_created", seq[j])
                    ELSE start(seq[j])
<1>1. seq \in Seq(Stored)
  BY SetToSeqTyped DEF StoreAssumption
<1>2. Earlier = [j \in DOMAIN seq |-> at(j)]
  BY DEF Earlier
<1> HIDE DEF seq
<1>3. DOMAIN seq = 1..Len(seq) /\ Len(seq) \in Nat
  BY <1>1
<1>4. i \in 1..Len(seq)
  <2> HIDE DEF at
  <2>1. Earlier \in Seq(Event) /\ DOMAIN Earlier = 1..Len(seq)
    BY <1>2, <1>3, EarlierTyped
  <2> QED BY <1>3, <2>1
<1>5. Earlier[i] = at(i)
  BY <1>2, <1>3, <1>4
<1>6. PICK x : x = seq[i]
  OBVIOUS
<1>7. Earlier[i] = IF x \in Project THEN ProjectEvent("project_created", x)
                   ELSE IF x \in NativeId THEN Created(x, "stellarc", FALSE)
                   ELSE CardEvent("card_created", x)
  BY <1>5, <1>6
<1>8. CASE x \in Project
  BY <1>7, <1>8 DEF ProjectEvent
<1>9. CASE x \notin Project /\ x \in NativeId
  BY <1>7, <1>9 DEF Created
<1>10. CASE x \notin Project /\ x \notin NativeId
  BY <1>7, <1>10 DEF CardEvent
<1> QED BY <1>8, <1>9, <1>10

LEMMA EarlierSound ==
  Sound(Earlier)
<1>1. ASSUME NEW i \in 1..Len(Earlier)
      PROVE  Owns(Earlier[i]) /\ (Column(Earlier[i]) \in NativeId => MadeIn(Column(Earlier[i]), Earlier))
  <2>1. PICK e : e = Earlier[i]
    OBVIOUS
  <2>2. Owns(e)
    BY <2>1, EarlierAre DEF Owns
  <2>3. CASE e.type = "created"
    <3>1. Column(e) = e.session
      BY <2>3 DEF Column, CardOnly, ProjectOnly
    <3> QED BY <2>1, <2>2, <2>3, <3>1 DEF MadeIn, Creates
  <2>4. CASE e.type \in {"project_created", "card_created"}
    <3>1. Column(e) \notin NativeId
      BY <2>4, NoneAssumption DEF Column, CardOnly, ProjectOnly
    <3> QED BY <2>1, <2>2, <3>1
  <2> QED BY <2>1, <2>3, <2>4, EarlierAre
<1>2. ASSUME NEW i \in 1..Len(Earlier), NEW j \in 1..Len(Earlier), i < j,
             Undoes(Earlier[j], Earlier[i])
      PROVE  FALSE
  <2>1. ~Links(Earlier[i])
    BY EarlierAre DEF Links
  <2>2. Earlier[i].type = "card_created" /\ Earlier[j] = Earlier[i]
    BY <1>2, <2>1 DEF Undoes
  <2>3. \A m, n \in 1..Len(Earlier) : m < n /\ Earlier[n].type \in Firsts => Earlier[m] # Earlier[n]
    BY EarlierSuits DEF Suitable
  <2>4. Earlier[j].type \in Firsts
    BY <2>2 DEF Firsts
  <2> QED BY <1>2, <2>2, <2>3, <2>4
<1> QED BY <1>1, <1>2 DEF Sound, Rooted, Unrepeated

LEMMA ReplayInvInit ==
  ASSUME StoreInit
  PROVE  ReplayInv
<1>1. /\ log = Earlier /\ rows = ProjectAll(Empty, Earlier) /\ view = Replay(log)
      /\ indexing = "import" /\ \A h \in Handlers : handlers[h] = <<>>
  BY DEF StoreInit
<1>2. Earlier \in Seq(Event) /\ Empty \in Rows
  BY EarlierTyped, EmptyAlike
<1>3. HoldsCards(rows, log) /\ HoldsSessions(rows, log)
  <2>1. \A n \in 1..Len(Earlier) : Owns(Earlier[n])
    BY EarlierSound DEF Sound
  <2>2. /\ \A s \in NativeId : MadeIn(s, Earlier) => Managed(ProjectAll(Empty, Earlier).sessions[s])
        /\ \A k \in Card : (\E i \in 1..Len(Earlier) : Earlier[i] = CardEvent("card_created", k)) =>
             ProjectAll(Empty, Earlier).cards[k].status # None
    BY <1>2, <2>1, BatchHolds
  <2> QED BY <1>1, <2>2 DEF HoldsCards, HoldsSessions
<1>4. Sound(log) /\ SameOn(Session, view, Replay(log))
  BY <1>1, EarlierSound, SameGoesOn
<1> QED BY <1>1, <1>3, <1>4 DEF ReplayInv, Busy

LEMMA ReplayInvNext ==
  ASSUME StoreInv, RowsInv, ReplayInv, [StoreNext]_storeVars
  PROVE  ReplayInv'
<1>1. CASE \/ CreateSession \/ PostMessage \/ ArchiveSession \/ CreateSubsession
           \/ HandoverSession \/ CompleteSession \/ CardHandler \/ AssignCard \/ ReassignCard
           \/ CreateProject
  BY <1>1, HandlersOrderly, BeginsOrderly
<1>2. CASE EditProject \/ DeleteProject \/ AttachProject \/ AttachContext \/ DetachContext
  BY <1>2, LockedStepsOrderly
<1>3. CASE \E h \in Handlers : Do(h)
  BY <1>3, DoesOrderly
<1>4. CASE \E h \in HermesId, id \in {Itself, 0} : Observe(h, id)
  BY <1>4 DEF Observe, ReplayInv
<1>5. CASE Import
  BY <1>5, ImportsOrderly
<1>6. CASE Reindex
  BY <1>6, ReindexOrderly
<1>7. CASE Boot
  BY <1>7, BootsOrderly
<1>8. CASE UNCHANGED storeVars
  BY <1>8 DEF storeVars, ReplayInv, Busy
<1> QED BY <1>1, <1>2, <1>3, <1>4, <1>5, <1>6, <1>7, <1>8 DEF StoreNext

(* While no two handlers overlap and none fails, what is shown is what a   *)
(* replay of the log would show, and the log is sound: what it says of a   *)
(* session follows the session's creation, and nothing in it is taken back *)
(* by what follows (view.rs, sessions.rs, log.rs).                         *)
THEOREM ReplaysCorrect == StoreSpec => []ReplayInv
<1>1. StoreInit => ReplayInv
  BY ReplayInvInit
<1>2. StoreInv /\ RowsInv /\ ReplayInv /\ [StoreNext]_storeVars => ReplayInv'
  BY ReplayInvNext
<1> QED BY <1>1, <1>2, StoreCorrect, RowsCorrect, PTL DEF StoreSpec

(* A restart takes nothing back: it keeps every event and message of       *)
(* Stellarc's own, and when nothing overlapped it changes nothing that is  *)
(* shown of its sessions, of a card or of a project (retain_native in      *)
(* log.rs and log_pg.rs, the replay in support.rs and view.rs).            *)
THEOREM RestartsAreInvisible == StoreSpec => BootIsInvisible
<1>1. StoreInv /\ StoreInv' /\ RowsInv /\ ReplayInv /\ [StoreNext]_storeVars
        => [boots' = boots + 1 => KeepsNative /\ ChangesNothing]_storeVars
  BY OnlyBootBoots, BootKeepsNative, BootChangesNothing
<1> QED BY <1>1, StoreCorrect, RowsCorrect, ReplaysCorrect, PTL DEF StoreSpec, BootIsInvisible
=============================================================================
