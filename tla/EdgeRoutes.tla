----------------------------- MODULE EdgeRoutes -----------------------------
(***************************************************************************)
(* The routes Axis publishes through Caddy (axis/src/edge/,                *)
(* axis/src/proxy.rs, axis/src/server/routes/edge.rs, and the              *)
(* reconciliation task of axis/src/entry.rs).                              *)
(*                                                                         *)
(* The same route lives in three places: the desired routes of the         *)
(* EdgeManager, the route array of the Caddy process, and, for an endpoint *)
(* of an agent, the proxy table that forward_auth and /proxy/<slug> read.  *)
(* A change of the desired routes is applied to Caddy and recorded under   *)
(* one write lock; the table is changed after it, in another step.  Every  *)
(* ten seconds a task reads the desired routes and, no longer under that   *)
(* lock, sends all of them to Caddy.                                       *)
(*                                                                         *)
(* Abstracted: a route is a value and its rendering for Caddy, which is    *)
(* sorted by id and depends on nothing else, is the value itself; bodies   *)
(* that fail validation change nothing.  A slug and the id of a static     *)
(* publication are taken to differ.                                        *)
(***************************************************************************)
EXTENDS Naturals, FiniteSets

CONSTANTS ProxySlug,          \* slugs of proxied endpoints
          Artifact,      \* ids of static publications, static-<org>-<slug>
          Route,         \* what a route says
          NoRoute,       \* no such route, endpoint or file
          Caller,        \* requests in progress
          MaxCalls,      \* bound: requests
          MaxFaults      \* bound: failed exchanges with Caddy, restarts

ASSUME EdgeAssumption == ProxySlug \cap Artifact = {} /\ NoRoute \notin Route

EdgeId == ProxySlug \cup Artifact

VARIABLES desired,    \* EdgeManager.desired: [Id -> Route or NoRoute]
          caddy,      \* the route array of the Caddy process
          up,         \* whether Caddy runs
          table,      \* ProxyTable.routes: [Slug -> Route or NoRoute]
          published,       \* the published files: [Artifact -> Route or NoRoute]
          request,    \* [Caller -> the place of its handler]
          sweep,      \* the reconciliation: Resting, or the routes it has read
          contested,  \* history: slugs whose requests overlapped
          calls,      \* requests so far
          faults      \* faults so far

edgeVars == <<desired, caddy, up, table, published, request, sweep, contested, calls, faults>>
counts == <<calls, faults>>
caddyVars == <<caddy, up>>

NoRoutes == [i \in EdgeId |-> NoRoute]
Free == [at |-> "idle"]
Resting == [at |-> "rest"]

EdgeInit ==
  /\ desired = NoRoutes /\ caddy = NoRoutes
  /\ up \in BOOLEAN
  /\ table = [s \in ProxySlug |-> NoRoute]
  /\ published = [a \in Artifact |-> NoRoute]
  /\ request = [c \in Caller |-> Free]
  /\ sweep = Resting
  /\ contested = {}
  /\ calls = 0 /\ faults = 0

-----------------------------------------------------------------------------
(* CaddyDriver::apply: one PATCH of the whole array. *)

\* Caddy takes the routes and says so; it is down; or the exchange fails, and
\* nobody can tell whether Caddy took them before it did.
Exchange(routes, ok) ==
  \/ up /\ ok /\ caddy' = routes /\ UNCHANGED faults
  \/ ~up /\ ~ok /\ UNCHANGED <<caddy, faults>>
  \/ /\ up /\ ~ok /\ faults < MaxFaults
     /\ caddy' \in {caddy, routes}
     /\ faults' = faults + 1

\* EdgeManager::upsert and remove: Caddy first, then the desired routes, both
\* under the write lock.
Change(id, route, ok) ==
  LET next == [desired EXCEPT ![id] = route] IN
  /\ Exchange(next, ok)
  /\ desired' = IF ok THEN next ELSE desired
  /\ UNCHANGED up

-----------------------------------------------------------------------------
(* The handlers. *)

Others(c, id) == \E d \in Caller \ {c} : request[d] # Free /\ request[d].id = id

Begin(c, id, first) ==
  /\ request[c] = Free /\ calls < MaxCalls
  /\ calls' = calls + 1
  /\ request' = [request EXCEPT ![c] = first]
  /\ contested' = IF Others(c, id) THEN contested \cup {id} ELSE contested

Asks(step, id, route) == [at |-> step, id |-> id, route |-> route]
Proceed(c, step) ==
  request' = [request EXCEPT ![c] = Asks(step, request[c].id, request[c].route)]
Answer(c) == request' = [request EXCEPT ![c] = Free]

\* create_proxy_endpoint: POST /api/proxy.
CreateEndpoint(c, slug, route) ==
  /\ Begin(c, slug, Asks("upsert", slug, route))
  /\ UNCHANGED <<desired, caddyVars, table, published, sweep, faults>>

UpsertTabled(c) ==   \* faulty: the table does not wait for Caddy's answer
  /\ request[c].at = "upsert"
  /\ \E ok \in BOOLEAN :
       /\ Change(request[c].id, request[c].route, ok)
       /\ Proceed(c, "insert")
  /\ UNCHANGED <<table, published, sweep, contested, calls>>

Upsert(c) ==
  /\ request[c].at = "upsert"
  /\ \E ok \in BOOLEAN :
       /\ Change(request[c].id, request[c].route, ok)
       /\ IF ok THEN Proceed(c, "insert") ELSE Answer(c)
  /\ UNCHANGED <<table, published, sweep, contested, calls>>

Insert(c) ==
  /\ request[c].at = "insert"
  /\ table' = [table EXCEPT ![request[c].id] = request[c].route]
  /\ Answer(c)
  /\ UNCHANGED <<desired, caddyVars, published, sweep, contested, counts>>

\* delete_proxy_endpoint: DELETE /api/proxy/<slug>; not found is the answer to an
\* unknown one.
DeleteEndpoint(c, slug) ==
  /\ table[slug] # NoRoute
  /\ Begin(c, slug, Asks("remove", slug, NoRoute))
  /\ UNCHANGED <<desired, caddyVars, table, published, sweep, faults>>

\* EdgeManager::remove sends nothing for a route that is not desired.
RemoveRoute(c) ==
  /\ request[c].at = "remove"
  /\ \/ /\ desired[request[c].id] = NoRoute
        /\ Proceed(c, "drop")
        /\ UNCHANGED <<desired, caddyVars, faults>>
     \/ /\ desired[request[c].id] # NoRoute
        /\ \E ok \in BOOLEAN :
             /\ Change(request[c].id, NoRoute, ok)
             /\ IF ok THEN Proceed(c, "drop") ELSE Answer(c)
  /\ UNCHANGED <<table, published, sweep, contested, calls>>

Drop(c) ==
  /\ request[c].at = "drop"
  /\ table' = [table EXCEPT ![request[c].id] = NoRoute]
  /\ Answer(c)
  /\ UNCHANGED <<desired, caddyVars, published, sweep, contested, counts>>

\* publish_static: POST /api/edge/static writes the file, then its route.
Publish(c, id, route) ==
  /\ Begin(c, id, Asks("write", id, route))
  /\ UNCHANGED <<desired, caddyVars, table, published, sweep, faults>>

WriteFile(c) ==
  /\ request[c].at = "write"
  /\ published' = [published EXCEPT ![request[c].id] = request[c].route]
  /\ Proceed(c, "publish")
  /\ UNCHANGED <<desired, caddyVars, table, sweep, contested, counts>>

PublishRoute(c) ==
  /\ request[c].at = "publish"
  /\ \E ok \in BOOLEAN :
       /\ Change(request[c].id, request[c].route, ok)
       /\ IF ok THEN Answer(c) ELSE Proceed(c, "withdraw")
  /\ UNCHANGED <<table, published, sweep, contested, calls>>

\* The file is removed again, the one of an earlier publication with it.
Withdraw(c) ==
  /\ request[c].at = "withdraw"
  /\ published' = [published EXCEPT ![request[c].id] = NoRoute]
  /\ Answer(c)
  /\ UNCHANGED <<desired, caddyVars, table, sweep, contested, counts>>

Handle(c) ==
  \/ Upsert(c) \/ Insert(c) \/ RemoveRoute(c) \/ Drop(c)
  \/ WriteFile(c) \/ PublishRoute(c) \/ Withdraw(c)

-----------------------------------------------------------------------------
(* The reconciliation task: EdgeManager::converge on every tick. *)

ReadRoutesOnce ==   \* faulty: only a level that has routes is sent
  /\ sweep = Resting
  /\ desired # NoRoutes
  /\ sweep' = [at |-> "apply", routes |-> desired]
  /\ UNCHANGED <<desired, caddyVars, table, published, request, contested, counts>>

ReadRoutes ==
  /\ sweep = Resting
  /\ sweep' = [at |-> "apply", routes |-> desired]
  /\ UNCHANGED <<desired, caddyVars, table, published, request, contested, counts>>

ApplyRoutes ==
  /\ sweep # Resting
  /\ \E ok \in BOOLEAN : Exchange(sweep.routes, ok)
  /\ sweep' = Resting
  /\ UNCHANGED <<desired, up, table, published, request, contested, calls>>

Converge == ReadRoutes \/ ApplyRoutes

-----------------------------------------------------------------------------
(* Restarts. *)

\* Caddy stops, and comes back with the empty array of its configuration.
StopCaddy ==
  /\ up /\ faults < MaxFaults
  /\ up' = FALSE /\ faults' = faults + 1
  /\ caddy' = NoRoutes
  /\ UNCHANGED <<desired, table, published, request, sweep, contested, calls>>

StartCaddy ==
  /\ ~up
  /\ up' = TRUE
  /\ UNCHANGED <<desired, caddy, table, published, request, sweep, contested, counts>>

\* Axis keeps neither the desired routes nor the proxy table.
ForgetRoutes ==
  /\ faults < MaxFaults
  /\ faults' = faults + 1
  /\ desired' = NoRoutes
  /\ table' = [s \in ProxySlug |-> NoRoute]
  /\ request' = [c \in Caller |-> Free]
  /\ sweep' = Resting
  /\ contested' = {}
  /\ UNCHANGED <<caddyVars, published, calls>>

-----------------------------------------------------------------------------

EdgeNext ==
  \/ \E c \in Caller, s \in ProxySlug : DeleteEndpoint(c, s) \/ \E r \in Route : CreateEndpoint(c, s, r)
  \/ \E c \in Caller, a \in Artifact, r \in Route : Publish(c, a, r)
  \/ \E c \in Caller : Handle(c)
  \/ Converge \/ StopCaddy \/ StartCaddy \/ ForgetRoutes

\* The task ticks for ever, and an exchange with Caddy ends by its timeouts;
\* nothing is asked of the callers or of Caddy.
EdgeSpec == EdgeInit /\ [][EdgeNext]_edgeVars /\ WF_edgeVars(Converge)

-----------------------------------------------------------------------------
(* Properties. *)

\* Every variable has its type.
EdgeTypeOK ==
  LET Routes(ids) == [ids -> Route \cup {NoRoute}] IN
  /\ {desired, caddy} \subseteq Routes(EdgeId) /\ up \in BOOLEAN
  /\ table \in Routes(ProxySlug) /\ published \in Routes(Artifact)
  /\ request \in [Caller -> {Free} \cup
       [at : {"upsert", "insert", "remove", "drop"}, id : ProxySlug, route : Route \cup {NoRoute}]
       \cup [at : {"write", "publish", "withdraw"}, id : Artifact, route : Route]]
  /\ sweep \in {Resting} \cup [at : {"apply"}, routes : Routes(EdgeId)]
  /\ contested \subseteq EdgeId /\ calls \in Nat /\ faults \in Nat

\* After every answer the proxy table and the desired routes agree on a slug,
\* whatever Caddy did with the requests, as long as the slug's requests did not
\* overlap: create changes the routes first, delete the table last, and both stop
\* when Caddy refuses.
TableFollowsEdge ==
  \A s \in ProxySlug \ contested :
    (\A c \in Caller : request[c] = Free \/ request[c].id # s) => table[s] = desired[s]

\* "A restarted Caddy converges": once Caddy stays up and no more is asked of
\* Axis, Caddy comes to serve exactly the desired routes and keeps to them,
\* whichever restarts, lost answers and changes during a reconciliation came
\* before.
CaddyConverges == <>[]up => <>[](caddy = desired)
=============================================================================
