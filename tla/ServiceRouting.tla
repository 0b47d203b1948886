--------------------------- MODULE ServiceRouting ---------------------------
(***************************************************************************)
(* The service routing controller (role router,                            *)
(* internal/controller/service_routing_controller.go): for every Service   *)
(* it keeps one DNSEndpoint per DNS name and record type, in the longest   *)
(* matching zone of the project, and prunes the ones no longer wanted.     *)
(* It reads services, zones and endpoints from the informer cache and      *)
(* writes endpoints to the API server.  The garbage collector removes the  *)
(* endpoints of a service that is gone.                                    *)
(***************************************************************************)
EXTENDS Naturals, Sequences, SequencesExt

CONSTANTS
    Services, NoService,
    DnsNames, NoName,  \* DNS names, as spelled in a service
    Canonical,     \* DNS name -> the name without case and trailing dot
    Specs,         \* DNS name lists (domain, aliases) a service may have
    Routes,        \* route selectors
    RecordTypes,   \* sequence of the record types
    Zones, NoZone,
    Covering,      \* DNS name -> zones of the project it lies in
    Length,        \* zone -> length of its domain
    Webhooks,      \* is admission enabled in this cluster?
    Budget,        \* bound on the steps of users and on failures
    UserActions

ASSUME SpecsAssumption == Specs \subseteq Seq(DnsNames) /\ <<>> \notin Specs
ASSUME ZonesAssumption == Covering \in [DnsNames -> SUBSET Zones] /\ Length \in [Zones -> Nat \ {0}]
ASSUME TypesAssumption == RecordTypes \in Seq(STRING)
ASSUME NoServiceAssumption == NoService \notin Services
ASSUME BudgetAssumption == Budget \in Nat
ASSUME ActionsAssumption ==
    UserActions \subseteq {"zones", "delete", "own", "other"}

VARIABLES
    svc,        \* API server: services
    zones,      \* API server: zones
    ep,         \* API server: endpoints
    svcCache, zoneCache, epCache,  \* the informers' views of them
    noticed,    \* endpoints written with an owner, not yet reported by the watch
    queue,      \* services to reconcile
    pc,         \* worker: "idle", "apply" (the loop over names) or "prune"
    current,    \* the service it works on ...
    seen,       \* ... the service and zones it has read ...
    seenZones,
    work,       \* ... the <<name, type>> pairs it has yet to handle ...
    stale,      \* ... and the endpoints it has yet to delete
    uids,       \* UIDs handed out
    budget

apiVars    == <<svc, zones, ep, uids>>
cacheVars  == <<svcCache, zoneCache, epCache>>
queueVars  == <<noticed, queue>>
workerVars == <<pc, current, seen, seenZones, work, stale>>
vars == <<apiVars, cacheVars, queueVars, workerVars, budget>>

TypeNames == {RecordTypes[i] : i \in DOMAIN RecordTypes}

\* The name of a generated endpoint depends on the canonical DNS name.
EndpointName(s, n, t) == <<s, Canonical[n], t>>
EndpointNames == {EndpointName(s, n, t) : s \in Services, n \in DnsNames, t \in TypeNames}

ServiceObject == [life : {"none", "live"}, uid : 0 .. Budget, names : Specs \cup {<<>>},
                  route : Routes \cup {"none"}]
NoServiceObject == [life |-> "none", uid |-> 0, names |-> <<>>, route |-> "none"]

\* owner is the UID of the controlling service, 0 for none; name and route
\* are what the values hash is taken from.
EndpointObject == [life : {"none", "live"}, owner : 0 .. Budget, name : DnsNames \cup {NoName},
                   route : Routes \cup {"none"}, zone : Zones \cup {NoZone},
                   project : {"own", "other"}]
NoEndpoint == [life |-> "none", owner |-> 0, name |-> NoName, route |-> "none",
               zone |-> NoZone, project |-> "own"]

TypeOK ==
    /\ svc \in [Services -> ServiceObject] /\ svcCache \in [Services -> ServiceObject]
    /\ zones \subseteq Zones /\ zoneCache \subseteq Zones
    /\ ep \in [EndpointNames -> EndpointObject] /\ epCache \in [EndpointNames -> EndpointObject]
    /\ noticed \subseteq EndpointNames /\ queue \subseteq Services
    /\ pc \in {"idle", "apply", "prune"}
    /\ current \in Services \cup {NoService}
    /\ (pc = "idle") <=> (current = NoService)
    /\ seen \in ServiceObject /\ seenZones \subseteq Zones
    /\ work \in Seq(DnsNames \X TypeNames)
    /\ stale \subseteq EndpointNames
    /\ uids \in 0 .. Budget /\ budget \in 0 .. Budget

Init ==
    /\ svc = [s \in Services |-> NoServiceObject] /\ svcCache = svc
    /\ zones = {} /\ zoneCache = {}
    /\ ep = [e \in EndpointNames |-> NoEndpoint] /\ epCache = ep
    /\ noticed = {} /\ queue = {}
    /\ pc = "idle" /\ current = NoService /\ seen = NoServiceObject /\ seenZones = {}
    /\ work = <<>> /\ stale = {}
    /\ uids = 0
    /\ budget = Budget

Spend == budget > 0 /\ budget' = budget - 1

-----------------------------------------------------------------------------
(* Users, the garbage collector and the informers.                         *)

CreateService(s, names, route) ==
    /\ svc[s].life = "none"
    /\ svc' = [svc EXCEPT ![s] = [life |-> "live", uid |-> uids + 1, names |-> names, route |-> route]]
    /\ uids' = uids + 1
    /\ Spend
    /\ UNCHANGED <<zones, ep, cacheVars, queueVars, workerVars>>

UpdateService(s, names, route) ==
    /\ svc[s].life = "live"
    /\ svc' = [svc EXCEPT ![s].names = names, ![s].route = route]
    /\ svc' # svc
    /\ Spend
    /\ UNCHANGED <<zones, ep, uids, cacheVars, queueVars, workerVars>>

DeleteService(s) ==
    /\ svc[s].life = "live"
    /\ svc' = [svc EXCEPT ![s] = NoServiceObject]
    /\ Spend
    /\ UNCHANGED <<zones, ep, uids, cacheVars, queueVars, workerVars>>

CreateZone(z) ==
    /\ z \notin zones
    /\ zones' = zones \cup {z}
    /\ Spend
    /\ UNCHANGED <<svc, ep, uids, cacheVars, queueVars, workerVars>>

DeleteZone(z) ==
    /\ "zones" \in UserActions
    /\ z \in zones
    /\ zones' = zones \ {z}
    /\ Spend
    /\ UNCHANGED <<svc, ep, uids, cacheVars, queueVars, workerVars>>

\* Somebody makes an endpoint under a name the controller will want.
UserCreateEndpoint(e, p) ==
    /\ p \in UserActions
    /\ ep[e].life = "none"
    /\ ep' = [ep EXCEPT ![e] = [NoEndpoint EXCEPT !.life = "live", !.project = p]]
    /\ Spend
    /\ UNCHANGED <<svc, zones, uids, cacheVars, queueVars, workerVars>>

UserDeleteEndpoint(e) ==
    /\ "delete" \in UserActions
    /\ ep[e].life = "live"
    /\ ep' = [ep EXCEPT ![e] = NoEndpoint]
    /\ Spend
    /\ UNCHANGED <<svc, zones, uids, cacheVars, queueVars, workerVars>>

\* The garbage collector deletes what belongs to a UID that is gone.
CollectGarbage(e) ==
    /\ ep[e].owner # 0
    /\ svc[e[1]].uid # ep[e].owner
    /\ ep' = [ep EXCEPT ![e] = NoEndpoint]
    /\ UNCHANGED <<svc, zones, uids, cacheVars, queueVars, workerVars, budget>>

ServiceEvent(s) ==
    /\ svcCache[s] # svc[s]
    /\ svcCache' = [svcCache EXCEPT ![s] = svc[s]]
    /\ queue' = queue \cup {s}
    /\ UNCHANGED <<apiVars, zoneCache, epCache, noticed, workerVars, budget>>

\* Zones are cached, not watched.
ZoneEvent(z) ==
    /\ z \in zones <=> z \notin zoneCache
    /\ zoneCache' = IF z \in zones THEN zoneCache \cup {z} ELSE zoneCache \ {z}
    /\ UNCHANGED <<apiVars, svcCache, epCache, queueVars, workerVars, budget>>

EndpointEvent_NewOwnerOnly(e) ==
    /\ epCache[e] # ep[e] \/ e \in noticed
    /\ epCache' = [epCache EXCEPT ![e] = ep[e]]
    /\ noticed' = noticed \ {e}
    /\ queue' = queue \cup {s \in {e[1]} : ep[e].owner # 0}
    /\ UNCHANGED <<apiVars, svcCache, zoneCache, workerVars, budget>>

\* Endpoints that have, or had, a controlling service queue that service.
\* The watch reports every version: one written and gone again still counts.
EndpointEvent(e) ==
    /\ epCache[e] # ep[e] \/ e \in noticed
    /\ epCache' = [epCache EXCEPT ![e] = ep[e]]
    /\ noticed' = noticed \ {e}
    /\ queue' = queue \cup {s \in {e[1]} : epCache[e].owner # 0 \/ e \in noticed}
    /\ UNCHANGED <<apiVars, svcCache, zoneCache, workerVars, budget>>

-----------------------------------------------------------------------------
(* Reconcile.                                                              *)

\* The pass ends; again: an error queues the service again.
Return(again) ==
    /\ pc' = "idle" /\ current' = NoService /\ seen' = NoServiceObject /\ seenZones' = {}
    /\ work' = <<>> /\ stale' = {}
    /\ queue' = IF again THEN queue \cup {current} ELSE queue

\* The pairs of a service in the order of the two nested loops.
Pairs(names) ==
    LET k == Len(RecordTypes) IN
    [i \in 1 .. k * Len(names) |->
        <<names[((i - 1) \div k) + 1], RecordTypes[((i - 1) % k) + 1]>>]

ReconcileGone(s) ==
    /\ pc = "idle" /\ s \in queue
    /\ svcCache[s].life = "none"
    /\ queue' = queue \ {s}
    /\ UNCHANGED <<apiVars, cacheVars, noticed, workerVars, budget>>

ReconcileBegin(s) ==
    /\ pc = "idle" /\ s \in queue
    /\ svcCache[s].life = "live"
    /\ pc' = "apply" /\ current' = s
    /\ seen' = svcCache[s] /\ seenZones' = zoneCache
    /\ work' = Pairs(svcCache[s].names)
    /\ queue' = queue \ {s}
    /\ UNCHANGED <<apiVars, cacheVars, noticed, stale, budget>>

\* The zones the loop may settle on: matching ones of greatest length (the
\* first of them in list order).
BestZones(n) ==
    LET match == seenZones \cap Covering[n]
    IN  {z \in match : \A y \in match : Length[y] <= Length[z]}

Name  == Head(work)[1]
Key   == EndpointName(current, Name, Head(work)[2])

\* What WithService and Build make of a DNS name, in zone z, controlled by
\* the service.
Desired_Unowned(n, z) == [life |-> "live", owner |-> 0, name |-> n, route |-> seen.route,
                          zone |-> z, project |-> "own"]
Desired(n, z) == [life |-> "live", owner |-> seen.uid, name |-> n, route |-> seen.route,
                  zone |-> z, project |-> "own"]

\* The tenancy webhook resolves the zone at the API server.
AdmitEndpoint(z) == Webhooks => z \in zones

SameProject_Unchecked(e) == TRUE
SameProject(e) == epCache[e].project = "own"

\* A name no zone covers ends the pass with an error.
ReconcileUncovered ==
    /\ pc = "apply" /\ work # <<>>
    /\ BestZones(Name) = {}
    /\ Return(TRUE)
    /\ UNCHANGED <<apiVars, cacheVars, noticed, budget>>

\* One endpoint write: on success the loop goes on, otherwise the error ends
\* the pass.
Write(new, accepted) ==
    IF accepted
    THEN /\ ep' = [ep EXCEPT ![Key] = new]
         /\ work' = Tail(work)
         /\ noticed' = noticed \cup {Key}
         /\ UNCHANGED <<pc, current, seen, seenZones, stale, queue>>
    ELSE Return(TRUE) /\ UNCHANGED <<ep, noticed>>

ReconcileCreate ==
    /\ pc = "apply" /\ work # <<>>
    /\ epCache[Key].life = "none"
    /\ \E z \in BestZones(Name) :
          Write(Desired(Name, z), ep[Key].life = "none" /\ AdmitEndpoint(z))
    /\ UNCHANGED <<svc, zones, uids, cacheVars, budget>>

ReconcileForeign ==
    /\ pc = "apply" /\ work # <<>>
    /\ BestZones(Name) # {}
    /\ epCache[Key].life = "live" /\ ~ SameProject(Key)
    /\ Return(TRUE)
    /\ UNCHANGED <<apiVars, cacheVars, noticed, budget>>

\* The endpoint has the wanted hash, owner and zone.
ReconcileKeep ==
    /\ pc = "apply" /\ work # <<>>
    /\ epCache[Key].life = "live" /\ SameProject(Key)
    /\ \E z \in BestZones(Name) : epCache[Key] = Desired(Name, z)
    /\ work' = Tail(work)
    /\ UNCHANGED <<apiVars, cacheVars, queueVars, pc, current, seen, seenZones, stale, budget>>

\* It differs: it is rewritten, with the resourceVersion of the cached one.
ReconcileUpdate ==
    /\ pc = "apply" /\ work # <<>>
    /\ epCache[Key].life = "live" /\ SameProject(Key)
    /\ \E z \in BestZones(Name) :
          /\ epCache[Key] # Desired(Name, z)
          /\ Write(Desired(Name, z), ep[Key] = epCache[Key] /\ AdmitEndpoint(z))
    /\ UNCHANGED <<svc, zones, uids, cacheVars, budget>>

\* All names are done: list the endpoints the service controls and does not
\* want.
ReconcileList ==
    /\ pc = "apply" /\ work = <<>>
    /\ pc' = "prune"
    /\ stale' = {e \in EndpointNames :
                    /\ epCache[e].owner = seen.uid
                    /\ \A i \in DOMAIN seen.names, t \in TypeNames :
                          e # EndpointName(current, seen.names[i], t)}
    /\ UNCHANGED <<apiVars, cacheVars, queueVars, current, seen, seenZones, work, budget>>

ReconcilePrune_Skip(e) ==
    /\ pc = "prune" /\ e \in stale
    /\ stale' = stale \ {e}
    /\ UNCHANGED <<apiVars, cacheVars, queueVars, pc, current, seen, seenZones, work, budget>>

\* Delete by name; NotFound is ignored.
ReconcilePrune(e) ==
    /\ pc = "prune" /\ e \in stale
    /\ ep' = [ep EXCEPT ![e] = NoEndpoint]
    /\ stale' = stale \ {e}
    /\ UNCHANGED <<svc, zones, uids, cacheVars, queueVars, pc, current, seen, seenZones, work, budget>>

ReconcileDone ==
    /\ pc = "prune" /\ stale = {}
    /\ Return(FALSE)
    /\ UNCHANGED <<apiVars, cacheVars, noticed, budget>>

\* A call fails, or its answer is lost after the call took effect.
CallFails ==
    /\ pc # "idle"
    /\ Return(TRUE)
    /\ Spend
    /\ UNCHANGED <<apiVars, cacheVars, noticed>>

Restart ==
    /\ svcCache' = svc /\ zoneCache' = zones /\ epCache' = ep /\ noticed' = {}
    /\ queue' = {s \in Services : svc[s].life = "live" \/ \E e \in EndpointNames :
                                                            e[1] = s /\ ep[e].owner # 0}
    /\ pc' = "idle" /\ current' = NoService /\ seen' = NoServiceObject /\ seenZones' = {}
    /\ work' = <<>> /\ stale' = {}
    /\ Spend
    /\ UNCHANGED apiVars

-----------------------------------------------------------------------------
ReconcileTake(s) == ReconcileGone(s) \/ ReconcileBegin(s)

ReconcileStep ==
    \/ ReconcileUncovered
    \/ ReconcileCreate
    \/ ReconcileForeign
    \/ ReconcileKeep
    \/ ReconcileUpdate
    \/ ReconcileList
    \/ \E e \in EndpointNames : ReconcilePrune(e)
    \/ ReconcileDone

Next ==
    \/ \E s \in Services :
          \/ \E names \in Specs, route \in Routes :
                CreateService(s, names, route) \/ UpdateService(s, names, route)
          \/ DeleteService(s)
          \/ ServiceEvent(s)
          \/ ReconcileTake(s)
    \/ \E z \in Zones : CreateZone(z) \/ DeleteZone(z) \/ ZoneEvent(z)
    \/ \E e \in EndpointNames :
          \/ \E p \in {"own", "other"} : UserCreateEndpoint(e, p)
          \/ UserDeleteEndpoint(e)
          \/ CollectGarbage(e)
          \/ EndpointEvent(e)
    \/ ReconcileStep
    \/ CallFails
    \/ Restart

\* The informers, the garbage collector and the worker run on, and every
\* queued service gets its turn.
Fairness ==
    /\ \A s \in Services : WF_vars(ServiceEvent(s)) /\ SF_vars(ReconcileTake(s))
    /\ \A z \in Zones : WF_vars(ZoneEvent(z))
    /\ \A e \in EndpointNames : WF_vars(EndpointEvent(e)) /\ WF_vars(CollectGarbage(e))
    /\ WF_vars(ReconcileStep)

Spec == Init /\ [][Next]_vars
FairSpec == Spec /\ Fairness

-----------------------------------------------------------------------------
(* What is promised.                                                       *)

Names(o) == {o.names[i] : i \in DOMAIN o.names}

\* The endpoint names a version o of service s asks for.
WantedBy(s, o) == {EndpointName(s, n, t) : n \in Names(o), t \in TypeNames}
Wanted(s) == WantedBy(s, svc[s])

\* The endpoint for one name and type is there as that version asks for it,
\* in a matching zone.
Made(s, o, n, t) ==
    \E z \in Covering[n] :
        ep[EndpointName(s, n, t)] = [life |-> "live", owner |-> o.uid, name |-> n,
                                     route |-> o.route, zone |-> z, project |-> "own"]

\* The controller can do its work: every name lies in a zone and no wanted
\* name is taken by another project.
Routable(s) ==
    /\ svc[s].life = "live"
    /\ \A i \in DOMAIN svc[s].names : Covering[svc[s].names[i]] \cap zones # {}
    /\ \A e \in Wanted(s) : ep[e].project = "own"

\* The endpoints of s are the ones its spec asks for, in matching zones.  A
\* zone may have been deleted since: zones are not watched.
Routed(s) ==
    /\ \A n \in Names(svc[s]), t \in TypeNames : Made(s, svc[s], n, t)
    /\ \A e \in EndpointNames : ep[e].owner = svc[s].uid => e \in Wanted(s)

\* Nothing will make the controller look at s again: it is neither at work
\* nor queued, and the informers have nothing to tell about it.
Quiet(s) ==
    /\ current # s /\ s \notin queue /\ svcCache[s] = svc[s]
    /\ \A e \in EndpointNames : e[1] = s => e \notin noticed /\ epCache[e] = ep[e]

\* What is then there stays, so it must be what the spec asks for: no event
\* was missed and no error given up on, whatever happened before, to this
\* service, to its endpoints and to the controller.
RestMeansRouted == \A s \in Services : svc[s].life = "live" /\ Quiet(s) => Routed(s)

\* Once users are done, every routable service has, and keeps, exactly the
\* endpoints its spec asks for, whatever was changed, deleted, recreated or
\* interrupted before.
RoutesConverge == <>[](\A s \in Services : Routable(s) => Routed(s))

\* A service that is gone leaves no generated endpoint behind.
RoutesFollowService ==
    <>[](\A s \in Services : svc[s].life = "none" =>
            \A e \in EndpointNames : e[1] = s => ep[e].route = "none")

\* The endpoint of another project under a wanted name is never rewritten,
\* also when the cache still shows the one it has replaced.
OtherProjectsNotRewritten ==
    [][\A e \in EndpointNames :
          ep[e].project = "other" => ep'[e] \in {ep[e], NoEndpoint}]_vars

-----------------------------------------------------------------------------
(* What the proofs need besides.                                           *)

\* A UID is paid for when it is handed out.
UidsPaid == uids + budget <= Budget

\* Only an endpoint that exists belongs to another project.
ForeignLive == \A e \in EndpointNames : ep[e].project = "other" => ep[e].life = "live"

RoutingInv == TypeOK /\ UidsPaid /\ ForeignLive

\* s has, or had, the UID u, or an endpoint of s has it as owner.
Holds(s, u) ==
    \/ svc[s].uid = u \/ svcCache[s].uid = u
    \/ current = s /\ seen.uid = u
    \/ \E e \in EndpointNames : e[1] = s /\ (ep[e].owner = u \/ epCache[e].owner = u)

\* No two services have had the same UID.
UidsApart ==
    \A s, r \in Services, u \in 1 .. Budget : Holds(s, u) => u <= uids /\ (Holds(r, u) => r = s)

LiveHasUid ==
    /\ \A s \in Services : svc[s].life = "live" => svc[s].uid # 0
    /\ \A s \in Services : svcCache[s].life = "live" => svcCache[s].uid # 0
    /\ pc # "idle" => seen.uid # 0

\* The informer will report e, and its service will be queued then.
EventDue(e) == e \in noticed \/ (epCache[e].owner # 0 /\ epCache[e] # ep[e])

\* No endpoint has an owner the informer does not know of.
OwnersNoticed ==
    \A e \in EndpointNames : e \in noticed \/ epCache[e].owner # 0 \/ ep[e].owner = 0

\* What a pass over version o of s has achieved, pairs in todo and endpoints
\* in excess aside: where it is not so any more an event is due.
Upheld(s, o, todo, excess) ==
    /\ \A n \in Names(o), t \in TypeNames :
          <<n, t>> \in todo \/ EventDue(EndpointName(s, n, t)) \/ Made(s, o, n, t)
    /\ \A e \in EndpointNames :
          ep[e].owner = o.uid => e \in WantedBy(s, o) \cup excess \/ EventDue(e)

Todo == {work[i] : i \in DOMAIN work}

\* The pass under way, unless its service is queued anyway.
PassUpheld ==
    /\ pc = "prune" => work = <<>>
    /\ \A e \in stale : e[1] = current /\ e \notin WantedBy(current, seen)
    /\ pc # "idle" /\ current \notin queue =>
          /\ seen = svcCache[current]
          /\ Upheld(current, seen, Todo, IF pc = "apply" THEN EndpointNames ELSE stale)

\* The passes that are over.
ServicesUpheld ==
    \A s \in Services \ (queue \cup {current}) :
        svcCache[s].life = "live" => Upheld(s, svcCache[s], {}, {})

RestInv ==
    RoutingInv /\ UidsApart /\ LiveHasUid /\ OwnersNoticed /\ PassUpheld /\ ServicesUpheld
=============================================================================
