---------------------------- MODULE ZoneCleanup ----------------------------
(***************************************************************************)
(* The Zone reconciler (internal/controller/zone_controller.go): it puts   *)
(* the cleanup finalizer on zones, marks them Healthy and, when a zone is  *)
(* deleted, deletes the DNSEndpoints that name it before it lets the zone  *)
(* go.  Reads come from the manager's informer cache, which lags behind    *)
(* the API server per object; writes go to the API server, through the     *)
(* admission webhooks.  Users and the service routing controller create,   *)
(* retarget and delete endpoints; users delete projects.                   *)
(***************************************************************************)
EXTENDS Naturals, FiniteSets

CONSTANTS
    Zones,        \* zone names of one namespace
    NoZone,
    Overlap,      \* pairs {y, z} of zones that the zone webhook finds overlapping
    Endpoints,    \* DNSEndpoint names of that namespace
    Budget,       \* bound on the steps of users and on failures
    UserActions   \* what the surroundings do besides creating and deleting zones

ASSUME BudgetAssumption == Budget \in Nat
ASSUME ZonesAssumption == NoZone \notin Zones
ASSUME ActionsAssumption ==
    UserActions \subseteq {"create", "retarget", "delete", "hold", "project", "lost", "resync"}

VARIABLES
    project,    \* API server: is the project of the zones there?
    zone,       \* API server: zone objects
    ep,         \* API server: endpoint objects
    zoneCache,  \* the informer's view of the zones ...
    epCache,    \* ... and of the endpoints
    queue,      \* zones to reconcile
    pc,         \* the reconciler's worker: next step
    current,    \* the zone it works on
    seen,       \* the zone object it holds
    todo,       \* endpoints it has yet to delete
    budget

vars == <<project, zone, ep, zoneCache, epCache, queue, pc, current, seen, todo, budget>>
apiVars    == <<project, zone, ep>>
cacheVars  == <<zoneCache, epCache>>
workerVars == <<pc, current, seen, todo>>

\* life: "none" is no object.  fin: the cleanup finalizer.  held: a finalizer
\* of somebody else.
ZoneObject == [life : {"none", "live", "terminating"}, fin : {"off", "on"},
               held : {"no", "yes"}, status : {"unset", "Healthy"}]
AbsentZone == [life |-> "none", fin |-> "off", held |-> "no", status |-> "unset"]

EndpointObject == [life : {"none", "live", "terminating"}, zone : Zones \cup {NoZone},
                   held : {"no", "yes"}]
AbsentEndpoint == [life |-> "none", zone |-> NoZone, held |-> "no"]

TypeOK ==
    /\ project \in {"present", "gone"}
    /\ zone \in [Zones -> ZoneObject]
    /\ ep \in [Endpoints -> EndpointObject]
    /\ zoneCache \in [Zones -> ZoneObject]
    /\ epCache \in [Endpoints -> EndpointObject]
    /\ queue \subseteq Zones
    /\ pc \in {"idle", "deleting", "releasing", "status"}
    /\ current \in Zones \cup {NoZone}
    /\ (pc = "idle") <=> (current = NoZone)
    /\ seen \in ZoneObject
    /\ todo \subseteq Endpoints
    /\ budget \in 0 .. Budget

Init ==
    /\ project = "present"
    /\ zone = [z \in Zones |-> AbsentZone]
    /\ ep = [e \in Endpoints |-> AbsentEndpoint]
    /\ zoneCache = zone
    /\ epCache = ep
    /\ queue = {}
    /\ pc = "idle"
    /\ current = NoZone
    /\ seen = AbsentZone
    /\ todo = {}
    /\ budget = Budget

Spend == budget > 0 /\ budget' = budget - 1

-----------------------------------------------------------------------------
(* Admission and users.                                                    *)

\* Every create and update of a zone, the reconciler's own included, passes
\* the tenancy webhook (the project is read from the API server) and the
\* zone webhook (the other zones are read from the cache, live or not).
AdmitZone(z) ==
    /\ project = "present"
    /\ \A y \in Zones \ {z} : zoneCache[y].life # "none" => {y, z} \notin Overlap

DeleteProject ==
    /\ "project" \in UserActions
    /\ project = "present"
    /\ project' = "gone"
    /\ Spend
    /\ UNCHANGED <<zone, ep, cacheVars, queue, workerVars>>

Held == IF "hold" \in UserActions THEN {"no", "yes"} ELSE {"no"}

CreateZone(z) ==
    /\ zone[z].life = "none"
    /\ AdmitZone(z)
    /\ \E h \in Held :
          zone' = [zone EXCEPT ![z] = [AbsentZone EXCEPT !.life = "live", !.held = h]]
    /\ Spend
    /\ UNCHANGED <<project, ep, cacheVars, queue, workerVars>>

\* The API server keeps a deleted object as long as it has finalizers.
Stored(o) ==
    IF o.life = "terminating" /\ o.fin = "off" /\ o.held = "no" THEN AbsentZone ELSE o

\* No webhook sees the deletion: the Zone webhook is registered for create
\* and update.
DeleteZone(z) ==
    /\ zone[z].life = "live"
    /\ zone' = [zone EXCEPT ![z] = Stored([@ EXCEPT !.life = "terminating"])]
    /\ Spend
    /\ UNCHANGED <<project, ep, cacheVars, queue, workerVars>>

\* The owner of a zone's other finalizer finishes its own cleanup.
ReleaseZone(z) ==
    /\ zone[z].life = "terminating" /\ zone[z].held = "yes"
    /\ AdmitZone(z)
    /\ zone' = [zone EXCEPT ![z] = Stored([@ EXCEPT !.held = "no"])]
    /\ UNCHANGED <<project, ep, cacheVars, queue, workerVars, budget>>

\* The tenancy webhook resolves spec.zone of an endpoint at the API server;
\* a terminating zone is still found.
AdmitEndpoint(z) == project = "present" /\ zone[z].life # "none"

SetEndpoint(e, o) ==
    /\ ep' = [ep EXCEPT ![e] = o]
    /\ Spend
    /\ UNCHANGED <<project, zone, cacheVars, queue, workerVars>>

CreateEndpoint(e, z) ==
    /\ "create" \in UserActions
    /\ ep[e].life = "none"
    /\ AdmitEndpoint(z)
    /\ \E h \in Held : SetEndpoint(e, [life |-> "live", zone |-> z, held |-> h])

RetargetEndpoint(e, z) ==
    /\ "retarget" \in UserActions
    /\ ep[e].life = "live"
    /\ ep[e].zone # z
    /\ AdmitEndpoint(z)
    /\ SetEndpoint(e, [ep[e] EXCEPT !.zone = z])

Deleted(o) == IF o.held = "yes" THEN [o EXCEPT !.life = "terminating"] ELSE AbsentEndpoint

DeleteEndpoint(e) ==
    /\ "delete" \in UserActions
    /\ ep[e].life = "live"
    /\ SetEndpoint(e, Deleted(ep[e]))

\* The owner of an endpoint's finalizer finishes its own cleanup.
ReleaseEndpoint(e) ==
    /\ ep[e].life = "terminating"
    /\ ep' = [ep EXCEPT ![e] = AbsentEndpoint]
    /\ UNCHANGED <<project, zone, cacheVars, queue, workerVars, budget>>

-----------------------------------------------------------------------------
(* Informers.  Only zones are watched by the controller.                   *)

ZoneEvent(z) ==
    /\ zoneCache[z] # zone[z]
    /\ zoneCache' = [zoneCache EXCEPT ![z] = zone[z]]
    /\ queue' = queue \cup {z}
    /\ UNCHANGED <<apiVars, epCache, workerVars, budget>>

\* The informer hands every zone it knows to the controller again, as it has
\* it in the cache (the manager's SyncPeriod).
Resync ==
    /\ "resync" \in UserActions
    /\ queue' = queue \cup {z \in Zones : zoneCache[z].life # "none"}
    /\ Spend
    /\ UNCHANGED <<apiVars, cacheVars, workerVars>>

EndpointEvent(e) ==
    /\ epCache[e] # ep[e]
    /\ epCache' = [epCache EXCEPT ![e] = ep[e]]
    /\ UNCHANGED <<apiVars, zoneCache, queue, workerVars, budget>>

-----------------------------------------------------------------------------
(* Reconcile.                                                              *)

\* A pass takes its key off the queue when it begins; an event puts it back
\* for another pass.
Waiting(z) == IF pc = "idle" THEN queue \ {z} ELSE queue

\* The pass is over; again: the key is queued again (an error, or
\* RequeueAfter).
Return_AlwaysAgain(z, again) ==
    /\ pc' = "idle"
    /\ current' = NoZone
    /\ seen' = AbsentZone
    /\ todo' = {}
    /\ queue' = queue \cup {z}

Return_KeepsKey(z, again) ==
    /\ pc' = "idle"
    /\ current' = z
    /\ seen' = AbsentZone
    /\ todo' = {}
    /\ queue' = Waiting(z) \cup (IF again THEN {z} ELSE {})

Return(z, again) ==
    /\ pc' = "idle"
    /\ current' = NoZone
    /\ seen' = AbsentZone
    /\ todo' = {}
    /\ queue' = Waiting(z) \cup (IF again THEN {z} ELSE {})

\* A write with the resourceVersion of the object held is refused, with an
\* error, when the object has changed on the server; an update also when
\* admission denies it (the webhooks do not cover the status subresource).
Updates(z, held)      == zone[z] = held /\ AdmitZone(z)
UpdatesStatus(z, held) == zone[z] = held

WriteZone(z, accepted, new) ==
    IF accepted THEN zone' = [zone EXCEPT ![z] = new] ELSE UNCHANGED zone

\* The pass ends with the answer to its write: done, refused, or applied with
\* the answer lost on the way, which the reconciler takes for an error.
Answer_RefusedIsDone(z, accepted) ==
    \/ Return(z, FALSE) /\ UNCHANGED budget
    \/ "lost" \in UserActions /\ accepted /\ Return(z, TRUE) /\ Spend

Answer(z, accepted) ==
    \/ Return(z, ~ accepted) /\ UNCHANGED budget
    \/ "lost" \in UserActions /\ accepted /\ Return(z, TRUE) /\ Spend

\* Endpoints the cache shows for a zone.
CachedEndpoints(z) == {e \in Endpoints : epCache[e].life # "none" /\ epCache[e].zone = z}

\* A deleted zone that waits for our finalizer.
UnderCleanup(o) == o.life = "terminating" /\ o.fin = "on"

\* A zone that is not there, is terminating without our finalizer, or has all
\* it needs.
Settled(o) ==
    \/ o.life = "none"
    \/ o.life = "terminating" /\ o.fin = "off"
    \/ o.life = "live" /\ o.fin = "on" /\ o.status = "Healthy"

\* Reconcile of a zone of which there is nothing to do.
ReconcileNothing(z) ==
    /\ pc = "idle" /\ z \in queue
    /\ Settled(zoneCache[z])
    /\ Return(z, FALSE)
    /\ UNCHANGED <<apiVars, cacheVars, budget>>

\* Reconcile of a terminating zone: list the endpoints; some are left.
ReconcilePending(z) ==
    /\ pc = "idle" /\ z \in queue
    /\ UnderCleanup(zoneCache[z])
    /\ CachedEndpoints(z) # {}
    /\ pc' = "deleting"
    /\ current' = z
    /\ todo' = {e \in CachedEndpoints(z) : epCache[e].life = "live"}
    /\ queue' = queue \ {z}
    /\ UNCHANGED <<apiVars, cacheVars, seen, budget>>

\* One Delete of the loop, by name; NotFound is ignored.
ReconcileDelete(e) ==
    /\ pc = "deleting"
    /\ e \in todo
    /\ ep' = [ep EXCEPT ![e] = IF @.life = "none" THEN @ ELSE Deleted(@)]
    /\ todo' = todo \ {e}
    /\ UNCHANGED <<project, zone, cacheVars, queue, pc, current, seen, budget>>

\* The loop is done, endpoints were pending: RequeueAfter.
ReconcileRequeue_Forgets ==
    /\ pc = "deleting" /\ todo = {}
    /\ Return(current, FALSE)
    /\ UNCHANGED <<apiVars, cacheVars, budget>>

ReconcileRequeue ==
    /\ pc = "deleting" /\ todo = {}
    /\ Return(current, TRUE)
    /\ UNCHANGED <<apiVars, cacheVars, budget>>

\* Reconcile of a terminating zone: no endpoint is listed any more, ...
ReconcileListEmpty(z) ==
    /\ pc = "idle" /\ z \in queue
    /\ UnderCleanup(zoneCache[z])
    /\ CachedEndpoints(z) = {}
    /\ pc' = "releasing"
    /\ current' = z
    /\ seen' = zoneCache[z]
    /\ queue' = queue \ {z}
    /\ UNCHANGED <<apiVars, cacheVars, todo, budget>>

\* ... so the finalizer is removed, whatever the caches have learnt since.
ReconcileRelease ==
    /\ pc = "releasing"
    /\ WriteZone(current, Updates(current, seen), Stored([seen EXCEPT !.fin = "off"]))
    /\ Answer(current, Updates(current, seen))
    /\ UNCHANGED <<project, ep, cacheVars>>

\* A live zone: add the finalizer if it is missing ...
ReconcileFinalizer(z) ==
    LET held == zoneCache[z]
        new  == [held EXCEPT !.fin = "on"]
    IN
    /\ pc = "idle" /\ z \in queue
    /\ held.life = "live" /\ held.fin = "off"
    /\ WriteZone(z, Updates(z, held), new)
    /\ IF Updates(z, held) /\ held.status # "Healthy"
       THEN /\ pc' = "status" /\ current' = z /\ seen' = new
            /\ queue' = queue \ {z}
            /\ UNCHANGED <<todo, budget>>
       ELSE Answer(z, Updates(z, held))
    /\ UNCHANGED <<project, ep, cacheVars>>

\* ... and set the status, of the object just updated or of the cached one.
ReconcileStatus ==
    /\ pc = "status"
    /\ WriteZone(current, UpdatesStatus(current, seen), [seen EXCEPT !.status = "Healthy"])
    /\ Answer(current, UpdatesStatus(current, seen))
    /\ UNCHANGED <<project, ep, cacheVars>>

ReconcileHealthy_Skip(z) ==
    LET held == zoneCache[z] IN
    /\ pc = "idle" /\ z \in queue
    /\ held.life = "live" /\ held.fin = "on" /\ held.status # "Healthy"
    /\ Return(z, FALSE)
    /\ UNCHANGED <<apiVars, cacheVars, budget>>

ReconcileHealthy(z) ==
    LET held == zoneCache[z] IN
    /\ pc = "idle" /\ z \in queue
    /\ held.life = "live" /\ held.fin = "on" /\ held.status # "Healthy"
    /\ WriteZone(z, UpdatesStatus(z, held), [held EXCEPT !.status = "Healthy"])
    /\ Answer(z, UpdatesStatus(z, held))
    /\ UNCHANGED <<project, ep, cacheVars>>

\* A call fails in the middle of a pass: the error queues the key again.
CallFails ==
    /\ pc # "idle"
    /\ Return(current, TRUE)
    /\ Spend
    /\ UNCHANGED <<apiVars, cacheVars>>

\* The process restarts: caches are listed anew and every zone is queued.
Restart ==
    /\ zoneCache' = zone
    /\ epCache' = ep
    /\ queue' = {z \in Zones : zone[z].life # "none"}
    /\ pc' = "idle"
    /\ current' = NoZone
    /\ seen' = AbsentZone
    /\ todo' = {}
    /\ Spend
    /\ UNCHANGED apiVars

-----------------------------------------------------------------------------
ReconcileStep ==
    \/ \E z \in Zones :
          \/ ReconcileNothing(z)
          \/ ReconcilePending(z)
          \/ ReconcileListEmpty(z)
          \/ ReconcileFinalizer(z)
          \/ ReconcileHealthy(z)
    \/ \E e \in Endpoints : ReconcileDelete(e)
    \/ ReconcileRequeue
    \/ ReconcileRelease
    \/ ReconcileStatus

Next ==
    \/ DeleteProject
    \/ \E z \in Zones : CreateZone(z) \/ DeleteZone(z) \/ ReleaseZone(z) \/ ZoneEvent(z)
    \/ \E e \in Endpoints, z \in Zones : CreateEndpoint(e, z) \/ RetargetEndpoint(e, z)
    \/ \E e \in Endpoints : DeleteEndpoint(e) \/ ReleaseEndpoint(e) \/ EndpointEvent(e)
    \/ ReconcileStep
    \/ CallFails
    \/ Resync
    \/ Restart

\* Informers and the worker run on, every queued zone gets its turn, and
\* whoever holds a deleted zone or endpoint lets it go.
Fairness ==
    /\ \A z \in Zones : WF_vars(ZoneEvent(z)) /\ WF_vars(ReleaseZone(z))
    /\ \A e \in Endpoints : WF_vars(EndpointEvent(e)) /\ WF_vars(ReleaseEndpoint(e))
    /\ WF_vars(ReconcileStep)
    /\ \A z \in Zones :
          SF_vars(\/ ReconcileNothing(z) \/ ReconcilePending(z) \/ ReconcileListEmpty(z)
                  \/ ReconcileFinalizer(z) \/ ReconcileHealthy(z))

Spec == Init /\ [][Next]_vars
FairSpec == Spec /\ Fairness

-----------------------------------------------------------------------------
(* What is promised.                                                       *)

\* A zone that is deleted goes away in the end: the cleanup never waits for
\* an event that does not come (the controller does not watch endpoints).
ZoneDeletionCompletes ==
    \A z \in Zones : (zone[z].life = "terminating") ~> (zone[z].life # "terminating")

\* A zone that stays gets its finalizer and its status.
ZonesBecomeHealthy ==
    \A z \in Zones :
        <>[](zone[z].life = "live") => <>(zone[z].fin = "on" /\ zone[z].status = "Healthy")

\* The reconciler has the zone on its queue or in its hands.
Engaged(z) == z \in queue \/ current = z

\* The reconciler rests only when it is done: a zone that is neither queued
\* nor in its hands, and of which the cache is up to date, has its finalizer
\* and its status or has been let go.  No refused, failed or unanswered write
\* is forgotten, and no event is lost to a pass that is under way.
RestMeansReconciled ==
    \A z \in Zones : ~ Engaged(z) /\ zoneCache[z] = zone[z] => Settled(zone[z])

\* Endpoints are only swept away for a zone that is deleted: as long as no
\* answer of the API server is lost and no resync repeats what the cache
\* still shows, a pass never works from the leftovers of a deleted zone on the
\* endpoints of a zone created again under its name.
CleanupOnlyOfDeletedZones == pc = "deleting" => zone[current].life # "live"

-----------------------------------------------------------------------------
(* What the code does not uphold, because lists come from a cache and the  *)
(* deletion of an endpoint is not conditional on what was listed.          *)

\* No two zones of which one is a subdomain of the other exist together.
NoOverlappingZones ==
    \A y, z \in Zones :
        y # z /\ {y, z} \in Overlap => zone[y].life = "none" \/ zone[z].life = "none"

\* The finalizer of a zone is removed only after its endpoints are gone from
\* the cluster.
FinalizerWaitsForEndpoints ==
    [][\A z \in Zones :
          zone[z].life = "terminating" /\ zone[z].fin = "on" /\ zone'[z].fin = "off"
              => \A e \in Endpoints : ~ (ep[e].life # "none" /\ ep[e].zone = z)]_vars

\* The cleanup of a zone deletes no endpoint of another zone.
UnrelatedEndpointsKept ==
    [][\A e \in Endpoints :
          ReconcileDelete(e) /\ ep[e].life = "live" => ep[e].zone = current]_vars

-----------------------------------------------------------------------------
(* Inductive strengthening of the invariants, for the proofs.              *)

\* o is what became of a zone under cleanup that was seen as v.
Follows(o, v) == UnderCleanup(o) /\ o.status = v.status /\ (o.held = "yes" => v.held = "yes")

\* Only the reconciler ends a cleanup, and it then forgets the key until the
\* informer has news of the zone: what it sees under cleanup still is.
CleanupsKnown ==
    /\ \A z \in Zones :
          Engaged(z) /\ UnderCleanup(zoneCache[z]) => Follows(zone[z], zoneCache[z])
    /\ pc = "deleting" => UnderCleanup(zone[current])
    /\ pc = "releasing" => /\ Follows(zone[current], seen)
                           /\ current \in queue => zone[current] # seen

\* What the worker holds, and that the cache has not moved on since it began
\* unless the key is queued.
WorkerKnows ==
    /\ pc = "releasing" =>
          /\ UnderCleanup(seen)
          /\ current \notin queue => zoneCache[current] = seen
    /\ pc = "status" =>
          /\ seen.life = "live" /\ seen.fin = "on"
          /\ current \notin queue => zoneCache[current].life = "live"
                                      /\ zoneCache[current].fin = "off"

\* A zone left alone is settled, or the reconciler has written to it what the
\* cache will tell: c is the cached zone, o the stored one.
Written(c, o) ==
    \/ Settled(c)
    \/ c.life = "live" /\ c.fin = "off" /\ o.life # "none" /\ o.fin = "on"
    \/ /\ c.life = "live" /\ c.fin = "on" /\ c.status # "Healthy"
       /\ o.life # "none" /\ o.fin = "on" /\ o.status = "Healthy"
    \/ UnderCleanup(c) /\ o.fin = "off"

RestKnown == \A z \in Zones : ~ Engaged(z) => Written(zoneCache[z], zone[z])

RestInv    == TypeOK /\ WorkerKnows /\ RestKnown
CleanupInv == TypeOK /\ WorkerKnows /\ CleanupsKnown
=============================================================================
