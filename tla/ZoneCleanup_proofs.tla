------------------------- MODULE ZoneCleanup_proofs -------------------------
(***************************************************************************)
(* Theorems about ZoneCleanup, for all zones, overlaps, endpoints and      *)
(* budgets.                                                                *)
(***************************************************************************)
EXTENDS ZoneCleanup, TLAPS

USE DEF apiVars, cacheVars, workerVars, vars

-----------------------------------------------------------------------------
(* Type correctness.                                                       *)

\* The objects users and the reconciler write.
LEMMA ObjectTypes ==
    /\ AbsentZone \in ZoneObject
    /\ AbsentEndpoint \in EndpointObject
    /\ \A o \in ZoneObject : /\ Stored(o) \in ZoneObject
                             /\ [o EXCEPT !.life = "terminating"] \in ZoneObject
                             /\ [o EXCEPT !.held = "no"] \in ZoneObject
                             /\ [o EXCEPT !.fin = "off"] \in ZoneObject
                             /\ [o EXCEPT !.fin = "on"] \in ZoneObject
                             /\ [o EXCEPT !.status = "Healthy"] \in ZoneObject
    /\ \A o \in EndpointObject : Deleted(o) \in EndpointObject
<1>1. AbsentZone \in ZoneObject
  BY DEF AbsentZone, ZoneObject
<1>2. AbsentEndpoint \in EndpointObject
  BY DEF AbsentEndpoint, EndpointObject
<1> QED BY <1>1, <1>2 DEF ZoneObject, EndpointObject, Stored, Deleted

LEMMA InitTypeOK == Init => TypeOK
BY ObjectTypes, BudgetAssumption DEF Init, TypeOK

\* What the end of a pass leaves behind.
PassEnds(z) ==
    /\ pc' = "idle" /\ current' = NoZone /\ seen' = AbsentZone /\ todo' = {}
    /\ queue' \subseteq queue \cup {z}

LEMMA EndTypes ==
    ASSUME TypeOK, NEW z \in Zones, NEW o \in ZoneObject, PassEnds(z),
           zone' = zone \/ zone' = [zone EXCEPT ![z] = o],
           budget' = budget \/ Spend,
           UNCHANGED <<project, ep, cacheVars>>
    PROVE  TypeOK'
<1>1. zone' \in [Zones -> ZoneObject]
  BY DEF TypeOK
<1>2. budget' \in 0 .. Budget
  BY BudgetAssumption DEF Spend, TypeOK
<1> QED BY <1>1, <1>2, ObjectTypes DEF PassEnds, TypeOK

LEMMA UsersTypeOK ==
    ASSUME TypeOK,
           \/ DeleteProject \/ Resync
           \/ \E z \in Zones : CreateZone(z) \/ DeleteZone(z) \/ ReleaseZone(z) \/ ZoneEvent(z)
           \/ \E e \in Endpoints, z \in Zones : CreateEndpoint(e, z) \/ RetargetEndpoint(e, z)
           \/ \E e \in Endpoints : DeleteEndpoint(e) \/ ReleaseEndpoint(e) \/ EndpointEvent(e)
    PROVE  TypeOK'
<1>0. Spend => budget' \in 0 .. Budget
  BY BudgetAssumption DEF Spend, TypeOK
<1>1. ASSUME DeleteProject \/ Resync PROVE TypeOK'
  BY <1>0, <1>1 DEF DeleteProject, Resync, TypeOK
<1>2. ASSUME NEW z \in Zones, CreateZone(z) PROVE TypeOK'
  <2>1. \A h \in {"no", "yes"} : [AbsentZone EXCEPT !.life = "live", !.held = h] \in ZoneObject
    BY DEF AbsentZone, ZoneObject
  <2>2. zone' \in [Zones -> ZoneObject]
    BY <1>2, <2>1 DEF CreateZone, Held, TypeOK
  <2> QED BY <1>0, <1>2, <2>2 DEF CreateZone, TypeOK
<1>3. ASSUME NEW z \in Zones, DeleteZone(z) \/ ReleaseZone(z) PROVE TypeOK'
  <2>1. zone[z] \in ZoneObject
    BY DEF TypeOK
  <2>2. /\ Stored([zone[z] EXCEPT !.life = "terminating"]) \in ZoneObject
        /\ Stored([zone[z] EXCEPT !.held = "no"]) \in ZoneObject
    BY <2>1, ObjectTypes
  <2>3. zone' \in [Zones -> ZoneObject]
    BY <1>3, <2>2 DEF DeleteZone, ReleaseZone, TypeOK
  <2> QED BY <1>0, <1>3, <2>3 DEF DeleteZone, ReleaseZone, TypeOK
<1>4. ASSUME NEW z \in Zones, ZoneEvent(z) PROVE TypeOK'
  BY <1>4 DEF ZoneEvent, TypeOK
<1>5. ASSUME NEW e \in Endpoints, NEW o \in EndpointObject, SetEndpoint(e, o) PROVE TypeOK'
  BY <1>0, <1>5 DEF SetEndpoint, TypeOK
<1>6. ASSUME NEW e \in Endpoints, NEW z \in Zones, CreateEndpoint(e, z) \/ RetargetEndpoint(e, z)
      PROVE  TypeOK'
  <2>1. ep[e] \in EndpointObject
    BY DEF TypeOK
  <2>2. [ep[e] EXCEPT !.zone = z] \in EndpointObject
    BY <2>1 DEF EndpointObject
  <2>3. \A h \in {"no", "yes"} : [life |-> "live", zone |-> z, held |-> h] \in EndpointObject
    BY DEF EndpointObject
  <2> QED BY <1>5, <1>6, <2>2, <2>3 DEF CreateEndpoint, RetargetEndpoint, Held
<1>7. ASSUME NEW e \in Endpoints, DeleteEndpoint(e) PROVE TypeOK'
  <2>1. ep[e] \in EndpointObject
    BY DEF TypeOK
  <2> QED BY <1>5, <1>7, <2>1, ObjectTypes DEF DeleteEndpoint
<1>8. ASSUME NEW e \in Endpoints, ReleaseEndpoint(e) \/ EndpointEvent(e) PROVE TypeOK'
  BY <1>8, ObjectTypes DEF ReleaseEndpoint, EndpointEvent, TypeOK
<1> QED BY <1>1, <1>2, <1>3, <1>4, <1>6, <1>7, <1>8

LEMMA ReconcilerTypeOK ==
    ASSUME TypeOK, ReconcileStep \/ CallFails \/ Restart
    PROVE  TypeOK'
<1>0. Spend => budget' \in 0 .. Budget
  BY BudgetAssumption DEF Spend, TypeOK
<1>1. pc # "idle" => current \in Zones
  BY DEF TypeOK
<1>2. ASSUME NEW z \in Zones, ReconcileNothing(z) PROVE TypeOK'
  BY <1>2, EndTypes, ObjectTypes DEF ReconcileNothing, Return, Waiting, PassEnds
<1>3. ASSUME NEW z \in Zones, ReconcilePending(z) PROVE TypeOK'
  BY <1>3, ZonesAssumption DEF ReconcilePending, CachedEndpoints, TypeOK
<1>12. ASSUME NEW z \in Zones, ReconcileListEmpty(z) PROVE TypeOK'
  BY <1>12, ZonesAssumption DEF ReconcileListEmpty, TypeOK
<1>4. ASSUME ReconcileRelease PROVE TypeOK'
  <2>1. Stored([seen EXCEPT !.fin = "off"]) \in ZoneObject /\ current \in Zones
    BY <1>1, <1>4, ObjectTypes DEF ReconcileRelease, TypeOK
  <2> QED BY <1>4, <2>1, EndTypes DEF ReconcileRelease, WriteZone, Answer, Return, Waiting, PassEnds
<1>5. ASSUME NEW z \in Zones, ReconcileFinalizer(z) PROVE TypeOK'
  <2> DEFINE new == [zoneCache[z] EXCEPT !.fin = "on"]
  <2>1. zoneCache[z] \in ZoneObject
    BY DEF TypeOK
  <2>2. new \in ZoneObject
    BY <2>1, ObjectTypes
  <2>3. CASE Updates(z, zoneCache[z]) /\ zoneCache[z].status # "Healthy"
    <3>1. /\ zone' = [zone EXCEPT ![z] = new]
          /\ pc' = "status" /\ current' = z /\ seen' = new /\ queue' = queue \ {z}
          /\ UNCHANGED <<project, ep, cacheVars, todo, budget>>
      BY <1>5, <2>3 DEF ReconcileFinalizer, WriteZone
    <3> HIDE DEF new
    <3> QED BY <2>2, <3>1, ZonesAssumption DEF TypeOK
  <2>4. CASE ~ (Updates(z, zoneCache[z]) /\ zoneCache[z].status # "Healthy")
    BY <1>5, <2>2, <2>4, EndTypes DEF ReconcileFinalizer, WriteZone, Answer, Return, Waiting, PassEnds
  <2> QED BY <2>3, <2>4
<1>6. ASSUME NEW z \in Zones, ReconcileHealthy(z) PROVE TypeOK'
  <2>1. zoneCache[z] \in ZoneObject
    BY DEF TypeOK
  <2>2. [zoneCache[z] EXCEPT !.status = "Healthy"] \in ZoneObject
    BY <2>1, ObjectTypes
  <2> QED BY <1>6, <2>2, EndTypes DEF ReconcileHealthy, WriteZone, Answer, Return, Waiting, PassEnds
<1>7. ASSUME NEW e \in Endpoints, ReconcileDelete(e) PROVE TypeOK'
  BY <1>7, ObjectTypes DEF ReconcileDelete, TypeOK
<1>8. ASSUME ReconcileRequeue PROVE TypeOK'
  BY <1>1, <1>8, EndTypes, ObjectTypes DEF ReconcileRequeue, Return, Waiting, PassEnds
<1>9. ASSUME ReconcileStatus PROVE TypeOK'
  <2>1. [seen EXCEPT !.status = "Healthy"] \in ZoneObject /\ current \in Zones
    BY <1>1, <1>9, ObjectTypes DEF ReconcileStatus, TypeOK
  <2> QED BY <1>9, <2>1, EndTypes DEF ReconcileStatus, WriteZone, Answer, Return, Waiting, PassEnds
<1>10. ASSUME CallFails PROVE TypeOK'
  BY <1>1, <1>10, EndTypes, ObjectTypes DEF CallFails, Return, Waiting, PassEnds
<1>11. ASSUME Restart PROVE TypeOK'
  BY <1>0, <1>11, ObjectTypes DEF Restart, TypeOK
<1> QED
  BY <1>2, <1>3, <1>4, <1>5, <1>6, <1>7, <1>8, <1>9, <1>10, <1>11, <1>12 DEF ReconcileStep

LEMMA TypeStep == TypeOK /\ [Next]_vars => TypeOK'
<1>1. ASSUME TypeOK, UNCHANGED vars PROVE TypeOK'
  BY <1>1 DEF TypeOK
<1> QED BY <1>1, UsersTypeOK, ReconcilerTypeOK DEF Next

\* Type correctness of the whole specification.
THEOREM TypeCorrect == Spec => []TypeOK
BY InitTypeOK, TypeStep, PTL DEF Spec

-----------------------------------------------------------------------------
(* What the worker holds.                                                  *)

\* Steps that touch neither the worker nor the stored zones nor the cache of
\* them.
Elsewhere ==
    \/ DeleteProject \/ UNCHANGED vars
    \/ \E e \in Endpoints, z \in Zones : CreateEndpoint(e, z) \/ RetargetEndpoint(e, z)
    \/ \E e \in Endpoints : DeleteEndpoint(e) \/ ReleaseEndpoint(e) \/ EndpointEvent(e)

LEMMA ElsewhereKeeps ==
    ASSUME Elsewhere PROVE UNCHANGED <<zone, zoneCache, queue, workerVars>>
BY DEF Elsewhere, DeleteProject, CreateEndpoint, RetargetEndpoint, DeleteEndpoint, SetEndpoint,
       ReleaseEndpoint, EndpointEvent

\* Steps that end a pass over zone z.
Ends(z) ==
    \/ ReconcileNothing(z) \/ ReconcileHealthy(z)
    \/ ReconcileFinalizer(z) /\ pc' # "status"
    \/ current = z /\ (ReconcileRequeue \/ ReconcileRelease \/ ReconcileStatus \/ CallFails)

LEMMA EndsKeep ==
    ASSUME TypeOK, NEW z \in Zones, Ends(z)
    PROVE  /\ pc' = "idle" /\ current' = NoZone
           /\ zoneCache' = zoneCache
           /\ Engaged(z)
           /\ \A y \in Zones : y # z => zone'[y] = zone[y]
           /\ \A y \in Zones : y # z => (y \in queue' <=> y \in queue)
<1>1. CASE ReconcileNothing(z)
  BY <1>1 DEF ReconcileNothing, Return, Waiting, Engaged
<1>2. CASE ReconcileHealthy(z)
  BY <1>2 DEF ReconcileHealthy, WriteZone, Answer, Return, Waiting, Engaged, TypeOK
<1>3. CASE ReconcileFinalizer(z) /\ pc' # "status"
  BY <1>3 DEF ReconcileFinalizer, WriteZone, Answer, Return, Waiting, Engaged, TypeOK
<1>4. CASE current = z /\ (ReconcileRequeue \/ CallFails)
  BY <1>4 DEF ReconcileRequeue, CallFails, Return, Waiting, Engaged
<1>5. CASE current = z /\ (ReconcileRelease \/ ReconcileStatus)
  BY <1>5 DEF ReconcileRelease, ReconcileStatus, WriteZone, Answer, Return, Waiting, Engaged, TypeOK
<1> QED BY <1>1, <1>2, <1>3, <1>4, <1>5 DEF Ends

\* Every step of the specification, by what it does to the worker.
LEMMA Steps ==
    ASSUME TypeOK, [Next]_vars
    PROVE  \/ Elsewhere
           \/ \E z \in Zones : Ends(z)
           \/ \E z \in Zones : CreateZone(z) \/ DeleteZone(z) \/ ReleaseZone(z) \/ ZoneEvent(z)
           \/ \E z \in Zones : ReconcilePending(z) \/ ReconcileListEmpty(z)
           \/ \E z \in Zones : ReconcileFinalizer(z) /\ pc' = "status"
           \/ \E e \in Endpoints : ReconcileDelete(e)
           \/ Resync
           \/ Restart
<1>1. pc # "idle" => current \in Zones
  BY DEF TypeOK
<1>2. ReconcileRequeue \/ ReconcileRelease \/ ReconcileStatus \/ CallFails => pc # "idle"
  BY DEF ReconcileRequeue, ReconcileRelease, ReconcileStatus, CallFails
<1> QED BY <1>1, <1>2 DEF Next, ReconcileStep, Elsewhere, Ends

\* The pass that goes on to the status has just put the finalizer on.
LEMMA StatusBegins ==
    ASSUME TypeOK, NEW z \in Zones, ReconcileFinalizer(z), pc' = "status"
    PROVE  /\ current' = z /\ queue' = queue \ {z} /\ z \in queue
           /\ zoneCache' = zoneCache
           /\ zoneCache[z].life = "live" /\ zoneCache[z].fin = "off"
           /\ seen' = [zoneCache[z] EXCEPT !.fin = "on"]
           /\ zone[z] = zoneCache[z]
           /\ zone' = [zone EXCEPT ![z] = seen']
<1>1. Updates(z, zoneCache[z]) /\ zoneCache[z].status # "Healthy"
  BY DEF ReconcileFinalizer, Answer, Return
<1> QED BY <1>1 DEF ReconcileFinalizer, WriteZone, Updates

LEMMA WorkerStep ==
    ASSUME TypeOK, WorkerKnows, [Next]_vars
    PROVE  WorkerKnows'
<1>1. CASE Elsewhere
  BY <1>1, ElsewhereKeeps DEF WorkerKnows
<1>2. ASSUME NEW z \in Zones, Ends(z) PROVE WorkerKnows'
  BY <1>2, EndsKeep DEF WorkerKnows
<1>3. ASSUME NEW z \in Zones, CreateZone(z) \/ DeleteZone(z) \/ ReleaseZone(z) PROVE WorkerKnows'
  BY <1>3 DEF CreateZone, DeleteZone, ReleaseZone, WorkerKnows
<1>4. ASSUME NEW z \in Zones, ZoneEvent(z) PROVE WorkerKnows'
  <2>1. UNCHANGED workerVars /\ queue' = queue \cup {z}
        /\ \A y \in Zones : y # z => zoneCache'[y] = zoneCache[y]
    BY <1>4 DEF ZoneEvent, TypeOK
  <2>2. pc # "idle" => current \in Zones
    BY DEF TypeOK
  <2> QED BY <2>1, <2>2 DEF WorkerKnows
<1>5. ASSUME NEW z \in Zones, ReconcilePending(z) \/ ReconcileListEmpty(z) PROVE WorkerKnows'
  BY <1>5 DEF ReconcilePending, ReconcileListEmpty, WorkerKnows
<1>6. ASSUME NEW z \in Zones, ReconcileFinalizer(z), pc' = "status" PROVE WorkerKnows'
  <2>1. zoneCache[z] \in ZoneObject
    BY DEF TypeOK
  <2>2. seen'.life = "live" /\ seen'.fin = "on"
    BY <1>6, <2>1, StatusBegins DEF ZoneObject
  <2> QED BY <1>6, <2>2, StatusBegins DEF WorkerKnows
<1>7. ASSUME NEW e \in Endpoints, ReconcileDelete(e) PROVE WorkerKnows'
  BY <1>7 DEF ReconcileDelete, WorkerKnows
<1>8. CASE Resync
  BY <1>8 DEF Resync, WorkerKnows
<1>9. CASE Restart
  BY <1>9 DEF Restart, WorkerKnows
<1> QED BY <1>1, <1>2, <1>3, <1>4, <1>5, <1>6, <1>7, <1>8, <1>9, Steps

-----------------------------------------------------------------------------
(* The reconciler rests only when it is done.                              *)

\* Whoever else changes a zone that is left alone, what the reconciler wrote
\* to it stays.
LEMMA OthersKeepWritten ==
    ASSUME TypeOK, NEW z \in Zones, NEW y \in Zones,
           CreateZone(z) \/ DeleteZone(z) \/ ReleaseZone(z),
           Written(zoneCache[y], zone[y])
    PROVE  Written(zoneCache[y], zone'[y])
<1>0. zone[y] \in ZoneObject
  BY DEF TypeOK
<1>1. CASE y # z
  BY <1>1 DEF CreateZone, DeleteZone, ReleaseZone, TypeOK
<1>2. CASE y = z /\ CreateZone(z)
  <2>1. zone[z].life = "none" /\ zone'[z].fin = "off"
    BY <1>2 DEF CreateZone, AbsentZone, TypeOK
  <2> QED BY <1>2, <2>1 DEF Written
<1>3. CASE y = z /\ DeleteZone(z)
  <2>1. zone'[z] = Stored([zone[z] EXCEPT !.life = "terminating"])
    BY <1>3 DEF DeleteZone, TypeOK
  <2>2. /\ zone'[z].fin = zone[z].fin
        /\ zone[z].fin = "on" => zone'[z].life # "none" /\ zone'[z].status = zone[z].status
    BY <1>0, <1>3, <2>1 DEF Stored, AbsentZone, ZoneObject
  <2> QED BY <1>3, <2>2 DEF Written
<1>4. CASE y = z /\ ReleaseZone(z)
  <2>1. zone'[z] = Stored([zone[z] EXCEPT !.held = "no"]) /\ zone[z].life = "terminating"
    BY <1>4 DEF ReleaseZone, TypeOK
  <2>2. /\ zone'[z].fin = zone[z].fin
        /\ zone[z].fin = "on" => zone'[z].life # "none" /\ zone'[z].status = zone[z].status
    BY <1>0, <1>4, <2>1 DEF Stored, AbsentZone, ZoneObject
  <2> QED BY <1>4, <2>2 DEF Written
<1> QED BY <1>1, <1>2, <1>3, <1>4

\* The pass forgets a zone only when nothing was to do or its write was
\* accepted.
LEMMA EndsWritten ==
    ASSUME TypeOK, WorkerKnows, NEW z \in Zones, Ends(z), ~ Engaged(z)'
    PROVE  Written(zoneCache'[z], zone'[z])
<1>0. zoneCache[z] \in ZoneObject /\ seen \in ZoneObject
  BY DEF TypeOK
<1>1. CASE ReconcileNothing(z)
  BY <1>1 DEF ReconcileNothing, Written
<1>2. CASE ReconcileHealthy(z)
  <2>1. zone[z] = zoneCache[z]
    BY <1>2 DEF ReconcileHealthy, Answer, Return, Waiting, Engaged, UpdatesStatus
  <2>2. zone'[z] = [zoneCache[z] EXCEPT !.status = "Healthy"]
    BY <1>2, <2>1 DEF ReconcileHealthy, WriteZone, UpdatesStatus, TypeOK
  <2> QED BY <1>0, <1>2, <2>2 DEF ReconcileHealthy, Written, ZoneObject
<1>3. CASE ReconcileFinalizer(z) /\ pc' # "status"
  <2>1. Updates(z, zoneCache[z])
    BY <1>3 DEF ReconcileFinalizer, Answer, Return, Waiting, Engaged
  <2>2. zone'[z] = [zoneCache[z] EXCEPT !.fin = "on"]
    BY <1>3, <2>1 DEF ReconcileFinalizer, WriteZone, TypeOK
  <2> QED BY <1>0, <1>3, <2>2 DEF ReconcileFinalizer, Written, ZoneObject
<1>4. CASE current = z /\ (ReconcileRequeue \/ CallFails)
  BY <1>4 DEF ReconcileRequeue, CallFails, Return, Engaged
<1>5. CASE current = z /\ ReconcileRelease
  <2>1. Updates(z, seen) /\ z \notin queue
    BY <1>5 DEF ReconcileRelease, Answer, Return, Waiting, Engaged
  <2>2. zone'[z] = Stored([seen EXCEPT !.fin = "off"])
    BY <1>5, <2>1 DEF ReconcileRelease, WriteZone, TypeOK
  <2>3. zone'[z].fin = "off"
    BY <1>0, <2>2 DEF Stored, AbsentZone, ZoneObject
  <2>4. UnderCleanup(zoneCache[z]) /\ zoneCache' = zoneCache
    BY <1>5, <2>1 DEF ReconcileRelease, WorkerKnows
  <2> QED BY <2>3, <2>4 DEF Written
<1>6. CASE current = z /\ ReconcileStatus
  <2>1. UpdatesStatus(z, seen) /\ z \notin queue
    BY <1>6 DEF ReconcileStatus, Answer, Return, Waiting, Engaged
  <2>2. zone'[z] = [seen EXCEPT !.status = "Healthy"]
    BY <1>6, <2>1 DEF ReconcileStatus, WriteZone, TypeOK
  <2>3. /\ zoneCache[z].life = "live" /\ zoneCache[z].fin = "off" /\ zoneCache' = zoneCache
        /\ seen.life = "live" /\ seen.fin = "on"
    BY <1>6, <2>1 DEF ReconcileStatus, WorkerKnows
  <2> QED BY <1>0, <2>2, <2>3 DEF Written, ZoneObject
<1> QED BY <1>1, <1>2, <1>3, <1>4, <1>5, <1>6 DEF Ends

LEMMA RestStep ==
    ASSUME RestInv, [Next]_vars
    PROVE  RestInv'
<1> USE DEF RestInv
<1>0. TypeOK' /\ WorkerKnows'
  BY TypeStep, WorkerStep
<1> SUFFICES ASSUME NEW y \in Zones, ~ Engaged(y)' PROVE Written(zoneCache'[y], zone'[y])
  BY <1>0 DEF RestKnown
<1>1. ~ Engaged(y) => Written(zoneCache[y], zone[y])
  BY DEF RestKnown
<1>2. CASE Elsewhere
  BY <1>1, <1>2, ElsewhereKeeps DEF Engaged
<1>3. ASSUME NEW z \in Zones, Ends(z) PROVE Written(zoneCache'[y], zone'[y])
  <2>1. CASE y = z
    BY <1>3, <2>1, EndsWritten
  <2>2. CASE y # z
    <3>1. ~ Engaged(y)
      <4>1. y \notin queue
        BY <1>3, <2>2, EndsKeep DEF Engaged
      <4>2. current # y
        BY <1>3, <2>2, <4>1, ZonesAssumption
        DEF Ends, ReconcileNothing, ReconcileHealthy, ReconcileFinalizer, TypeOK
      <4> QED BY <4>1, <4>2 DEF Engaged
    <3> QED BY <1>1, <1>3, <2>2, <3>1, EndsKeep
  <2> QED BY <2>1, <2>2
<1>4. ASSUME NEW z \in Zones, CreateZone(z) \/ DeleteZone(z) \/ ReleaseZone(z)
      PROVE  Written(zoneCache'[y], zone'[y])
  <2>1. ~ Engaged(y) /\ zoneCache' = zoneCache
    BY <1>4 DEF CreateZone, DeleteZone, ReleaseZone, Engaged
  <2> QED BY <1>1, <1>4, <2>1, OthersKeepWritten
<1>5. ASSUME NEW z \in Zones, ZoneEvent(z) PROVE Written(zoneCache'[y], zone'[y])
  BY <1>1, <1>5 DEF ZoneEvent, Engaged, TypeOK
<1>6. ASSUME NEW z \in Zones, ReconcilePending(z) \/ ReconcileListEmpty(z)
      PROVE  Written(zoneCache'[y], zone'[y])
  BY <1>1, <1>6, ZonesAssumption DEF ReconcilePending, ReconcileListEmpty, Engaged, TypeOK
<1>7. ASSUME NEW z \in Zones, ReconcileFinalizer(z), pc' = "status"
      PROVE  Written(zoneCache'[y], zone'[y])
  <2>1. y # z /\ y \notin queue /\ zoneCache' = zoneCache /\ zone'[y] = zone[y]
    BY <1>7, StatusBegins DEF Engaged, TypeOK
  <2>2. current # y
    BY <1>7, ZonesAssumption DEF ReconcileFinalizer, TypeOK
  <2> QED BY <1>1, <2>1, <2>2 DEF Engaged
<1>8. ASSUME NEW e \in Endpoints, ReconcileDelete(e) PROVE Written(zoneCache'[y], zone'[y])
  BY <1>1, <1>8 DEF ReconcileDelete, Engaged
<1>9. CASE Resync
  BY <1>1, <1>9 DEF Resync, Engaged
<1>10. CASE Restart
  BY <1>10 DEF Restart, Engaged, Written, Settled
<1> QED BY <1>2, <1>3, <1>4, <1>5, <1>6, <1>7, <1>8, <1>9, <1>10, Steps

\* Whatever fails, is refused or stays unanswered, and however late the
\* informer is: the reconciler leaves a zone alone only when the zone is as
\* it should be or an event of it is still to come.
THEOREM RestReconciled == Spec => []RestMeansReconciled
<1>1. Init => RestInv
  BY InitTypeOK DEF Init, RestInv, WorkerKnows, RestKnown, Written, Settled, AbsentZone
<1>2. RestInv /\ [Next]_vars => RestInv'
  BY RestStep
<1>3. RestInv => RestMeansReconciled
  BY DEF RestInv, RestKnown, RestMeansReconciled, Written, UnderCleanup
<1> QED BY <1>1, <1>2, <1>3, PTL DEF Spec

-----------------------------------------------------------------------------
(* Cleanups are only of deleted zones.                                     *)

\* A zone under cleanup stays as it is, but for the finalizer of somebody
\* else, until the reconciler releases it.
LEMMA CleanupEnds ==
    ASSUME TypeOK, WorkerKnows, [Next]_vars, NEW z \in Zones, UnderCleanup(zone[z])
    PROVE  \/ zone'[z] = zone[z]
           \/ zone[z].held = "yes" /\ zone'[z] = [zone[z] EXCEPT !.held = "no"]
           \/ current = z /\ ReconcileRelease /\ Updates(z, seen)
<1> USE DEF UnderCleanup
<1>0. zone[z] \in ZoneObject
  BY DEF TypeOK
<1>1. CASE Elsewhere
  BY <1>1, ElsewhereKeeps
<1>2. ASSUME NEW y \in Zones, Ends(y)
      PROVE  zone'[z] = zone[z] \/ (current = z /\ ReconcileRelease /\ Updates(z, seen))
  <2>1. CASE y # z
    BY <1>2, <2>1, EndsKeep
  <2>2. CASE ReconcileNothing(y) \/ ReconcileRequeue \/ CallFails
    BY <2>2 DEF ReconcileNothing, ReconcileRequeue, CallFails
  <2>3. CASE ReconcileHealthy(y) \/ ReconcileFinalizer(y)
    BY <2>3 DEF ReconcileFinalizer, ReconcileHealthy, WriteZone, Updates, UpdatesStatus, TypeOK
  <2>4. CASE y = z /\ current = y /\ ReconcileRelease
    BY <2>4 DEF ReconcileRelease, WriteZone
  <2>5. CASE y = z /\ current = y /\ ReconcileStatus
    <3>1. ~ UpdatesStatus(z, seen)
      BY <2>5 DEF ReconcileStatus, UpdatesStatus, WorkerKnows
    <3> QED BY <2>5, <3>1 DEF ReconcileStatus, WriteZone
  <2> QED BY <1>2, <2>1, <2>2, <2>3, <2>4, <2>5 DEF Ends
<1>3. ASSUME NEW y \in Zones, CreateZone(y) \/ DeleteZone(y) \/ ZoneEvent(y) PROVE zone'[z] = zone[z]
  BY <1>3 DEF CreateZone, DeleteZone, ZoneEvent, TypeOK
<1>4. ASSUME NEW y \in Zones, ReleaseZone(y)
      PROVE  \/ zone'[z] = zone[z]
             \/ zone[z].held = "yes" /\ zone'[z] = [zone[z] EXCEPT !.held = "no"]
  <2>1. CASE y # z
    BY <1>4, <2>1 DEF ReleaseZone, TypeOK
  <2>2. CASE y = z
    BY <1>0, <1>4, <2>2 DEF ReleaseZone, Stored, TypeOK, ZoneObject
  <2> QED BY <2>1, <2>2
<1>5. ASSUME NEW y \in Zones, ReconcilePending(y) \/ ReconcileListEmpty(y) PROVE zone' = zone
  BY <1>5 DEF ReconcilePending, ReconcileListEmpty
<1>6. ASSUME NEW y \in Zones, ReconcileFinalizer(y), pc' = "status" PROVE zone'[z] = zone[z]
  BY <1>6, StatusBegins DEF TypeOK
<1>7. ASSUME Resync \/ Restart \/ \E e \in Endpoints : ReconcileDelete(e) PROVE zone' = zone
  BY <1>7 DEF Resync, Restart, ReconcileDelete
<1> QED BY <1>1, <1>2, <1>3, <1>4, <1>5, <1>6, <1>7, Steps

\* As long as it lasts, what was seen of it follows.
LEMMA FollowsKept ==
    ASSUME NEW o \in ZoneObject, NEW new, NEW v, Follows(o, v),
           new = o \/ (o.held = "yes" /\ new = [o EXCEPT !.held = "no"])
    PROVE  Follows(new, v)
BY DEF Follows, UnderCleanup, ZoneObject

\* How a zone comes to be engaged, and how the view of it changes.
LEMMA EngagedChange ==
    ASSUME TypeOK, "resync" \notin UserActions, [Next]_vars, NEW z \in Zones, Engaged(z)'
    PROVE  \/ Engaged(z) /\ zoneCache'[z] = zoneCache[z]
           \/ zoneCache'[z] = zone[z] /\ zone' = zone
<1> USE ZonesAssumption DEF Engaged
<1>1. CASE Elsewhere
  BY <1>1, ElsewhereKeeps
<1>2. ASSUME NEW y \in Zones, Ends(y) PROVE Engaged(z) /\ zoneCache'[z] = zoneCache[z]
  BY <1>2, EndsKeep
<1>3. ASSUME NEW y \in Zones, CreateZone(y) \/ DeleteZone(y) \/ ReleaseZone(y)
      PROVE  Engaged(z) /\ zoneCache'[z] = zoneCache[z]
  BY <1>3 DEF CreateZone, DeleteZone, ReleaseZone
<1>4. ASSUME NEW y \in Zones, ZoneEvent(y)
      PROVE  \/ Engaged(z) /\ zoneCache'[z] = zoneCache[z]
             \/ zoneCache'[z] = zone[z] /\ zone' = zone
  BY <1>4 DEF ZoneEvent, TypeOK
<1>5. ASSUME NEW y \in Zones, ReconcilePending(y) \/ ReconcileListEmpty(y)
      PROVE  Engaged(z) /\ zoneCache'[z] = zoneCache[z]
  BY <1>5 DEF ReconcilePending, ReconcileListEmpty
<1>6. ASSUME NEW y \in Zones, ReconcileFinalizer(y), pc' = "status"
      PROVE  Engaged(z) /\ zoneCache'[z] = zoneCache[z]
  BY <1>6, StatusBegins
<1>7. ASSUME NEW e \in Endpoints, ReconcileDelete(e) PROVE Engaged(z) /\ zoneCache'[z] = zoneCache[z]
  BY <1>7 DEF ReconcileDelete
<1>8. ~ Resync
  BY DEF Resync
<1>9. ASSUME Restart PROVE zoneCache'[z] = zone[z] /\ zone' = zone
  BY <1>9 DEF Restart
<1> QED BY <1>1, <1>2, <1>3, <1>4, <1>5, <1>6, <1>7, <1>8, <1>9, Steps

\* A release whose answer is not lost forgets the zone.
LEMMA ReleaseForgets ==
    ASSUME "lost" \notin UserActions, CleanupsKnown, ReconcileRelease,
           NEW z \in Zones, current = z, Updates(z, seen)
    PROVE  ~ Engaged(z)' /\ pc' = "idle"
<1>1. Return(z, FALSE) /\ pc = "releasing"
  BY DEF ReconcileRelease, Answer
<1>2. z \notin queue
  BY <1>1 DEF Updates, CleanupsKnown
<1> QED BY <1>1, <1>2, ZonesAssumption DEF Return, Waiting, Engaged

\* A cleanup pass begins with the view of the zone.
LEMMA PassBegins ==
    ASSUME TypeOK, [Next]_vars, pc' \in {"deleting", "releasing"}
    PROVE  \/ pc' = pc /\ current' = current /\ seen' = seen
           \/ \E z \in Zones : /\ ReconcilePending(z) \/ ReconcileListEmpty(z)
                               /\ current' = z /\ z \in queue /\ zone' = zone
                               /\ queue' = queue \ {z}
                               /\ UnderCleanup(zoneCache[z])
                               /\ pc' = "releasing" => seen' = zoneCache[z]
<1>1. CASE Elsewhere
  BY <1>1, ElsewhereKeeps
<1>2. ASSUME NEW z \in Zones, Ends(z) PROVE FALSE
  BY <1>2, EndsKeep
<1>3. ASSUME NEW z \in Zones, CreateZone(z) \/ DeleteZone(z) \/ ReleaseZone(z) \/ ZoneEvent(z)
      PROVE  UNCHANGED workerVars
  BY <1>3 DEF CreateZone, DeleteZone, ReleaseZone, ZoneEvent
<1>4. ASSUME NEW z \in Zones, ReconcilePending(z) \/ ReconcileListEmpty(z)
      PROVE  /\ current' = z /\ z \in queue /\ zone' = zone /\ queue' = queue \ {z}
             /\ UnderCleanup(zoneCache[z])
             /\ pc' = "releasing" => seen' = zoneCache[z]
  BY <1>4 DEF ReconcilePending, ReconcileListEmpty
<1>5. ASSUME NEW e \in Endpoints, ReconcileDelete(e) PROVE UNCHANGED <<pc, current, seen>>
  BY <1>5 DEF ReconcileDelete
<1>6. ASSUME Resync PROVE UNCHANGED workerVars
  BY <1>6 DEF Resync
<1>7. ~ Restart
  BY DEF Restart
<1> QED BY <1>1, <1>2, <1>3, <1>4, <1>5, <1>6, <1>7, Steps

\* While a release is under way the key comes back only with news of the
\* zone.
LEMMA QueuedMeansNews ==
    ASSUME "resync" \notin UserActions, CleanupInv, [Next]_vars,
           pc = "releasing", pc' = "releasing", current' = current, seen' = seen,
           current \in queue'
    PROVE  zone[current] # seen
<1> USE DEF CleanupInv
<1>1. CASE current \in queue
  BY <1>1 DEF CleanupsKnown
<1>2. CASE current \notin queue
  <2>1. zoneCache[current] = seen /\ current \in Zones
    BY <1>2 DEF WorkerKnows, TypeOK
  <2>2. ASSUME NEW z \in Zones, ZoneEvent(z) PROVE zone[current] # seen
    BY <1>2, <2>1, <2>2 DEF ZoneEvent
  <2>3. ASSUME NEW z \in Zones, \/ CreateZone(z) \/ DeleteZone(z) \/ ReleaseZone(z)
                                \/ ReconcilePending(z) \/ ReconcileListEmpty(z)
        PROVE  FALSE
    BY <1>2, <2>3 DEF CreateZone, DeleteZone, ReleaseZone, ReconcilePending, ReconcileListEmpty
  <2>4. ASSUME NEW z \in Zones, ReconcileFinalizer(z), pc' = "status" PROVE FALSE
    BY <2>4
  <2>5. ASSUME NEW z \in Zones, Ends(z) PROVE FALSE
    BY <2>5, EndsKeep
  <2>6. ~ Elsewhere
    BY <1>2, ElsewhereKeeps
  <2>7. ~ Resync /\ ~ Restart /\ ~ \E e \in Endpoints : ReconcileDelete(e)
    BY DEF Resync, Restart, ReconcileDelete
  <2> QED BY <2>2, <2>3, <2>4, <2>5, <2>6, <2>7, Steps
<1> QED BY <1>1, <1>2

LEMMA CleanupStep ==
    ASSUME "lost" \notin UserActions, "resync" \notin UserActions, CleanupInv, [Next]_vars
    PROVE  CleanupInv'
<1> USE DEF CleanupInv
<1>0. TypeOK' /\ WorkerKnows'
  BY TypeStep, WorkerStep
<1>1. ASSUME NEW z \in Zones, NEW v, Follows(zone[z], v),
             ~ (current = z /\ ReconcileRelease /\ Updates(z, seen))
      PROVE  Follows(zone'[z], v)
  <2>1. zone[z] \in ZoneObject
    BY DEF TypeOK
  <2>2. \/ zone'[z] = zone[z]
        \/ zone[z].held = "yes" /\ zone'[z] = [zone[z] EXCEPT !.held = "no"]
    BY <1>1, CleanupEnds DEF Follows
  <2> HIDE DEF CleanupInv
  <2> QED BY <1>1, <2>1, <2>2, FollowsKept
<1>2. ASSUME NEW z \in Zones, Engaged(z)', UnderCleanup(zoneCache'[z])
      PROVE  Follows(zone'[z], zoneCache'[z])
  <2>1. CASE zoneCache'[z] = zone[z] /\ zone' = zone
    BY <1>2, <2>1 DEF Follows
  <2>2. CASE Engaged(z) /\ zoneCache'[z] = zoneCache[z]
    <3>1. Follows(zone[z], zoneCache[z])
      BY <1>2, <2>2 DEF CleanupsKnown
    <3> QED BY <1>1, <1>2, <2>2, <3>1, ReleaseForgets
  <2> QED BY <1>2, <2>1, <2>2, EngagedChange
<1>3. ASSUME pc' = "deleting" PROVE UnderCleanup(zone'[current'])
  <2>1. CASE pc = "deleting" /\ current' = current
    <3>1. current \in Zones /\ UnderCleanup(zone[current]) /\ ~ ReconcileRelease
      BY <2>1 DEF CleanupsKnown, TypeOK, ReconcileRelease
    <3>2. Follows(zone[current], zone[current])
      BY <3>1 DEF Follows
    <3> QED BY <1>1, <2>1, <3>1, <3>2 DEF Follows
  <2>2. ASSUME NEW z \in Zones, current' = z, z \in queue, UnderCleanup(zoneCache[z]), zone' = zone
        PROVE  UnderCleanup(zone'[current'])
    BY <2>2 DEF CleanupsKnown, Engaged, Follows
  <2> QED BY <1>3, <2>1, <2>2, PassBegins
<1>4. ASSUME pc' = "releasing"
      PROVE  /\ Follows(zone'[current'], seen')
             /\ current' \in queue' => zone'[current'] # seen'
  <2>1. CASE pc = "releasing" /\ current' = current /\ seen' = seen
    <3>1. current \in Zones /\ Follows(zone[current], seen) /\ UnderCleanup(seen)
      BY <2>1 DEF CleanupsKnown, WorkerKnows, TypeOK
    <3>2. ~ (ReconcileRelease /\ Updates(current, seen))
      BY <1>4, <3>1, ReleaseForgets
    <3>3. Follows(zone'[current], seen)
      BY <1>1, <3>1, <3>2
    <3>5. ASSUME current \in queue' PROVE zone'[current] # seen
      <4>1. zone[current] # seen
        BY <1>4, <2>1, <3>5, QueuedMeansNews
      <4>2. zone[current].held = "no" \/ zone'[current] = zone[current]
        <5>1. zone[current] \in ZoneObject /\ seen \in ZoneObject
          BY <3>1 DEF TypeOK
        <5>2. zone[current].held = "yes" => zone[current] = seen
          BY <3>1, <5>1 DEF Follows, UnderCleanup, ZoneObject
        <5> QED BY <4>1, <5>1, <5>2 DEF ZoneObject
      <4>3. zone[current].held = "no" => zone'[current] = zone[current]
        BY <3>1, <3>2, CleanupEnds DEF Follows
      <4> QED BY <4>1, <4>2, <4>3
    <3> QED BY <2>1, <3>3, <3>5
  <2>2. ASSUME NEW z \in Zones, current' = z, z \in queue, UnderCleanup(zoneCache[z]), zone' = zone,
               queue' = queue \ {z}, seen' = zoneCache[z]
        PROVE  Follows(zone'[current'], seen') /\ current' \notin queue'
    BY <2>2 DEF CleanupsKnown, Engaged
  <2> QED BY <1>4, <2>1, <2>2, PassBegins
<1>5. CleanupsKnown'
  BY <1>2, <1>3, <1>4 DEF CleanupsKnown, UnderCleanup, Follows
<1> QED BY <1>0, <1>5

\* As long as no answer of the API server is lost and no resync repeats what
\* the cache still shows, the reconciler never sweeps the endpoints of a live
\* zone: what it knows of the zone it cleans up after is still true, however
\* late the informer is.
THEOREM CleanupOfDeleted ==
    ASSUME "lost" \notin UserActions, "resync" \notin UserActions
    PROVE  Spec => []CleanupOnlyOfDeletedZones
<1>1. Init => CleanupInv
  BY InitTypeOK, ZonesAssumption DEF Init, CleanupInv, WorkerKnows, CleanupsKnown, Engaged
<1>2. CleanupInv /\ [Next]_vars => CleanupInv'
  BY CleanupStep
<1>3. CleanupInv => CleanupOnlyOfDeletedZones
  BY DEF CleanupInv, CleanupsKnown, UnderCleanup, CleanupOnlyOfDeletedZones
<1> QED BY <1>1, <1>2, <1>3, PTL DEF Spec
=============================================================================
