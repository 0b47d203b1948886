----------------------- MODULE ServiceRouting_proofs -----------------------
EXTENDS ServiceRouting, TLAPS

USE DEF apiVars, cacheVars, queueVars, workerVars

\* The two nested loops over names and record types visit pairs only: the
\* index into the names stays within them.
LEMMA QuotientInRange ==
    ASSUME NEW k \in Nat, k > 0, NEW l \in Nat, NEW i \in 1 .. k * l
    PROVE  /\ ((i - 1) \div k) + 1 \in 1 .. l
           /\ ((i - 1) % k) + 1 \in 1 .. k
<1> DEFINE q == (i - 1) \div k
           r == (i - 1) % k
<1>1. k * l \in Nat /\ i - 1 \in Nat /\ i - 1 < k * l  OBVIOUS
<1>2. q \in Nat /\ r \in 0 .. k - 1 /\ i - 1 = k * q + r  BY <1>1
<1> HIDE DEF q, r
<1>3. k * q < k * l
  <2>1. k * q \in Nat  BY <1>2
  <2> QED BY <2>1, <1>1, <1>2
<1>4. q < l
  <2>1. SUFFICES ASSUME l <= q PROVE FALSE  BY <1>2
  <2>2. PICK d \in Nat : q = l + d
    <3>1. q - l \in Nat /\ q = l + (q - l)  BY <1>2, <2>1
    <3> QED BY <3>1
  <2>3. k * q = k * l + k * d /\ k * d \in Nat  BY <1>2, <2>2
  <2> QED BY <2>3, <1>1, <1>3
<1> QED BY <1>2, <1>4 DEF q, r

LEMMA PairsType ==
    ASSUME NEW names \in Seq(DnsNames)
    PROVE  Pairs(names) \in Seq(DnsNames \X TypeNames)
<1> DEFINE k == Len(RecordTypes)
           l == Len(names)
           m == k * l
<1>1. k \in Nat /\ l \in Nat /\ m \in Nat  BY TypesAssumption
<1>2. SUFFICES ASSUME NEW i \in 1 .. m
               PROVE  <<names[((i - 1) \div k) + 1], RecordTypes[((i - 1) % k) + 1]>>
                         \in DnsNames \X TypeNames
  BY <1>1, SMT DEF Pairs
<1>3. k > 0  BY <1>1, <1>2
<1>4. ((i - 1) \div k) + 1 \in 1 .. l /\ ((i - 1) % k) + 1 \in 1 .. k
  BY <1>1, <1>2, <1>3, QuotientInRange
<1>5. \A j \in 1 .. l : names[j] \in DnsNames  OBVIOUS
<1>6. \A j \in 1 .. k : RecordTypes[j] \in TypeNames  BY TypesAssumption DEF TypeNames
<1> QED BY <1>4, <1>5, <1>6

-----------------------------------------------------------------------------
(* Type correctness, in parts.                                             *)

ObjectsOK ==
    /\ svc \in [Services -> ServiceObject] /\ svcCache \in [Services -> ServiceObject]
    /\ ep \in [EndpointNames -> EndpointObject] /\ epCache \in [EndpointNames -> EndpointObject]

SetsOK ==
    /\ zones \subseteq Zones /\ zoneCache \subseteq Zones
    /\ noticed \subseteq EndpointNames /\ queue \subseteq Services

WorkerOK ==
    /\ pc \in {"idle", "apply", "prune"}
    /\ current \in Services \cup {NoService}
    /\ (pc = "idle") <=> (current = NoService)
    /\ seen \in ServiceObject /\ seenZones \subseteq Zones
    /\ work \in Seq(DnsNames \X TypeNames)
    /\ stale \subseteq EndpointNames

CountersOK == uids \in 0 .. Budget /\ budget \in 0 .. Budget /\ UidsPaid

LEMMA TypeParts ==
    /\ TypeOK /\ UidsPaid <=> ObjectsOK /\ SetsOK /\ WorkerOK /\ CountersOK
    /\ (TypeOK /\ UidsPaid)' <=> ObjectsOK' /\ SetsOK' /\ WorkerOK' /\ CountersOK'
BY DEF TypeOK, ObjectsOK, SetsOK, WorkerOK, CountersOK

LEMMA EmptyObjects == NoServiceObject \in ServiceObject /\ NoEndpoint \in EndpointObject
BY BudgetAssumption DEF NoServiceObject, ServiceObject, NoEndpoint, EndpointObject

\* An endpoint name leads back to its service.
LEMMA NameOwner ==
    ASSUME NEW e \in EndpointNames
    PROVE  e[1] \in Services
BY DEF EndpointNames, EndpointName

\* While names are left to handle, the next one has an endpoint name of the
\* service at hand, and what is built for it, in a zone the pass has read,
\* is an endpoint of the own project.
LEMMA NextPair ==
    ASSUME WorkerOK, pc = "apply", work # <<>>
    PROVE  /\ Name \in DnsNames
           /\ Key \in EndpointNames
           /\ Tail(work) \in Seq(DnsNames \X TypeNames)
           /\ current \in Services
           /\ \A z \in BestZones(Name) :
                 /\ Desired(Name, z) \in EndpointObject
                 /\ Desired(Name, z).project = "own" /\ Desired(Name, z).life = "live"
<1>1. Head(work) \in DnsNames \X TypeNames /\ Tail(work) \in Seq(DnsNames \X TypeNames)
  BY DEF WorkerOK
<1>2. Name \in DnsNames /\ Head(work)[2] \in TypeNames  BY <1>1 DEF Name
<1>3. current \in Services  BY DEF WorkerOK
<1>4. Key \in EndpointNames  BY <1>2, <1>3 DEF Key, EndpointNames
<1>5. ASSUME NEW z \in BestZones(Name)
      PROVE  /\ Desired(Name, z) \in EndpointObject
             /\ Desired(Name, z).project = "own" /\ Desired(Name, z).life = "live"
  <2>1. z \in Zones  BY DEF BestZones, WorkerOK
  <2>2. seen.uid \in 0 .. Budget /\ seen.route \in Routes \cup {"none"}
    BY DEF WorkerOK, ServiceObject
  <2> QED BY <1>2, <2>1, <2>2 DEF Desired, EndpointObject
<1> QED BY <1>1, <1>2, <1>3, <1>4, <1>5

\* The end of a pass leaves an idle worker.
LEMMA ReturnType ==
    ASSUME SetsOK, WorkerOK, pc # "idle", NEW again \in BOOLEAN, Return(again)
    PROVE  WorkerOK' /\ queue' \subseteq Services
BY EmptyObjects DEF Return, WorkerOK, SetsOK

\* The endpoint of the next pair is written, over none or one of the own
\* project, and the loop goes on.
Written ==
    /\ \E d \in EndpointObject :
          /\ d.project = "own" /\ d.life = "live" /\ d.owner = seen.uid
          /\ ep' = [ep EXCEPT ![Key] = d]
    /\ Key \in EndpointNames /\ (ep[Key].life = "none" \/ ep[Key].project = "own")
    /\ work' = Tail(work) /\ noticed' = noticed \cup {Key}
    /\ UNCHANGED <<pc, current, seen, seenZones, stale, queue>>

\* What the steps of the loop do that try a write: either the pass ends, or
\* an endpoint of the own project is put in place of what was there.
LEMMA WriteEffect ==
    ASSUME SetsOK, WorkerOK, ObjectsOK, ReconcileCreate \/ ReconcileUpdate
    PROVE  /\ ObjectsOK' /\ SetsOK' /\ WorkerOK'
           /\ \/ Return(TRUE) /\ UNCHANGED <<ep, noticed>>
              \/ Written
           /\ pc = "apply" /\ work # <<>>
           /\ UNCHANGED <<svc, svcCache, epCache, uids, budget>>
<1>1. pc = "apply" /\ work # <<>> /\ UNCHANGED <<svc, zones, uids, cacheVars, budget>>
  BY DEF ReconcileCreate, ReconcileUpdate
<1>2. PICK z \in BestZones(Name) :
         \/ Write(Desired(Name, z), ep[Key].life = "none" /\ AdmitEndpoint(z))
         \/ /\ SameProject(Key)
            /\ Write(Desired(Name, z), ep[Key] = epCache[Key] /\ AdmitEndpoint(z))
  BY DEF ReconcileCreate, ReconcileUpdate
<1>3. \/ /\ ep' = [ep EXCEPT ![Key] = Desired(Name, z)]
         /\ work' = Tail(work)
         /\ noticed' = noticed \cup {Key}
         /\ UNCHANGED <<pc, current, seen, seenZones, stale, queue>>
         /\ \/ ep[Key].life = "none"
            \/ ep[Key].project = "own"
      \/ Return(TRUE) /\ UNCHANGED <<ep, noticed>>
  BY <1>2 DEF Write, SameProject
<1>4. CASE Return(TRUE) /\ UNCHANGED <<ep, noticed>>
  <2>1. WorkerOK' /\ queue' \subseteq Services  BY <1>1, <1>4, ReturnType
  <2> QED BY <2>1, <1>1, <1>4 DEF ObjectsOK, SetsOK
<1>5. CASE /\ ep' = [ep EXCEPT ![Key] = Desired(Name, z)]
           /\ work' = Tail(work)
           /\ noticed' = noticed \cup {Key}
           /\ UNCHANGED <<pc, current, seen, seenZones, stale, queue>>
           /\ \/ ep[Key].life = "none"
              \/ ep[Key].project = "own"
  <2>1. /\ Key \in EndpointNames /\ Tail(work) \in Seq(DnsNames \X TypeNames)
        /\ Desired(Name, z) \in EndpointObject
        /\ Desired(Name, z).project = "own" /\ Desired(Name, z).life = "live"
    BY <1>1, NextPair
  <2>0. Desired(Name, z).owner = seen.uid  BY DEF Desired
  <2>2. ObjectsOK'  BY <1>1, <1>5, <2>1 DEF ObjectsOK
  <2>3. SetsOK'  BY <1>1, <1>5, <2>1 DEF SetsOK
  <2>4. WorkerOK'  BY <1>5, <2>1 DEF WorkerOK
  <2>5. Written  BY <1>5, <2>0, <2>1 DEF Written
  <2> QED BY <1>1, <2>2, <2>3, <2>4, <2>5
<1> QED BY <1>3, <1>4, <1>5

\* What a step does to the endpoints: users make one where there was none, it
\* is deleted, or the controller writes its own where there was none or one
\* of the own project.
EndpointStep ==
    \/ ep' = ep
    \/ \E e \in EndpointNames, d \in EndpointObject :
          /\ ep' = [ep EXCEPT ![e] = d]
          /\ \/ d = NoEndpoint
             \/ ep[e].life = "none" /\ d.life = "live"
             \/ ep[e].project = "own" /\ d.project = "own"

LEMMA UserSteps ==
    ASSUME ObjectsOK, SetsOK, WorkerOK, CountersOK,
           \/ \E s \in Services :
                 \/ \E names \in Specs, route \in Routes :
                       CreateService(s, names, route) \/ UpdateService(s, names, route)
                 \/ DeleteService(s)
           \/ \E z \in Zones : CreateZone(z) \/ DeleteZone(z)
           \/ \E e \in EndpointNames :
                 \/ \E p \in {"own", "other"} : UserCreateEndpoint(e, p)
                 \/ UserDeleteEndpoint(e)
                 \/ CollectGarbage(e)
    PROVE  ObjectsOK' /\ SetsOK' /\ WorkerOK' /\ CountersOK' /\ EndpointStep
<1> USE EmptyObjects
<1>1. ASSUME NEW s \in Services, NEW names \in Specs, NEW route \in Routes,
             CreateService(s, names, route)
      PROVE  ObjectsOK' /\ SetsOK' /\ WorkerOK' /\ CountersOK' /\ EndpointStep
  <2>1. CountersOK' /\ uids + 1 \in 0 .. Budget
    BY <1>1, BudgetAssumption DEF CreateService, Spend, CountersOK, UidsPaid
  <2>2. [life |-> "live", uid |-> uids + 1, names |-> names, route |-> route] \in ServiceObject
    BY <2>1 DEF ServiceObject
  <2>3. ObjectsOK'  BY <1>1, <2>2 DEF CreateService, ObjectsOK
  <2>4. SetsOK' /\ WorkerOK'  BY <1>1 DEF CreateService, SetsOK, WorkerOK
  <2> QED BY <1>1, <2>1, <2>3, <2>4 DEF CreateService, EndpointStep
<1>2. ASSUME NEW s \in Services, NEW names \in Specs, NEW route \in Routes,
             UpdateService(s, names, route)
      PROVE  ObjectsOK' /\ SetsOK' /\ WorkerOK' /\ CountersOK' /\ EndpointStep
  <2>1. CountersOK'  BY <1>2, BudgetAssumption DEF UpdateService, Spend, CountersOK, UidsPaid
  <2> DEFINE new == [svc[s] EXCEPT !.names = names, !.route = route]
  <2>2. new \in ServiceObject  BY DEF ObjectsOK, ServiceObject
  <2>3. svc' = [svc EXCEPT ![s] = new] /\ UNCHANGED <<ep, svcCache, epCache>>
    BY <1>2 DEF UpdateService, ObjectsOK
  <2> HIDE DEF new
  <2>4. ObjectsOK'  BY <2>2, <2>3 DEF ObjectsOK
  <2>5. SetsOK' /\ WorkerOK'  BY <1>2 DEF UpdateService, SetsOK, WorkerOK
  <2> QED BY <1>2, <2>1, <2>4, <2>5 DEF UpdateService, EndpointStep
<1>3. ASSUME NEW s \in Services, DeleteService(s)
      PROVE  ObjectsOK' /\ SetsOK' /\ WorkerOK' /\ CountersOK' /\ EndpointStep
  <2>1. CountersOK'  BY <1>3, BudgetAssumption DEF DeleteService, Spend, CountersOK, UidsPaid
  <2>2. svc' = [svc EXCEPT ![s] = NoServiceObject] /\ UNCHANGED <<ep, svcCache, epCache>>
    BY <1>3 DEF DeleteService
  <2>3. ObjectsOK'  BY <2>2 DEF ObjectsOK
  <2>4. SetsOK' /\ WorkerOK'  BY <1>3 DEF DeleteService, SetsOK, WorkerOK
  <2> QED BY <1>3, <2>1, <2>3, <2>4 DEF DeleteService, EndpointStep
<1>4. ASSUME NEW z \in Zones, CreateZone(z) \/ DeleteZone(z)
      PROVE  ObjectsOK' /\ SetsOK' /\ WorkerOK' /\ CountersOK' /\ EndpointStep
  <2> USE <1>4 DEF CreateZone, DeleteZone
  <2>1. CountersOK'  BY BudgetAssumption DEF Spend, CountersOK, UidsPaid
  <2>2. ObjectsOK'  BY DEF ObjectsOK
  <2>3. SetsOK'  BY DEF SetsOK
  <2>4. WorkerOK'  BY DEF WorkerOK
  <2> QED BY <2>1, <2>2, <2>3, <2>4 DEF EndpointStep
<1>5. ASSUME NEW e \in EndpointNames,
             \/ \E p \in {"own", "other"} : UserCreateEndpoint(e, p)
             \/ UserDeleteEndpoint(e)
             \/ CollectGarbage(e)
      PROVE  ObjectsOK' /\ SetsOK' /\ WorkerOK' /\ CountersOK' /\ EndpointStep
  <2>1. CountersOK'
    BY <1>5, BudgetAssumption DEF UserCreateEndpoint, UserDeleteEndpoint, CollectGarbage,
                                  Spend, CountersOK, UidsPaid
  <2>2. \A p \in {"own", "other"} : [NoEndpoint EXCEPT !.life = "live", !.project = p] \in EndpointObject
                                    /\ [NoEndpoint EXCEPT !.life = "live", !.project = p].life = "live"
    BY DEF NoEndpoint, EndpointObject
  <2>3. PICK d \in EndpointObject :
           /\ ep' = [ep EXCEPT ![e] = d]
           /\ d = NoEndpoint \/ (ep[e].life = "none" /\ d.life = "live")
    BY <1>5, <2>2 DEF UserCreateEndpoint, UserDeleteEndpoint, CollectGarbage
  <2>4. UNCHANGED <<svc, zones, cacheVars, queueVars, workerVars>>
    BY <1>5 DEF UserCreateEndpoint, UserDeleteEndpoint, CollectGarbage
  <2>5. ObjectsOK'  BY <2>3, <2>4 DEF ObjectsOK
  <2>6. SetsOK' /\ WorkerOK'  BY <2>4 DEF SetsOK, WorkerOK
  <2> QED BY <2>1, <2>3, <2>5, <2>6 DEF EndpointStep
<1> QED BY <1>1, <1>2, <1>3, <1>4, <1>5

LEMMA InformerSteps ==
    ASSUME ObjectsOK, SetsOK, WorkerOK, CountersOK,
           \/ \E s \in Services : ServiceEvent(s)
           \/ \E z \in Zones : ZoneEvent(z)
           \/ \E e \in EndpointNames : EndpointEvent(e)
           \/ Restart
    PROVE  ObjectsOK' /\ SetsOK' /\ WorkerOK' /\ CountersOK' /\ EndpointStep
<1>1. ASSUME NEW s \in Services, ServiceEvent(s)
      PROVE  ObjectsOK' /\ SetsOK' /\ WorkerOK' /\ CountersOK' /\ EndpointStep
  <2> USE <1>1 DEF ServiceEvent
  <2>1. ObjectsOK'  BY DEF ObjectsOK
  <2>2. SetsOK'  BY DEF SetsOK
  <2>3. WorkerOK' /\ CountersOK'  BY DEF WorkerOK, CountersOK, UidsPaid
  <2> QED BY <2>1, <2>2, <2>3 DEF EndpointStep
<1>2. ASSUME NEW z \in Zones, ZoneEvent(z)
      PROVE  ObjectsOK' /\ SetsOK' /\ WorkerOK' /\ CountersOK' /\ EndpointStep
  <2> USE <1>2 DEF ZoneEvent
  <2>1. ObjectsOK'  BY DEF ObjectsOK
  <2>2. SetsOK'  BY DEF SetsOK
  <2>3. WorkerOK' /\ CountersOK'  BY DEF WorkerOK, CountersOK, UidsPaid
  <2> QED BY <2>1, <2>2, <2>3 DEF EndpointStep
<1>3. ASSUME NEW e \in EndpointNames, EndpointEvent(e)
      PROVE  ObjectsOK' /\ SetsOK' /\ WorkerOK' /\ CountersOK' /\ EndpointStep
  <2> USE <1>3 DEF EndpointEvent
  <2>1. ObjectsOK'  BY DEF ObjectsOK
  <2>2. SetsOK'  BY NameOwner DEF SetsOK
  <2>3. WorkerOK' /\ CountersOK'  BY DEF WorkerOK, CountersOK, UidsPaid
  <2> QED BY <2>1, <2>2, <2>3 DEF EndpointStep
<1>4. CASE Restart
  <2> USE <1>4 DEF Restart
  <2>1. ObjectsOK'  BY DEF ObjectsOK
  <2>2. SetsOK'  BY DEF SetsOK
  <2>3. WorkerOK'  BY EmptyObjects, NoServiceAssumption DEF WorkerOK
  <2>4. CountersOK'  BY BudgetAssumption DEF Spend, CountersOK, UidsPaid
  <2> QED BY <2>1, <2>2, <2>3, <2>4 DEF EndpointStep
<1> QED BY <1>1, <1>2, <1>3, <1>4

LEMMA WorkerSteps ==
    ASSUME ObjectsOK, SetsOK, WorkerOK, CountersOK,
           (\E s \in Services : ReconcileTake(s)) \/ ReconcileStep \/ CallFails
    PROVE  ObjectsOK' /\ SetsOK' /\ WorkerOK' /\ CountersOK' /\ EndpointStep
<1>1. ASSUME NEW s \in Services, ReconcileTake(s)
      PROVE  ObjectsOK' /\ SetsOK' /\ WorkerOK' /\ CountersOK' /\ EndpointStep
  <2> USE <1>1 DEF ReconcileTake, ReconcileGone, ReconcileBegin
  <2>1. ObjectsOK'  BY DEF ObjectsOK
  <2>2. SetsOK'  BY DEF SetsOK
  <2>3. CountersOK'  BY DEF CountersOK, UidsPaid
  <2>4. svcCache[s] \in ServiceObject /\ svcCache[s].names \in Seq(DnsNames)
    <3>1. svcCache[s] \in ServiceObject  BY DEF ObjectsOK
    <3>2. svcCache[s].names \in Specs \cup {<<>>}  BY <3>1 DEF ServiceObject
    <3>3. Specs \subseteq Seq(DnsNames) /\ <<>> \in Seq(DnsNames)  BY SpecsAssumption
    <3> QED BY <3>1, <3>2, <3>3
  <2>5. Pairs(svcCache[s].names) \in Seq(DnsNames \X TypeNames)  BY <2>4, PairsType
  <2>6. WorkerOK'  BY <2>4, <2>5, NoServiceAssumption DEF WorkerOK, SetsOK
  <2> QED BY <2>1, <2>2, <2>3, <2>6 DEF EndpointStep
<1>2. CASE ReconcileCreate \/ ReconcileUpdate
  <2>1. ObjectsOK' /\ SetsOK' /\ WorkerOK' /\ UNCHANGED <<uids, budget>>  BY <1>2, WriteEffect
  <2>2. CountersOK'  BY <2>1 DEF CountersOK, UidsPaid
  <2>3. EndpointStep
    <3>1. CASE ep' = ep  BY <3>1 DEF EndpointStep
    <3>2. CASE Written  BY <3>2 DEF Written, EndpointStep
    <3> QED BY <1>2, <3>1, <3>2, WriteEffect
  <2> QED BY <2>1, <2>2, <2>3
<1>3. CASE ReconcileUncovered \/ ReconcileForeign \/ ReconcileDone \/ CallFails
  <2>1. pc # "idle" /\ \E again \in BOOLEAN : Return(again)
    BY <1>3 DEF ReconcileUncovered, ReconcileForeign, ReconcileDone, CallFails
  <2>2. UNCHANGED <<apiVars, cacheVars, noticed>>
    BY <1>3 DEF ReconcileUncovered, ReconcileForeign, ReconcileDone, CallFails
  <2>3. WorkerOK' /\ queue' \subseteq Services  BY <2>1, ReturnType
  <2>4. ObjectsOK' /\ SetsOK'  BY <2>2, <2>3 DEF ObjectsOK, SetsOK
  <2>5. budget' = budget \/ Spend
    BY <1>3 DEF ReconcileUncovered, ReconcileForeign, ReconcileDone, CallFails
  <2>6. CountersOK'  BY <2>2, <2>5, BudgetAssumption DEF Spend, CountersOK, UidsPaid
  <2> QED BY <2>2, <2>3, <2>4, <2>6 DEF EndpointStep
<1>4. CASE ReconcileKeep
  <2>1. Tail(work) \in Seq(DnsNames \X TypeNames)  BY <1>4, NextPair DEF ReconcileKeep
  <2>2. WorkerOK'  BY <1>4, <2>1 DEF ReconcileKeep, WorkerOK
  <2>3. ObjectsOK' /\ SetsOK' /\ CountersOK'
    BY <1>4 DEF ReconcileKeep, ObjectsOK, SetsOK, CountersOK, UidsPaid
  <2> QED BY <1>4, <2>2, <2>3 DEF ReconcileKeep, EndpointStep
<1>5. CASE ReconcileList
  <2>1. stale' \subseteq EndpointNames  BY <1>5 DEF ReconcileList
  <2>2. WorkerOK'  BY <1>5, <2>1 DEF ReconcileList, WorkerOK
  <2>3. ObjectsOK' /\ SetsOK' /\ CountersOK'
    BY <1>5 DEF ReconcileList, ObjectsOK, SetsOK, CountersOK, UidsPaid
  <2> QED BY <1>5, <2>2, <2>3 DEF ReconcileList, EndpointStep
<1>6. ASSUME NEW e \in EndpointNames, ReconcilePrune(e)
      PROVE  ObjectsOK' /\ SetsOK' /\ WorkerOK' /\ CountersOK' /\ EndpointStep
  <2> USE <1>6 DEF ReconcilePrune
  <2>1. ObjectsOK'  BY EmptyObjects DEF ObjectsOK
  <2>2. SetsOK' /\ CountersOK'  BY DEF SetsOK, CountersOK, UidsPaid
  <2>3. WorkerOK'  BY DEF WorkerOK
  <2> QED BY <2>1, <2>2, <2>3, EmptyObjects DEF EndpointStep
<1> QED BY <1>1, <1>2, <1>3, <1>4, <1>5, <1>6 DEF ReconcileStep

LEMMA StepTyped ==
    ASSUME TypeOK, UidsPaid, Next
    PROVE  (TypeOK /\ UidsPaid)' /\ EndpointStep
BY TypeParts, UserSteps, InformerSteps, WorkerSteps DEF Next

LEMMA StutterTyped == TypeOK /\ UidsPaid /\ UNCHANGED vars => (TypeOK /\ UidsPaid)'
<1> SUFFICES ASSUME TypeOK, UidsPaid, UNCHANGED vars PROVE (TypeOK /\ UidsPaid)'  OBVIOUS
<1>1. ObjectsOK' /\ SetsOK'  BY TypeParts DEF vars, ObjectsOK, SetsOK
<1>2. WorkerOK' /\ CountersOK'  BY TypeParts DEF vars, WorkerOK, CountersOK, UidsPaid
<1> QED BY <1>1, <1>2, TypeParts

\* An endpoint of another project is there: no step turns one that is gone,
\* or one of its own, into another project's.
LEMMA ForeignStep ==
    ASSUME TypeOK, ForeignLive, EndpointStep
    PROVE  ForeignLive'
<1>1. CASE ep' = ep  BY <1>1 DEF ForeignLive
<1>2. ASSUME NEW e \in EndpointNames, NEW d \in EndpointObject, ep' = [ep EXCEPT ![e] = d],
             \/ d = NoEndpoint
             \/ ep[e].life = "none" /\ d.life = "live"
             \/ ep[e].project = "own" /\ d.project = "own"
      PROVE  ForeignLive'
  <2>1. d.project = "other" => d.life = "live"  BY <1>2 DEF NoEndpoint
  <2>2. ep \in [EndpointNames -> EndpointObject]  BY DEF TypeOK
  <2> QED BY <1>2, <2>1, <2>2 DEF ForeignLive
<1> QED BY <1>1, <1>2 DEF EndpointStep

-----------------------------------------------------------------------------
(* The theorems.                                                           *)

LEMMA InitRouting == Init => RoutingInv
<1> SUFFICES ASSUME Init PROVE RoutingInv  OBVIOUS
<1>1. ObjectsOK /\ SetsOK  BY EmptyObjects DEF Init, ObjectsOK, SetsOK
<1>2. WorkerOK  BY EmptyObjects DEF Init, WorkerOK
<1>3. CountersOK  BY BudgetAssumption DEF Init, CountersOK, UidsPaid
<1>4. ForeignLive  BY DEF Init, ForeignLive, NoEndpoint
<1> QED BY <1>1, <1>2, <1>3, <1>4, TypeParts DEF RoutingInv

LEMMA RoutingStep == RoutingInv /\ [Next]_vars => RoutingInv'
<1>1. ASSUME RoutingInv, Next PROVE RoutingInv'
  BY <1>1, StepTyped, ForeignStep DEF RoutingInv
<1>2. ASSUME RoutingInv, UNCHANGED vars PROVE RoutingInv'
  BY <1>2, StutterTyped DEF RoutingInv, ForeignLive, vars
<1> QED BY <1>1, <1>2

\* Whatever users, informers and the worker do, in whatever order, the state
\* keeps its types: the worker never indexes past the names it has read, and
\* never writes an endpoint under a name that is not one of its service's.
THEOREM TypeCorrect == Spec => []TypeOK
<1>1. RoutingInv => TypeOK  BY DEF RoutingInv
<1> QED BY <1>1, InitRouting, RoutingStep, PTL DEF Spec

\* The controller writes only where there was no endpoint or where the one
\* of its own project is unchanged since it was read, so no endpoint of
\* another project is rewritten, however far behind the cache is.
THEOREM OtherProjectsKept == Spec => OtherProjectsNotRewritten
<1>1. ASSUME RoutingInv, [Next]_vars
      PROVE  [\A e \in EndpointNames :
                 ep[e].project = "other" => ep'[e] \in {ep[e], NoEndpoint}]_vars
  <2>1. SUFFICES ASSUME Next, NEW e \in EndpointNames, ep[e].project = "other"
                 PROVE  ep'[e] \in {ep[e], NoEndpoint}
    BY <1>1
  <2>2. EndpointStep  BY <1>1, <2>1, StepTyped DEF RoutingInv
  <2>3. ep[e].life = "live"  BY <1>1, <2>1 DEF RoutingInv, ForeignLive
  <2>4. ep \in [EndpointNames -> EndpointObject]  BY <1>1 DEF RoutingInv, TypeOK
  <2> QED BY <2>1, <2>2, <2>3, <2>4 DEF EndpointStep
<1> QED BY <1>1, InitRouting, RoutingStep, PTL DEF Spec, OtherProjectsNotRewritten

-----------------------------------------------------------------------------
(* Rest means routed.  Every step is first put down to what it does to the *)
(* services, endpoints, views and queue.                                   *)

ServiceWrite ==
    /\ \E s \in Services, o \in ServiceObject :
          /\ svc' = [svc EXCEPT ![s] = o]
          /\ \/ o.life = "none" /\ o.uid = 0 /\ uids' = uids
             \/ o.uid = uids + 1 /\ uids' = uids + 1
             \/ svc[s].life = "live" /\ o.uid = svc[s].uid /\ uids' = uids
    /\ UNCHANGED <<ep, svcCache, epCache, queueVars, workerVars>>

EndpointGone ==
    /\ \E e \in EndpointNames, d \in EndpointObject : d.owner = 0 /\ ep' = [ep EXCEPT ![e] = d]
    /\ UNCHANGED <<svc, uids, svcCache, epCache, queueVars, workerVars>>

Elsewhere == UNCHANGED <<svc, ep, uids, svcCache, epCache, queueVars, workerVars>>

\* The endpoint of the next pair is as it should be, in the cache.
Found ==
    /\ \E z \in BestZones(Name) : epCache[Key] = Desired(Name, z)
    /\ work' = Tail(work)
    /\ UNCHANGED <<ep, noticed, pc, current, seen, stale, queue>>

Advance ==
    /\ pc = "apply" /\ work # <<>> /\ (Found \/ Written)
    /\ UNCHANGED <<svc, uids, svcCache, epCache>>

Returns ==
    /\ pc # "idle"
    /\ Return(TRUE) \/ (Return(FALSE) /\ pc = "prune" /\ stale = {})
    /\ UNCHANGED <<svc, ep, uids, svcCache, epCache, noticed>>

LEMMA RoutingKinds ==
    ASSUME TypeOK, UidsPaid, Next
    PROVE  \/ ServiceWrite \/ EndpointGone \/ Elsewhere
           \/ \E s \in Services : ServiceEvent(s) \/ ReconcileGone(s) \/ ReconcileBegin(s)
           \/ \E e \in EndpointNames : EndpointEvent(e) \/ ReconcilePrune(e)
           \/ Advance \/ Returns \/ ReconcileList \/ Restart
<1> USE EmptyObjects
<1>0. ObjectsOK /\ SetsOK /\ WorkerOK /\ CountersOK  BY TypeParts
<1>1. ASSUME NEW s \in Services, NEW names \in Specs, NEW route \in Routes,
             CreateService(s, names, route)
      PROVE  ServiceWrite
  <2> DEFINE o == [life |-> "live", uid |-> uids + 1, names |-> names, route |-> route]
  <2>1. uids + 1 \in 0 .. Budget
    BY <1>0, <1>1, BudgetAssumption DEF CreateService, Spend, CountersOK, UidsPaid
  <2>2. o \in ServiceObject /\ o.uid = uids + 1  BY <2>1 DEF ServiceObject
  <2>3. svc' = [svc EXCEPT ![s] = o] /\ uids' = uids + 1  BY <1>1 DEF CreateService
  <2>4. UNCHANGED <<ep, svcCache, epCache, queueVars, workerVars>>  BY <1>1 DEF CreateService
  <2> HIDE DEF o
  <2> QED BY <2>2, <2>3, <2>4 DEF ServiceWrite
<1>2. ASSUME NEW s \in Services, NEW names \in Specs, NEW route \in Routes,
             UpdateService(s, names, route)
      PROVE  ServiceWrite
  <2> DEFINE o == [svc[s] EXCEPT !.names = names, !.route = route]
  <2>1. o \in ServiceObject /\ o.uid = svc[s].uid  BY <1>0 DEF ObjectsOK, ServiceObject
  <2>2. svc' = [svc EXCEPT ![s] = o]  BY <1>0, <1>2 DEF UpdateService, ObjectsOK
  <2>3. svc[s].life = "live" /\ UNCHANGED <<ep, uids, svcCache, epCache, queueVars, workerVars>>
    BY <1>2 DEF UpdateService
  <2> HIDE DEF o
  <2> QED BY <2>1, <2>2, <2>3 DEF ServiceWrite
<1>3. ASSUME NEW s \in Services, DeleteService(s) PROVE ServiceWrite
  <2>1. NoServiceObject.life = "none" /\ NoServiceObject.uid = 0  BY DEF NoServiceObject
  <2> QED BY <1>3, <2>1 DEF DeleteService, ServiceWrite
<1>4. ASSUME NEW z \in Zones, CreateZone(z) \/ DeleteZone(z) \/ ZoneEvent(z) PROVE Elsewhere
  BY <1>4 DEF CreateZone, DeleteZone, ZoneEvent, Elsewhere
<1>5. ASSUME NEW e \in EndpointNames,
             \/ \E p \in {"own", "other"} : UserCreateEndpoint(e, p)
             \/ UserDeleteEndpoint(e) \/ CollectGarbage(e)
      PROVE  EndpointGone
  <2>1. \A p \in {"own", "other"} : [NoEndpoint EXCEPT !.life = "live", !.project = p] \in EndpointObject
                                    /\ [NoEndpoint EXCEPT !.life = "live", !.project = p].owner = 0
    BY DEF NoEndpoint, EndpointObject
  <2>2. NoEndpoint.owner = 0  BY DEF NoEndpoint
  <2>3. \E d \in EndpointObject : d.owner = 0 /\ ep' = [ep EXCEPT ![e] = d]
    BY <1>5, <2>1, <2>2 DEF UserCreateEndpoint, UserDeleteEndpoint, CollectGarbage
  <2>4. UNCHANGED <<svc, uids, svcCache, epCache, queueVars, workerVars>>
    BY <1>5 DEF UserCreateEndpoint, UserDeleteEndpoint, CollectGarbage
  <2> QED BY <2>3, <2>4 DEF EndpointGone
<1>6. CASE ReconcileCreate \/ ReconcileUpdate
  <2>1. CASE Written
    BY <1>0, <1>6, <2>1, WriteEffect DEF Advance
  <2>2. CASE Return(TRUE) /\ UNCHANGED <<ep, noticed>>
    BY <1>0, <1>6, <2>2, WriteEffect DEF Returns
  <2> QED BY <1>0, <1>6, <2>1, <2>2, WriteEffect
<1>7. CASE ReconcileKeep  BY <1>7 DEF ReconcileKeep, Found, Advance
<1>8. CASE ReconcileUncovered \/ ReconcileForeign \/ ReconcileDone \/ CallFails
  BY <1>8 DEF ReconcileUncovered, ReconcileForeign, ReconcileDone, CallFails, Returns
<1> QED BY <1>1, <1>2, <1>3, <1>4, <1>5, <1>6, <1>7, <1>8 DEF Next, ReconcileTake, ReconcileStep

-----------------------------------------------------------------------------
(* UIDs.                                                                   *)

\* Where the UIDs of a step come from.
UidsFollow ==
    /\ \A s \in Services :
          \/ svc'[s].uid = 0 /\ svc'[s].life = "none"
          \/ svc'[s].uid = uids + 1 /\ uids' = uids + 1
             /\ \A r \in Services \ {s} : svc'[r] = svc[r]
          \/ svc'[s].uid = svc[s].uid /\ (svc[s].life = "live" \/ svc'[s] = svc[s])
    /\ \A s \in Services : svcCache'[s] \in {svcCache[s], svc[s]}
    /\ \/ pc # "idle" /\ UNCHANGED <<current, seen>>
       \/ pc' = "idle"
       \/ current' \in Services /\ seen' = svcCache[current'] /\ seen'.life = "live"
    /\ pc' = "idle" => current' = NoService
    /\ \A e \in EndpointNames :
          \/ ep'[e].owner \in {0, ep[e].owner}
          \/ ep'[e].owner = seen.uid /\ e[1] = current
    /\ \A e \in EndpointNames : epCache'[e] \in {epCache[e], ep[e]}
    /\ uids' \in {uids, uids + 1}

LEMMA KeyFacts ==
    ASSUME NEW s \in Services, NEW n \in DnsNames, NEW t \in TypeNames
    PROVE  EndpointName(s, n, t) \in EndpointNames /\ EndpointName(s, n, t)[1] = s
BY DEF EndpointNames, EndpointName

LEMMA KeyOwner == Key[1] = current
BY DEF Key, EndpointName

LEMMA UidsOfStep ==
    ASSUME TypeOK, UidsPaid, TypeOK', Next
    PROVE  UidsFollow
<1>0. /\ svc \in [Services -> ServiceObject] /\ svcCache \in [Services -> ServiceObject]
      /\ ep \in [EndpointNames -> EndpointObject] /\ epCache \in [EndpointNames -> EndpointObject]
      /\ pc' = "idle" => current' = NoService
      /\ pc = "idle" => current = NoService
  BY DEF TypeOK
<1>1. CASE ServiceWrite
  <2>1. PICK s \in Services, o \in ServiceObject :
           /\ svc' = [svc EXCEPT ![s] = o]
           /\ \/ o.life = "none" /\ o.uid = 0 /\ uids' = uids
              \/ o.uid = uids + 1 /\ uids' = uids + 1
              \/ svc[s].life = "live" /\ o.uid = svc[s].uid /\ uids' = uids
    BY <1>1 DEF ServiceWrite
  <2>2. svc'[s] = o /\ \A r \in Services \ {s} : svc'[r] = svc[r]  BY <1>0, <2>1
  <2> QED BY <1>0, <1>1, <2>1, <2>2 DEF ServiceWrite, UidsFollow
<1>2. CASE EndpointGone
  <2>1. PICK e \in EndpointNames, d \in EndpointObject : d.owner = 0 /\ ep' = [ep EXCEPT ![e] = d]
    BY <1>2 DEF EndpointGone
  <2>2. \A f \in EndpointNames : ep'[f].owner \in {0, ep[f].owner}  BY <1>0, <2>1
  <2> QED BY <1>0, <1>2, <2>2 DEF EndpointGone, UidsFollow
<1>3. CASE Elsewhere  BY <1>0, <1>3 DEF Elsewhere, UidsFollow
<1>4. ASSUME NEW s \in Services, ServiceEvent(s) PROVE UidsFollow
  <2>1. \A r \in Services : svcCache'[r] \in {svcCache[r], svc[r]}  BY <1>0, <1>4 DEF ServiceEvent
  <2> QED BY <1>0, <1>4, <2>1 DEF ServiceEvent, UidsFollow
<1>5. ASSUME NEW s \in Services, ReconcileGone(s) \/ ReconcileBegin(s) PROVE UidsFollow
  BY <1>0, <1>5 DEF ReconcileGone, ReconcileBegin, UidsFollow
<1>6. ASSUME NEW e \in EndpointNames, EndpointEvent(e) PROVE UidsFollow
  <2>1. \A f \in EndpointNames : epCache'[f] \in {epCache[f], ep[f]}  BY <1>0, <1>6 DEF EndpointEvent
  <2> QED BY <1>0, <1>6, <2>1 DEF EndpointEvent, UidsFollow
<1>7. ASSUME NEW e \in EndpointNames, ReconcilePrune(e) PROVE UidsFollow
  <2>1. \A f \in EndpointNames : ep'[f].owner \in {0, ep[f].owner}
    BY <1>0, <1>7 DEF ReconcilePrune, NoEndpoint
  <2> QED BY <1>0, <1>7, <2>1 DEF ReconcilePrune, UidsFollow
<1>8. CASE Advance /\ Found  BY <1>0, <1>8 DEF Advance, Found, UidsFollow
<1>9. CASE Advance /\ Written
  <2>1. PICK d \in EndpointObject : d.owner = seen.uid /\ ep' = [ep EXCEPT ![Key] = d]
    BY <1>9 DEF Written
  <2>2. Key \in EndpointNames  BY <1>9 DEF Written
  <2>3. \A f \in EndpointNames :
           ep'[f].owner = ep[f].owner \/ (ep'[f].owner = seen.uid /\ f[1] = current)
    BY <1>0, <2>1, <2>2, KeyOwner
  <2> QED BY <1>0, <1>9, <2>3 DEF Advance, Written, UidsFollow
<1>10. CASE Returns  BY <1>0, <1>10 DEF Returns, Return, UidsFollow
<1>11. CASE ReconcileList  BY <1>0, <1>11 DEF ReconcileList, UidsFollow
<1>12. CASE Restart  BY <1>0, <1>12 DEF Restart, UidsFollow
<1> QED BY RoutingKinds, <1>1, <1>2, <1>3, <1>4, <1>5, <1>6, <1>7, <1>8, <1>9, <1>10, <1>11, <1>12
        DEF Advance

LEMMA LiveStep ==
    ASSUME TypeOK, LiveHasUid, UidsFollow
    PROVE  LiveHasUid'
<1>1. uids + 1 # 0  BY DEF TypeOK
<1>2. \A s \in Services : svc'[s].life = "live" => svc'[s].uid # 0
  BY <1>1 DEF UidsFollow, LiveHasUid
<1>3. \A s \in Services : svcCache'[s].life = "live" => svcCache'[s].uid # 0
  BY DEF UidsFollow, LiveHasUid
<1>4. pc' # "idle" => seen'.uid # 0  BY DEF UidsFollow, LiveHasUid
<1> QED BY <1>2, <1>3, <1>4 DEF LiveHasUid

\* A service holds after a step what it held before, or the UID just handed
\* out.
LEMMA UidsStep ==
    ASSUME TypeOK, TypeOK', UidsApart, UidsFollow
    PROVE  UidsApart'
<1>0. uids \in Nat /\ uids' \in Nat /\ uids <= uids' /\ NoService \notin Services
  BY NoServiceAssumption DEF TypeOK, UidsFollow
<1> DEFINE New(s, u) == u = uids + 1 /\ uids' = uids + 1
                        /\ \A r \in Services \ {s} : svc'[r] = svc[r]
           HoldsNext(s, u) ==
               \/ svc'[s].uid = u \/ svcCache'[s].uid = u
               \/ current' = s /\ seen'.uid = u
               \/ \E e \in EndpointNames : e[1] = s /\ (ep'[e].owner = u \/ epCache'[e].owner = u)
<1>1. ASSUME NEW s \in Services, NEW u \in 1 .. Budget, HoldsNext(s, u)
      PROVE  Holds(s, u) \/ (New(s, u) /\ svc'[s].uid = u)
  <2>0. u # 0  OBVIOUS
  <2>1. CASE svc'[s].uid = u  BY <2>0, <2>1 DEF UidsFollow, Holds
  <2>2. CASE svcCache'[s].uid = u  BY <2>2 DEF UidsFollow, Holds
  <2>3. CASE current' = s /\ seen'.uid = u  BY <1>0, <2>3 DEF UidsFollow, Holds
  <2>4. ASSUME NEW e \in EndpointNames, e[1] = s, ep'[e].owner = u PROVE Holds(s, u)
    BY <2>0, <2>4 DEF UidsFollow, Holds
  <2>5. ASSUME NEW e \in EndpointNames, e[1] = s, epCache'[e].owner = u PROVE Holds(s, u)
    BY <2>5 DEF UidsFollow, Holds
  <2> QED BY <1>1, <2>1, <2>2, <2>3, <2>4, <2>5
<1> HIDE DEF HoldsNext
<1>2. ASSUME NEW s \in Services, NEW r \in Services, NEW u \in 1 .. Budget, HoldsNext(s, u)
      PROVE  u <= uids' /\ (HoldsNext(r, u) => r = s)
  <2>1. \A q \in Services : Holds(q, u) => u <= uids  BY DEF UidsApart
  <2>2. ~ (u <= uids) \/ ~ (u = uids + 1)  BY <1>0
  <2>3. u <= uids'
    <3>1. CASE Holds(s, u)  BY <1>0, <2>1, <3>1
    <3>2. CASE New(s, u)  BY <1>0, <3>2
    <3> QED BY <1>1, <1>2, <3>1, <3>2
  <2>4. ASSUME HoldsNext(r, u) PROVE r = s
    <3>1. CASE Holds(s, u) /\ Holds(r, u)  BY <3>1 DEF UidsApart
    <3>2. CASE New(s, u) /\ New(r, u) /\ svc'[s].uid = u /\ svc'[r].uid = u
      <4>1. SUFFICES ASSUME r # s PROVE FALSE  OBVIOUS
      <4>2. svc'[r] = svc[r]  BY <3>2, <4>1
      <4>3. Holds(r, u)  BY <3>2, <4>2 DEF Holds
      <4> QED BY <2>1, <2>2, <3>2, <4>3
    <3> QED BY <1>1, <1>2, <2>1, <2>2, <2>4, <3>1, <3>2
  <2> QED BY <2>3, <2>4
<1> QED BY <1>2 DEF UidsApart, Holds, HoldsNext

-----------------------------------------------------------------------------
(* Events.                                                                 *)

EventDueNext(e) == e \in noticed' \/ (epCache'[e].owner # 0 /\ epCache'[e] # ep'[e])

\* An event that is due stays due or queues the service, and an endpoint
\* that has or gets an owner changes only with an event due.
EventsFollow ==
    \A e \in EndpointNames :
        /\ EventDue(e) => EventDueNext(e) \/ e[1] \in queue'
        /\ ep[e].owner # 0 \/ ep'[e].owner # 0 => ep'[e] = ep[e] \/ EventDueNext(e)

\* Somebody else's write: the owner it takes away is in the cache, or about
\* to be.
LEMMA RemovalEvents ==
    ASSUME TypeOK, OwnersNoticed, NEW e \in EndpointNames, NEW d \in EndpointObject, d.owner = 0,
           ep' = [ep EXCEPT ![e] = d], UNCHANGED <<epCache, noticed>>
    PROVE  EventsFollow /\ OwnersNoticed'
<1>1. ep \in [EndpointNames -> EndpointObject]  BY DEF TypeOK
<1>2. ep'[e] = d /\ \A f \in EndpointNames \ {e} : ep'[f] = ep[f]  BY <1>1
<1>3. OwnersNoticed'  BY <1>2 DEF OwnersNoticed
<1>4. ASSUME NEW f \in EndpointNames
      PROVE  /\ EventDue(f) => EventDueNext(f) \/ f[1] \in queue'
             /\ ep[f].owner # 0 \/ ep'[f].owner # 0 => ep'[f] = ep[f] \/ EventDueNext(f)
  BY <1>2 DEF OwnersNoticed, EventDue, EventDueNext
<1> QED BY <1>3, <1>4 DEF EventsFollow

LEMMA EventsOfStep ==
    ASSUME TypeOK, UidsPaid, OwnersNoticed, Next
    PROVE  OwnersNoticed' /\ (EventsFollow \/ Restart)
<1>0. ep \in [EndpointNames -> EndpointObject] /\ epCache \in [EndpointNames -> EndpointObject]
  BY DEF TypeOK
<1>1. CASE EndpointGone
  BY <1>1, RemovalEvents DEF EndpointGone
<1>2. ASSUME NEW e \in EndpointNames, ReconcilePrune(e) PROVE EventsFollow /\ OwnersNoticed'
  <2>1. NoEndpoint.owner = 0  BY DEF NoEndpoint
  <2> QED BY <1>2, <2>1, EmptyObjects, RemovalEvents DEF ReconcilePrune
<1>3. CASE Written /\ epCache' = epCache
  <2>1. PICK d \in EndpointObject : ep' = [ep EXCEPT ![Key] = d]  BY <1>3 DEF Written
  <2>2. Key \in EndpointNames /\ noticed' = noticed \cup {Key}  BY <1>3 DEF Written
  <2>3. \A f \in EndpointNames \ {Key} : ep'[f] = ep[f]  BY <1>0, <2>1, <2>2
  <2>4. OwnersNoticed'  BY <1>3, <2>2, <2>3 DEF OwnersNoticed
  <2>5. EventsFollow  BY <1>3, <2>2, <2>3 DEF EventsFollow, EventDue, EventDueNext
  <2> QED BY <2>4, <2>5
<1>4. ASSUME NEW e \in EndpointNames, EndpointEvent(e) PROVE EventsFollow /\ OwnersNoticed'
  <2>1. ep' = ep /\ noticed' = noticed \ {e}  BY <1>4 DEF EndpointEvent
  <2>2. epCache'[e] = ep[e] /\ \A f \in EndpointNames \ {e} : epCache'[f] = epCache[f]
    BY <1>0, <1>4 DEF EndpointEvent
  <2>3. EventDue(e) => e[1] \in queue'  BY <1>4 DEF EndpointEvent, EventDue
  <2>4. OwnersNoticed'  BY <2>1, <2>2 DEF OwnersNoticed
  <2>5. EventsFollow  BY <2>1, <2>2, <2>3 DEF EventsFollow, EventDue, EventDueNext
  <2> QED BY <2>4, <2>5
<1>5. CASE UNCHANGED <<ep, epCache, noticed>>
  BY <1>5 DEF OwnersNoticed, EventsFollow, EventDue, EventDueNext
<1>6. CASE Restart  BY <1>6 DEF Restart, OwnersNoticed
<1>7. \/ EndpointGone \/ (\E e \in EndpointNames : ReconcilePrune(e) \/ EndpointEvent(e))
      \/ (Written /\ epCache' = epCache) \/ UNCHANGED <<ep, epCache, noticed>> \/ Restart
  BY RoutingKinds DEF ServiceWrite, Elsewhere, ServiceEvent, ReconcileGone, ReconcileBegin,
                      Advance, Found, Returns, ReconcileList
<1> QED BY <1>1, <1>2, <1>3, <1>4, <1>5, <1>6, <1>7

-----------------------------------------------------------------------------
(* What passes have achieved.                                              *)

MadeNext(s, o, n, t) ==
    \E z \in Covering[n] :
        ep'[EndpointName(s, n, t)] = [life |-> "live", owner |-> o.uid, name |-> n,
                                      route |-> o.route, zone |-> z, project |-> "own"]

UpheldNext(s, o, todo, excess) ==
    /\ \A n \in Names(o), t \in TypeNames :
          <<n, t>> \in todo \/ EventDueNext(EndpointName(s, n, t)) \/ MadeNext(s, o, n, t)
    /\ \A e \in EndpointNames :
          ep'[e].owner = o.uid => e \in WantedBy(s, o) \cup excess \/ EventDueNext(e)

LEMMA NamesIn ==
    ASSUME NEW o \in ServiceObject
    PROVE  Names(o) \subseteq DnsNames
<1>1. o.names \in Specs \cup {<<>>}  BY DEF ServiceObject
<1>2. Specs \subseteq Seq(DnsNames) /\ <<>> \in Seq(DnsNames)  BY SpecsAssumption
<1>3. o.names \in Seq(DnsNames)  BY <1>1, <1>2
<1> QED BY <1>3 DEF Names

\* A UID leads to one service.
LEMMA OwnerOf ==
    ASSUME TypeOK, UidsApart, NEW s \in Services, NEW u \in 0 .. Budget, u # 0, Holds(s, u),
           NEW e \in EndpointNames, ep[e].owner = u \/ epCache[e].owner = u
    PROVE  e[1] = s
<1>1. u \in 1 .. Budget  BY BudgetAssumption
<1>2. e[1] \in Services /\ Holds(e[1], u)  BY NameOwner DEF Holds
<1> QED BY <1>1, <1>2 DEF UidsApart

\* What has been achieved stays so, or an event is due, as long as the
\* service is not queued; pairs and endpoints may be crossed off that the
\* step has dealt with.
LEMMA UpheldKept ==
    ASSUME TypeOK, UidsApart, EventsFollow,
           NEW s \in Services, NEW o \in ServiceObject, o.uid # 0, Holds(s, o.uid), s \notin queue',
           NEW todo, NEW excess, Upheld(s, o, todo, excess),
           NEW todo2, NEW excess2,
           \A n \in Names(o), t \in TypeNames :
               <<n, t>> \in todo => \/ <<n, t>> \in todo2
                                    \/ EventDueNext(EndpointName(s, n, t))
                                    \/ MadeNext(s, o, n, t),
           \A e \in EndpointNames :
               e \in excess /\ ep[e].owner = o.uid =>
                   e \in excess2 \/ e \in WantedBy(s, o) \/ ep'[e].owner # o.uid \/ EventDueNext(e)
    PROVE  UpheldNext(s, o, todo2, excess2)
<1>1. ASSUME NEW n \in Names(o), NEW t \in TypeNames
      PROVE  <<n, t>> \in todo2 \/ EventDueNext(EndpointName(s, n, t)) \/ MadeNext(s, o, n, t)
  <2> DEFINE k == EndpointName(s, n, t)
  <2>1. k \in EndpointNames /\ k[1] = s  BY NamesIn, KeyFacts
  <2>2. CASE <<n, t>> \in todo  BY <2>2
  <2>3. CASE EventDue(k)  BY <2>1, <2>3 DEF EventsFollow
  <2>4. CASE Made(s, o, n, t)
    <3>1. PICK z \in Covering[n] :
             ep[k] = [life |-> "live", owner |-> o.uid, name |-> n,
                      route |-> o.route, zone |-> z, project |-> "own"]
      BY <2>4 DEF Made
    <3>2. ep[k].owner # 0  BY <3>1
    <3>3. ep'[k] = ep[k] \/ EventDueNext(k)  BY <2>1, <3>2 DEF EventsFollow
    <3> QED BY <3>1, <3>3 DEF MadeNext
  <2> QED BY <2>2, <2>3, <2>4 DEF Upheld
<1>2. ASSUME NEW e \in EndpointNames, ep'[e].owner = o.uid
      PROVE  e \in WantedBy(s, o) \cup excess2 \/ EventDueNext(e)
  <2>1. ep'[e] = ep[e] \/ EventDueNext(e)  BY <1>2 DEF EventsFollow
  <2>2. SUFFICES ASSUME ep'[e] = ep[e], ep[e].owner = o.uid
                 PROVE  e \in WantedBy(s, o) \cup excess2 \/ EventDueNext(e)
    BY <1>2, <2>1
  <2>3. o.uid \in 0 .. Budget  BY DEF ServiceObject
  <2>4. e[1] = s  BY <2>2, <2>3, OwnerOf
  <2>5. e \in WantedBy(s, o) \cup excess \/ EventDue(e)  BY <2>2 DEF Upheld
  <2>6. CASE EventDue(e)  BY <2>4, <2>6 DEF EventsFollow
  <2> QED BY <1>2, <2>2, <2>5, <2>6
<1> QED BY <1>1, <1>2 DEF UpheldNext

\* A service that is neither queued nor at work, after a step that leaves
\* what was known about it alone.
LEMMA ServiceKept ==
    ASSUME TypeOK, UidsApart, LiveHasUid, ServicesUpheld, EventsFollow,
           NEW s \in Services, s \notin queue, s # current, s \notin queue',
           svcCache'[s] = svcCache[s], svcCache[s].life = "live"
    PROVE  UpheldNext(s, svcCache'[s], {}, {})
<1>1. svcCache[s] \in ServiceObject /\ svcCache[s].uid # 0  BY DEF TypeOK, LiveHasUid
<1>2. Holds(s, svcCache[s].uid)  BY DEF Holds
<1>3. Upheld(s, svcCache[s], {}, {})  BY DEF ServicesUpheld
<1>4. UpheldNext(s, svcCache[s], {}, {})  BY <1>1, <1>2, <1>3, UpheldKept
<1> QED BY <1>4

LEMMA ServicesNext ==
    ASSUME \A s \in Services \ (queue' \cup {current'}) :
               svcCache'[s].life = "live" => UpheldNext(s, svcCache'[s], {}, {})
    PROVE  ServicesUpheld'
BY DEF ServicesUpheld, UpheldNext, Upheld, EventDueNext, EventDue, MadeNext, Made, WantedBy,
       Names, EndpointName, EndpointNames, TypeNames

LEMMA PassNext ==
    ASSUME pc' = "prune" => work' = <<>>,
           \A e \in stale' : e[1] = current' /\ e \notin WantedBy(current', seen'),
           pc' # "idle" /\ current' \notin queue' =>
               /\ seen' = svcCache'[current']
               /\ UpheldNext(current', seen', {work'[i] : i \in DOMAIN work'},
                             IF pc' = "apply" THEN EndpointNames ELSE stale')
    PROVE  PassUpheld'
BY DEF PassUpheld, UpheldNext, Upheld, EventDueNext, EventDue, MadeNext, Made, WantedBy,
       Names, EndpointName, EndpointNames, TypeNames, Todo

\* Division undoes what the nested loops do to their indices.
LEMMA DivisionUnique ==
    ASSUME NEW k \in Nat, k > 0, NEW q \in Nat, NEW r \in 0 .. k - 1
    PROVE  (k * q + r) \div k = q /\ (k * q + r) % k = r
<1> DEFINE x == k * q + r
           p == x \div k
           m == x % k
<1>1. k * q \in Nat /\ x \in Nat  OBVIOUS
<1>2. p \in Nat /\ m \in 0 .. k - 1 /\ x = k * p + m  BY <1>1
<1>3. k * p + m = k * q + r  BY <1>2
<1> HIDE DEF x, p, m
<1>4. ASSUME NEW d \in Nat, d > 0 PROVE k * d \in Nat /\ k * d >= k
  <2>1. PICK c \in Nat : d = c + 1
    <3>1. d - 1 \in Nat /\ d = (d - 1) + 1  BY <1>4
    <3> QED BY <3>1
  <2>2. k * d = k * c + k /\ k * c \in Nat  BY <2>1
  <2> QED BY <2>2
<1>5. ~ (q < p)
  <2>1. SUFFICES ASSUME q < p PROVE FALSE  OBVIOUS
  <2>2. PICK d \in Nat : p = q + d /\ d > 0
    <3>1. p - q \in Nat /\ p = q + (p - q) /\ p - q > 0  BY <1>2, <2>1
    <3> QED BY <3>1
  <2>3. k * p = k * q + k * d  BY <2>2
  <2>4. k * d \in Nat /\ k * d >= k  BY <1>4, <2>2
  <2> QED BY <1>1, <1>2, <1>3, <2>3, <2>4
<1>6. ~ (p < q)
  <2>1. SUFFICES ASSUME p < q PROVE FALSE  OBVIOUS
  <2>2. PICK d \in Nat : q = p + d /\ d > 0
    <3>1. q - p \in Nat /\ q = p + (q - p) /\ q - p > 0  BY <1>2, <2>1
    <3> QED BY <3>1
  <2>3. k * q = k * p + k * d /\ k * p \in Nat  BY <1>2, <2>2
  <2>4. k * d \in Nat /\ k * d >= k  BY <1>4, <2>2
  <2> QED BY <1>1, <1>2, <1>3, <2>3, <2>4
<1>7. p = q  BY <1>2, <1>5, <1>6
<1>8. m = r  BY <1>1, <1>2, <1>3, <1>7
<1> QED BY <1>7, <1>8 DEF x, p, m

\* The loops visit every name with every record type.
LEMMA PairsCover ==
    ASSUME NEW o \in ServiceObject, NEW n \in Names(o), NEW t \in TypeNames
    PROVE  \E i \in DOMAIN Pairs(o.names) : Pairs(o.names)[i] = <<n, t>>
<1> DEFINE names == o.names
           k == Len(RecordTypes)
           l == Len(names)
<1>1. names \in Seq(DnsNames)
  <2>1. names \in Specs \cup {<<>>}  BY DEF ServiceObject
  <2>2. Specs \subseteq Seq(DnsNames) /\ <<>> \in Seq(DnsNames)  BY SpecsAssumption
  <2> QED BY <2>1, <2>2
<1>2. k \in Nat /\ l \in Nat  BY <1>1, TypesAssumption
<1>3. PICK a \in 1 .. l : names[a] = n  BY <1>1 DEF Names
<1>4. PICK b \in 1 .. k : RecordTypes[b] = t  BY TypesAssumption DEF TypeNames
<1>5. Pairs(names) = [i \in 1 .. k * l |->
                        <<names[((i - 1) \div k) + 1], RecordTypes[((i - 1) % k) + 1]>>]
  BY DEF Pairs
<1> HIDE DEF names, k, l
<1>6. PICK c \in Nat : a = c + 1
  <2>1. a - 1 \in Nat /\ a = (a - 1) + 1  BY <1>2
  <2> QED BY <2>1
<1>7. PICK r \in 0 .. k - 1 : b = r + 1
  <2>1. b - 1 \in 0 .. k - 1 /\ b = (b - 1) + 1  BY <1>2
  <2> QED BY <2>1
<1>8. PICK d \in Nat : l = c + 1 + d
  <2>1. l - a \in Nat /\ l = a + (l - a)  BY <1>2
  <2> QED BY <1>6, <2>1
<1> DEFINE i == k * c + r + 1
<1>9. i \in 1 .. k * l
  <2>1. k * l = k * c + k + k * d /\ k * c \in Nat /\ k * d \in Nat /\ k * l \in Nat
    BY <1>2, <1>8
  <2> QED BY <1>2, <2>1
<1>10. (i - 1) \div k = c /\ (i - 1) % k = r
  <2>1. k > 0  BY <1>2, <1>7
  <2>2. k * c \in Nat  BY <1>2
  <2>3. i - 1 = k * c + r  BY <1>2, <2>2
  <2> QED BY <1>2, <2>1, <2>3, DivisionUnique
<1> HIDE DEF i
<1>11. Pairs(names)[i] = <<n, t>>  BY <1>3, <1>4, <1>5, <1>6, <1>7, <1>9, <1>10
<1> QED BY <1>5, <1>9, <1>11 DEF names

\* The pass under way, when the step crosses off pairs and endpoints that it
\* has dealt with.
LEMMA PassKept ==
    ASSUME TypeOK, UidsApart, LiveHasUid, PassUpheld, EventsFollow,
           pc # "idle", current \notin queue, current \notin queue',
           NEW todo2, NEW excess2,
           \A n \in Names(seen), t \in TypeNames :
               <<n, t>> \in Todo => \/ <<n, t>> \in todo2
                                    \/ EventDueNext(EndpointName(current, n, t))
                                    \/ MadeNext(current, seen, n, t),
           \A e \in EndpointNames :
               e \in (IF pc = "apply" THEN EndpointNames ELSE stale) /\ ep[e].owner = seen.uid =>
                   \/ e \in excess2 \/ e \in WantedBy(current, seen)
                   \/ ep'[e].owner # seen.uid \/ EventDueNext(e)
    PROVE  UpheldNext(current, seen, todo2, excess2)
<1>1. current \in Services /\ seen \in ServiceObject /\ seen.uid # 0  BY DEF TypeOK, LiveHasUid
<1>2. Holds(current, seen.uid)  BY DEF Holds
<1> DEFINE excess == IF pc = "apply" THEN EndpointNames ELSE stale
<1>3. Upheld(current, seen, Todo, excess)  BY DEF PassUpheld
<1>4. \A e \in EndpointNames : e \in excess /\ ep[e].owner = seen.uid =>
          \/ e \in excess2 \/ e \in WantedBy(current, seen)
          \/ ep'[e].owner # seen.uid \/ EventDueNext(e)
  OBVIOUS
<1> HIDE DEF excess
<1> QED BY <1>1, <1>2, <1>3, <1>4, UpheldKept

\* Steps of others: what the worker knows stays, the queue grows.
LEMMA OutsideUpheld ==
    ASSUME TypeOK, UidsApart, LiveHasUid, PassUpheld, ServicesUpheld, EventsFollow,
           UNCHANGED <<pc, current, seen, work, stale>>, queue \subseteq queue',
           \A s \in Services : svcCache'[s] = svcCache[s] \/ s \in queue'
    PROVE  PassUpheld' /\ ServicesUpheld'
<1>1. ServicesUpheld'
  <2>1. ASSUME NEW s \in Services \ (queue' \cup {current'}), svcCache'[s].life = "live"
        PROVE  UpheldNext(s, svcCache'[s], {}, {})
    BY <2>1, ServiceKept
  <2> QED BY <2>1, ServicesNext
<1>2. ASSUME pc # "idle", current \notin queue'
      PROVE  /\ seen = svcCache'[current]
             /\ UpheldNext(current, seen, Todo, IF pc = "apply" THEN EndpointNames ELSE stale)
  <2>1. current \in Services /\ current \notin queue  BY <1>2 DEF TypeOK
  <2>2. seen = svcCache'[current]  BY <1>2, <2>1 DEF PassUpheld
  <2>3. UpheldNext(current, seen, Todo, IF pc = "apply" THEN EndpointNames ELSE stale)
    BY <1>2, <2>1, PassKept
  <2> QED BY <2>2, <2>3
<1>3. PassUpheld'
  <2>1. pc' = "prune" => work' = <<>>  BY DEF PassUpheld
  <2>2. \A e \in stale' : e[1] = current' /\ e \notin WantedBy(current', seen')  BY DEF PassUpheld
  <2>3. pc' # "idle" /\ current' \notin queue' =>
            /\ seen' = svcCache'[current']
            /\ UpheldNext(current', seen', {work'[i] : i \in DOMAIN work'},
                          IF pc' = "apply" THEN EndpointNames ELSE stale')
    BY <1>2 DEF Todo
  <2> QED BY <2>1, <2>2, <2>3, PassNext
<1> QED BY <1>1, <1>3

\* The loop goes on: the pair it leaves behind has its endpoint, or an event
\* is due for it.
LEMMA AdvanceUpheld ==
    ASSUME TypeOK, UidsApart, LiveHasUid, PassUpheld, ServicesUpheld, EventsFollow, Advance
    PROVE  PassUpheld' /\ ServicesUpheld'
<1>0. /\ pc = "apply" /\ work # <<>> /\ work' = Tail(work)
      /\ UNCHANGED <<pc, current, seen, stale, queue, svcCache, epCache>>
  BY DEF Advance, Found, Written
<1>1. WorkerOK  BY DEF TypeOK, WorkerOK
<1>2. work \in Seq(DnsNames \X TypeNames) /\ seen.uid # 0  BY <1>0 DEF TypeOK, LiveHasUid
<1>3. \A i \in DOMAIN work : work[i] = Head(work) \/ \E j \in DOMAIN Tail(work) : Tail(work)[j] = work[i]
  <2>0. Head(work) = work[1]  BY <1>0, <1>2
  <2>1. SUFFICES ASSUME NEW i \in DOMAIN work, i # 1
                 PROVE  \E j \in DOMAIN Tail(work) : Tail(work)[j] = work[i]
    BY <2>0
  <2>2. i - 1 \in DOMAIN Tail(work) /\ Tail(work)[i - 1] = work[i]  BY <1>0, <1>2, <2>1
  <2> QED BY <2>2
<1>4. EventDueNext(Key) \/ MadeNext(current, seen, Name, Head(work)[2])
  <2>1. CASE Written  BY <2>1 DEF Written, EventDueNext
  <2>2. CASE Found
    <3>1. PICK z \in BestZones(Name) : epCache[Key] = Desired(Name, z)  BY <2>2 DEF Found
    <3>2. z \in Covering[Name]  BY DEF BestZones
    <3>3. epCache[Key].owner # 0  BY <1>2, <3>1 DEF Desired
    <3>4. ep' = ep  BY <2>2 DEF Found
    <3>5. CASE ep[Key] # epCache[Key]  BY <1>0, <3>3, <3>4, <3>5 DEF EventDueNext
    <3>6. CASE ep[Key] = epCache[Key]
      BY <3>1, <3>2, <3>4, <3>6 DEF MadeNext, Desired, Key
    <3> QED BY <3>5, <3>6
  <2> QED BY <2>1, <2>2 DEF Advance
<1>5. ASSUME NEW n \in Names(seen), NEW t \in TypeNames, <<n, t>> \in Todo
      PROVE  \/ <<n, t>> \in {Tail(work)[j] : j \in DOMAIN Tail(work)}
             \/ EventDueNext(EndpointName(current, n, t))
             \/ MadeNext(current, seen, n, t)
  <2>1. PICK i \in DOMAIN work : work[i] = <<n, t>>  BY <1>5 DEF Todo
  <2>2. CASE Head(work) = <<n, t>>
    <3>1. Name = n /\ Head(work)[2] = t  BY <2>2 DEF Name
    <3> QED BY <1>4, <3>1 DEF Key
  <2> QED BY <1>3, <2>1, <2>2
<1>6. ASSUME current \notin queue
      PROVE  UpheldNext(current, seen, {Tail(work)[j] : j \in DOMAIN Tail(work)}, EndpointNames)
  BY <1>0, <1>5, <1>6, PassKept
<1>7. PassUpheld'
  <2>1. \A e \in stale' : e[1] = current' /\ e \notin WantedBy(current', seen')
    BY <1>0 DEF PassUpheld
  <2>2. current \notin queue => seen = svcCache[current]  BY <1>0 DEF PassUpheld
  <2> QED BY <1>0, <1>6, <2>1, <2>2, PassNext
<1>8. ServicesUpheld'
  <2>1. ASSUME NEW s \in Services \ (queue' \cup {current'}), svcCache'[s].life = "live"
        PROVE  UpheldNext(s, svcCache'[s], {}, {})
    BY <1>0, <2>1, ServiceKept
  <2> QED BY <2>1, ServicesNext
<1> QED BY <1>7, <1>8

\* The list: an endpoint of the service the cache does not show is one an
\* event is due for.
LEMMA ListUpheld ==
    ASSUME TypeOK, UidsApart, LiveHasUid, OwnersNoticed, PassUpheld, ServicesUpheld, EventsFollow,
           ReconcileList
    PROVE  PassUpheld' /\ ServicesUpheld'
<1>0. /\ pc = "apply" /\ work = <<>> /\ pc' = "prune"
      /\ UNCHANGED <<ep, noticed, current, seen, work, queue, svcCache, epCache>>
  BY DEF ReconcileList
<1>1. current \in Services /\ seen \in ServiceObject /\ seen.uid # 0 /\ seen.uid \in 0 .. Budget
  BY <1>0 DEF TypeOK, LiveHasUid, ServiceObject
<1>2. Holds(current, seen.uid)  BY DEF Holds
<1>3. \A e \in EndpointNames :
         (\A i \in DOMAIN seen.names, t \in TypeNames : e # EndpointName(current, seen.names[i], t))
             <=> e \notin WantedBy(current, seen)
  BY DEF WantedBy, Names
<1>4. stale' = {e \in EndpointNames : epCache[e].owner = seen.uid /\ e \notin WantedBy(current, seen)}
  BY <1>3 DEF ReconcileList
<1>5. \A e \in stale' : e[1] = current /\ e \notin WantedBy(current, seen)
  BY <1>1, <1>2, <1>4, OwnerOf
<1>6. ASSUME NEW e \in EndpointNames, ep[e].owner = seen.uid
      PROVE  e \in stale' \/ e \in WantedBy(current, seen) \/ EventDueNext(e)
  <2>1. CASE epCache[e].owner = seen.uid  BY <1>4, <2>1
  <2>2. CASE epCache[e].owner # seen.uid
    BY <1>0, <1>1, <1>6, <2>2 DEF OwnersNoticed, EventDueNext
  <2> QED BY <2>1, <2>2
<1>7. Todo = {} /\ {work'[i] : i \in DOMAIN work'} = {}  BY <1>0 DEF Todo
<1>8. ASSUME current \notin queue PROVE UpheldNext(current, seen, {}, stale')
  BY <1>0, <1>6, <1>7, <1>8, PassKept
<1>9. PassUpheld'
  <2>1. current \notin queue => seen = svcCache[current]  BY <1>0 DEF PassUpheld
  <2> QED BY <1>0, <1>5, <1>7, <1>8, <2>1, PassNext
<1>10. ServicesUpheld'
  <2>1. ASSUME NEW s \in Services \ (queue' \cup {current'}), svcCache'[s].life = "live"
        PROVE  UpheldNext(s, svcCache'[s], {}, {})
    BY <1>0, <2>1, ServiceKept
  <2> QED BY <2>1, ServicesNext
<1> QED BY <1>9, <1>10

LEMMA PruneUpheld ==
    ASSUME TypeOK, UidsApart, LiveHasUid, PassUpheld, ServicesUpheld, EventsFollow,
           NEW e \in EndpointNames, ReconcilePrune(e)
    PROVE  PassUpheld' /\ ServicesUpheld'
<1>0. /\ pc = "prune" /\ stale' = stale \ {e} /\ ep' = [ep EXCEPT ![e] = NoEndpoint]
      /\ UNCHANGED <<pc, current, seen, work, queue, svcCache>>
  BY DEF ReconcilePrune
<1>1. ep \in [EndpointNames -> EndpointObject] /\ seen.uid # 0  BY <1>0 DEF TypeOK, LiveHasUid
<1>2. ep'[e].owner = 0  BY <1>0, <1>1 DEF NoEndpoint
<1>3. ASSUME current \notin queue PROVE UpheldNext(current, seen, Todo, stale')
  BY <1>0, <1>1, <1>2, <1>3, PassKept
<1>4. PassUpheld'
  <2>1. current \notin queue => seen = svcCache[current]  BY <1>0 DEF PassUpheld
  <2>2. work' = <<>> /\ \A f \in stale' : f[1] = current' /\ f \notin WantedBy(current', seen')
    BY <1>0 DEF PassUpheld
  <2>3. {work'[i] : i \in DOMAIN work'} = Todo  BY <1>0 DEF Todo
  <2> QED BY <1>0, <1>3, <2>1, <2>2, <2>3, PassNext
<1>5. ServicesUpheld'
  <2>1. ASSUME NEW s \in Services \ (queue' \cup {current'}), svcCache'[s].life = "live"
        PROVE  UpheldNext(s, svcCache'[s], {}, {})
    BY <1>0, <2>1, ServiceKept
  <2> QED BY <2>1, ServicesNext
<1> QED BY <1>4, <1>5

\* The end of a pass: with an error the service is queued; without one
\* nothing is left to do and to prune.
LEMMA ReturnUpheld ==
    ASSUME TypeOK, UidsApart, LiveHasUid, PassUpheld, ServicesUpheld, EventsFollow, Returns
    PROVE  PassUpheld' /\ ServicesUpheld'
<1>0. /\ pc # "idle" /\ pc' = "idle" /\ current' = NoService /\ work' = <<>> /\ stale' = {}
      /\ svcCache' = svcCache /\ queue \subseteq queue'
      /\ current \in queue' \/ (pc = "prune" /\ stale = {})
  BY DEF Returns, Return
<1>1. PassUpheld'  BY <1>0, PassNext
<1>2. ASSUME NEW s \in Services \ (queue' \cup {current'}), svcCache'[s].life = "live"
      PROVE  UpheldNext(s, svcCache'[s], {}, {})
  <2>1. CASE s # current  BY <1>0, <1>2, <2>1, ServiceKept
  <2>2. CASE s = current
    <3>1. pc = "prune" /\ stale = {} /\ current \notin queue /\ current \notin queue'
      BY <1>0, <1>2, <2>2
    <3>2. Todo = {} /\ seen = svcCache[current]  BY <3>1 DEF PassUpheld, Todo
    <3>3. UpheldNext(current, seen, {}, {})  BY <1>0, <3>1, <3>2, PassKept
    <3> QED BY <1>0, <2>2, <3>2, <3>3
  <2> QED BY <2>1, <2>2
<1> QED BY <1>1, <1>2, ServicesNext

LEMMA TakeUpheld ==
    ASSUME TypeOK, UidsApart, LiveHasUid, PassUpheld, ServicesUpheld, EventsFollow,
           NEW s \in Services, ReconcileGone(s) \/ ReconcileBegin(s)
    PROVE  PassUpheld' /\ ServicesUpheld'
<1>0. /\ pc = "idle" /\ current = NoService /\ queue' = queue \ {s}
      /\ svcCache' = svcCache /\ stale' = stale
      /\ svcCache[s].life = "none" \/ current' = s
  BY DEF TypeOK, ReconcileGone, ReconcileBegin
<1>1. stale = {}
  <2>1. \A e \in stale : e[1] = NoService /\ e[1] \in Services
    BY <1>0, NameOwner DEF PassUpheld, TypeOK
  <2> QED BY <2>1, NoServiceAssumption
<1>2. ServicesUpheld'
  <2>1. ASSUME NEW r \in Services \ (queue' \cup {current'}), svcCache'[r].life = "live"
        PROVE  UpheldNext(r, svcCache'[r], {}, {})
    <3>1. r # s /\ r \notin queue /\ r # current  BY <1>0, <2>1, NoServiceAssumption
    <3> QED BY <1>0, <2>1, <3>1, ServiceKept
  <2> QED BY <2>1, ServicesNext
<1>3. CASE ReconcileGone(s)
  <2>1. pc' = "idle"  BY <1>0, <1>3 DEF ReconcileGone
  <2>2. PassUpheld'  BY <1>0, <1>1, <2>1, PassNext
  <2> QED BY <1>2, <2>2
<1>4. CASE ReconcileBegin(s)
  <2>1. /\ pc' = "apply" /\ current' = s /\ seen' = svcCache[s]
        /\ work' = Pairs(svcCache[s].names)
    BY <1>4 DEF ReconcileBegin
  <2>2. svcCache[s] \in ServiceObject  BY DEF TypeOK
  <2>3. \A n \in Names(svcCache[s]), t \in TypeNames :
           <<n, t>> \in {work'[i] : i \in DOMAIN work'}
    BY <2>1, <2>2, PairsCover
  <2>4. UpheldNext(s, svcCache[s], {work'[i] : i \in DOMAIN work'}, EndpointNames)
    BY <2>3 DEF UpheldNext
  <2>5. PassUpheld'  BY <1>0, <1>1, <2>1, <2>4, PassNext
  <2> QED BY <1>2, <2>5
<1> QED BY <1>3, <1>4

LEMMA RestartUpheld ==
    ASSUME Restart
    PROVE  PassUpheld' /\ ServicesUpheld'
<1>1. PassUpheld'  BY PassNext DEF Restart
<1>2. \A s \in Services : svcCache'[s].life = "live" => s \in queue'  BY DEF Restart
<1>3. ServicesUpheld'  BY <1>2, ServicesNext
<1> QED BY <1>1, <1>3

LEMMA UpheldStep ==
    ASSUME TypeOK, UidsPaid, UidsApart, LiveHasUid, OwnersNoticed, PassUpheld, ServicesUpheld, Next
    PROVE  PassUpheld' /\ ServicesUpheld'
<1>1. EventsFollow \/ Restart  BY EventsOfStep
<1>2. CASE Restart  BY <1>2, RestartUpheld
<1>3. CASE EventsFollow
  <2>1. CASE ServiceWrite \/ EndpointGone \/ Elsewhere
    <3>1. UNCHANGED <<pc, current, seen, work, stale, queue, svcCache>>
      BY <2>1 DEF ServiceWrite, EndpointGone, Elsewhere
    <3> QED BY <1>3, <3>1, OutsideUpheld
  <2>2. ASSUME NEW s \in Services, ServiceEvent(s) PROVE PassUpheld' /\ ServicesUpheld'
    <3>1. UNCHANGED <<pc, current, seen, work, stale>> /\ queue' = queue \cup {s}
      BY <2>2 DEF ServiceEvent
    <3>2. svcCache \in [Services -> ServiceObject]  BY DEF TypeOK
    <3>3. \A r \in Services : svcCache'[r] = svcCache[r] \/ r \in queue'
      BY <2>2, <3>1, <3>2 DEF ServiceEvent
    <3> QED BY <1>3, <3>1, <3>3, OutsideUpheld
  <2>3. ASSUME NEW e \in EndpointNames, EndpointEvent(e) PROVE PassUpheld' /\ ServicesUpheld'
    <3>1. UNCHANGED <<pc, current, seen, work, stale, svcCache>> /\ queue \subseteq queue'
      BY <2>3 DEF EndpointEvent
    <3> QED BY <1>3, <3>1, OutsideUpheld
  <2> QED BY <1>2, <1>3, <2>1, <2>2, <2>3, RoutingKinds, TakeUpheld, PruneUpheld, AdvanceUpheld,
             ReturnUpheld, ListUpheld
<1> QED BY <1>1, <1>2, <1>3

LEMMA InitRest == Init => RestInv
<1> SUFFICES ASSUME Init PROVE RestInv  OBVIOUS
<1>1. RoutingInv  BY InitRouting
<1>2. /\ \A s \in Services : /\ svc[s].uid = 0 /\ svcCache[s].uid = 0
                             /\ svc[s].life = "none" /\ svcCache[s].life = "none"
      /\ \A e \in EndpointNames : ep[e].owner = 0 /\ epCache[e].owner = 0
      /\ seen.uid = 0
  BY DEF Init, NoServiceObject, NoEndpoint
<1>3. UidsApart
  <2>1. ASSUME NEW s \in Services, NEW u \in 1 .. Budget PROVE ~ Holds(s, u)
    <3>1. u # 0  OBVIOUS
    <3> QED BY <1>2, <3>1 DEF Holds
  <2> QED BY <2>1 DEF UidsApart
<1>4. LiveHasUid /\ OwnersNoticed  BY <1>2 DEF Init, LiveHasUid, OwnersNoticed
<1>5. PassUpheld  BY DEF Init, PassUpheld
<1>6. ServicesUpheld  BY <1>2 DEF ServicesUpheld
<1> QED BY <1>1, <1>3, <1>4, <1>5, <1>6 DEF RestInv

LEMMA RestStep == RestInv /\ [Next]_vars => RestInv'
<1>1. ASSUME RestInv, Next PROVE RestInv'
  <2>1. RoutingInv'  BY <1>1, RoutingStep DEF RestInv
  <2>2. TypeOK /\ UidsPaid /\ TypeOK'  BY <1>1, <2>1 DEF RestInv, RoutingInv
  <2>3. UidsFollow  BY <1>1, <2>2, UidsOfStep
  <2>4. UidsApart' /\ LiveHasUid'  BY <1>1, <2>2, <2>3, UidsStep, LiveStep DEF RestInv
  <2>5. OwnersNoticed'  BY <1>1, <2>2, EventsOfStep DEF RestInv
  <2>6. PassUpheld' /\ ServicesUpheld'  BY <1>1, <2>2, UpheldStep DEF RestInv
  <2> QED BY <2>1, <2>4, <2>5, <2>6 DEF RestInv
<1>2. ASSUME RestInv, UNCHANGED vars PROVE RestInv'
  <2> USE <1>2 DEF vars
  <2>1. RoutingInv'  BY RoutingStep DEF RestInv
  <2>2. UidsApart'  BY DEF RestInv, UidsApart, Holds
  <2>3. LiveHasUid' /\ OwnersNoticed'  BY DEF RestInv, LiveHasUid, OwnersNoticed
  <2>4. EventsFollow  BY DEF EventsFollow, EventDue, EventDueNext
  <2>5. PassUpheld' /\ ServicesUpheld'
    BY <2>4, OutsideUpheld DEF RestInv, RoutingInv
  <2> QED BY <2>1, <2>2, <2>3, <2>5 DEF RestInv
<1> QED BY <1>1, <1>2

\* A service nothing will make the controller look at again has exactly the
\* endpoints its spec asks for, for every set of services, names, zones and
\* record types: every way to disturb an endpoint, or to end a pass early,
\* leaves the service queued or an event due.
THEOREM RestRouted == Spec => []RestMeansRouted
<1>1. ASSUME RestInv PROVE RestMeansRouted
  <2>1. SUFFICES ASSUME NEW s \in Services, svc[s].life = "live", Quiet(s) PROVE Routed(s)
    BY DEF RestMeansRouted
  <2>2. /\ s # current /\ s \notin queue /\ svcCache[s] = svc[s]
        /\ \A e \in EndpointNames : e[1] = s => ~ EventDue(e)
    BY <2>1 DEF Quiet, EventDue
  <2>3. Upheld(s, svc[s], {}, {})  BY <1>1, <2>1, <2>2 DEF RestInv, ServicesUpheld
  <2>4. /\ TypeOK /\ svc[s] \in ServiceObject /\ svc[s].uid # 0 /\ svc[s].uid \in 0 .. Budget
        /\ UidsApart
    BY <1>1, <2>1 DEF RestInv, RoutingInv, TypeOK, LiveHasUid, ServiceObject
  <2>5. ASSUME NEW n \in Names(svc[s]), NEW t \in TypeNames PROVE Made(s, svc[s], n, t)
    <3>1. ~ EventDue(EndpointName(s, n, t))  BY <2>2, <2>4, NamesIn, KeyFacts
    <3> QED BY <2>3, <3>1 DEF Upheld
  <2>6. ASSUME NEW e \in EndpointNames, ep[e].owner = svc[s].uid PROVE e \in Wanted(s)
    <3>1. Holds(s, svc[s].uid)  BY DEF Holds
    <3>2. e[1] = s  BY <2>4, <2>6, <3>1, OwnerOf
    <3> QED BY <2>2, <2>3, <2>6, <3>2 DEF Upheld, Wanted
  <2> QED BY <2>5, <2>6 DEF Routed
<1> QED BY <1>1, InitRest, RestStep, PTL DEF Spec
=============================================================================
