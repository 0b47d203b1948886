------------------------ MODULE ServiceCache_proofs ------------------------
(***************************************************************************)
(* Proofs about ServiceCache, for every set of service specs.              *)
(*                                                                         *)
(* A step is first put down to what it writes (ObjectWrite, ServiceWrite,  *)
(* WorkerOnly, Delivery): every write leaves news to deliver, so that only *)
(* the end of a pass without a write can bring the controller to rest.     *)
(***************************************************************************)
EXTENDS ServiceCache, TLAPS

LEMMA EmptyObjects ==
    /\ NoServiceObject \in ServiceObject /\ NoServiceObject.uid = 0
    /\ \A k \in Kinds : NoObject(k) \in Objects(k) /\ ~ NoObject(k).there /\ NoObject(k).owner = 0
<1>1. (CHOOSE s \in Specs : TRUE) \in Specs  BY SpecsAssumption
<1> QED BY <1>1 DEF NoServiceObject, ServiceObject, NoObject, Objects

\* Replacing one object by another of its kind.
LEMMA TableExcept ==
    ASSUME NEW t \in ObjectTable, NEW k \in Kinds, NEW o \in Objects(k)
    PROVE  /\ [t EXCEPT ![k] = o] \in ObjectTable
           /\ [t EXCEPT ![k] = o][k] = o
           /\ \A j \in Kinds \ {k} : [t EXCEPT ![k] = o][j] = t[j]
<1> DEFINE Any == [there : BOOLEAN, owner : Nat, values : {Build(j, s) : j \in Kinds, s \in Specs}]
<1>1. t \in [Kinds -> Any] /\ \A j \in Kinds : t[j] \in Objects(j)  BY DEF ObjectTable
<1>2. o \in Any  BY DEF Objects
<1> HIDE DEF Any
<1>3. [t EXCEPT ![k] = o] \in [Kinds -> Any]  BY <1>1, <1>2
<1>4. \A j \in Kinds : [t EXCEPT ![k] = o][j] = IF j = k THEN o ELSE t[j]  BY <1>1
<1>5. \A j \in Kinds : [t EXCEPT ![k] = o][j] \in Objects(j)  BY <1>1, <1>4
<1> QED BY <1>3, <1>4, <1>5 DEF Any, ObjectTable

LEMMA TableType ==
    ASSUME NEW t \in ObjectTable, NEW k \in Kinds
    PROVE  t[k] \in Objects(k) /\ t[k].owner \in Nat /\ t[k].there \in BOOLEAN
BY DEF ObjectTable, Objects

CountersOK == uids \in Nat /\ budget \in 0 .. Budget

LEMMA SpendCounts == CountersOK /\ Spend => budget' \in 0 .. Budget
BY BudgetAssumption DEF CountersOK, Spend

-----------------------------------------------------------------------------
(* What a step writes.                                                     *)

\* One object is replaced, and the informers have news of it.
ObjectWrite ==
    /\ \E k \in Kinds : \E o \in Objects(k) :
          /\ o.there => o.owner # 0
          /\ obj' = [obj EXCEPT ![k] = o]
          /\ k \in news' /\ news \subseteq news'
    /\ news' \subseteq Kinds \cup {"service"}
    /\ svc' \in ServiceObject /\ ("service" \notin news' => svc' = svc)
    /\ UNCHANGED <<svcC, objC>>

\* The service alone is written, with news of it.
ServiceWrite ==
    /\ svc' \in ServiceObject /\ news' = news \cup {"service"}
    /\ UNCHANGED <<obj, svcC, objC>>

\* Nothing is written.  Either the service is queued, or the pass has found
\* no service to work for or everything settled.
WorkerOnly ==
    /\ UNCHANGED <<svc, obj, svcC, objC, news>>
    /\ \/ queued'
       \/ svcC.uid = 0 \/ svcC.deleting
       \/ svcC = svc /\ svc.status = "Healthy" /\ \A k \in Kinds : Settled(k)

\* A view is brought up to date.
Delivery ==
    /\ queued'
    /\ \/ svcC' = svc /\ news' = news \ {"service"} /\ UNCHANGED <<svc, obj, objC>>
       \/ \E k \in Kinds : objC' = [objC EXCEPT ![k] = obj[k]] /\ news' = news \ {k}
                           /\ UNCHANGED <<svc, obj, svcC>>

StepKind == ObjectWrite \/ ServiceWrite \/ WorkerOnly \/ Delivery \/ Restart

\* PutService either changes the service, with news of it, or does nothing.
LEMMA PutServiceEffect ==
    ASSUME NEW s \in ServiceObject, PutService(s)
    PROVE  /\ svc' = s
           /\ \/ news' = news \cup {"service"}
              \/ s = svc /\ news' = news
BY DEF PutService

LEMMA DesiredType ==
    ASSUME TypeOK, svcC.uid # 0, NEW k \in Kinds
    PROVE  /\ Desired(k) \in Objects(k) /\ Desired(k).owner # 0
           /\ \A n \in Nat \ {0} : [Desired(k) EXCEPT !.owner = n] \in Objects(k)
                                   /\ [Desired(k) EXCEPT !.owner = n].owner # 0
<1>1. svcC.uid \in Nat /\ svcC.spec \in Specs  BY DEF TypeOK, ServiceObject
<1> QED BY <1>1 DEF Desired, Objects

LEMMA UserKinds ==
    ASSUME TypeOK,
           \/ \E s \in Specs : CreateService(s) \/ UpdateService(s)
           \/ \E foreground \in BOOLEAN : DeleteService(foreground)
           \/ \E k \in Kinds : UserDelete(k) \/ Collect(k)
           \/ Vanish
    PROVE  (ObjectWrite \/ ServiceWrite) /\ queued' = queued
<1>1. ASSUME NEW s \in ServiceObject, PutService(s), s # svc, UNCHANGED <<obj, svcC, objC>>
      PROVE  ServiceWrite
  BY <1>1, PutServiceEffect DEF ServiceWrite
<1>2. ASSUME NEW k \in Kinds, UserDelete(k) \/ Collect(k) PROVE ObjectWrite /\ queued' = queued
  <2>1. /\ obj' = [obj EXCEPT ![k] = NoObject(k)] /\ news' = news \cup {k}
        /\ UNCHANGED <<svc, svcC, objC, queued>>
    BY <1>2 DEF UserDelete, Collect, PutObject
  <2>2. news \cup {k} \subseteq Kinds \cup {"service"} /\ svc \in ServiceObject
    BY DEF TypeOK
  <2> QED BY <2>1, <2>2, EmptyObjects DEF ObjectWrite
<1>3. ASSUME NEW s \in Specs, CreateService(s) \/ UpdateService(s)
      PROVE  ServiceWrite /\ queued' = queued
  <2> DEFINE new == [uid |-> uids + 1, spec |-> s, status |-> "", deleting |-> FALSE]
             upd == [svc EXCEPT !.spec = s]
  <2>1. CASE CreateService(s)
    <3>0. uids \in Nat  BY DEF TypeOK
    <3>1. uids + 1 \in Nat /\ uids + 1 # 0  BY <3>0
    <3>2. new \in ServiceObject /\ new.uid = uids + 1  BY <3>1 DEF ServiceObject
    <3>3. new # svc
      <4>1. svc.uid = 0  BY <2>1 DEF CreateService
      <4> HIDE DEF new
      <4> QED BY <4>1, <3>1, <3>2
    <3>4. PutService(new) /\ UNCHANGED <<obj, svcC, objC, queued>>
      BY <2>1 DEF CreateService
    <3> HIDE DEF new
    <3> QED BY <1>1, <3>2, <3>3, <3>4
  <2>2. CASE UpdateService(s)
    <3>1. upd \in ServiceObject /\ upd # svc
      BY <2>2 DEF UpdateService, TypeOK, ServiceObject
    <3>2. PutService(upd) /\ UNCHANGED <<obj, svcC, objC, queued>>
      BY <2>2 DEF UpdateService
    <3> HIDE DEF upd
    <3> QED BY <1>1, <3>1, <3>2
  <2> QED BY <1>3, <2>1, <2>2
<1>4. ASSUME NEW foreground \in BOOLEAN, DeleteService(foreground)
      PROVE  ServiceWrite /\ queued' = queued
  <2> DEFINE del == [svc EXCEPT !.deleting = TRUE]
  <2>1. del \in ServiceObject /\ del # svc /\ NoServiceObject # svc
    BY <1>4, EmptyObjects DEF DeleteService, TypeOK, ServiceObject
  <2>2. PutService(del) \/ PutService(NoServiceObject)
    BY <1>4 DEF DeleteService
  <2> HIDE DEF del
  <2>3. UNCHANGED <<obj, svcC, objC, queued>>  BY <1>4 DEF DeleteService
  <2> QED BY <1>1, <2>1, <2>2, <2>3, EmptyObjects
<1>5. CASE Vanish
  <2>1. PutService(NoServiceObject) /\ UNCHANGED <<obj, svcC, objC, queued>>
    BY <1>5 DEF Vanish
  <2>2. svc.deleting /\ ~ NoServiceObject.deleting  BY <1>5 DEF Vanish, NoServiceObject
  <2> QED BY <1>1, <2>1, <2>2, EmptyObjects
<1> QED BY <1>2, <1>3, <1>4, <1>5

\* The status written at the end of a pass.
LEMMA StatusType ==
    ASSUME TypeOK, NEW status \in {"Progressing", "Healthy"}
    PROVE  /\ [svcC EXCEPT !.status = status] \in ServiceObject
           /\ [svcC EXCEPT !.status = status].status = status
BY DEF TypeOK, ServiceObject

LEMMA WriteKinds ==
    ASSUME TypeOK, NEW k \in Kinds, NEW o \in Objects(k), o.there => o.owner # 0,
           UNCHANGED <<svcC, objC>>,
           \/ PutObject(k, o) /\ UNCHANGED svc
           \/ End(TRUE)
    PROVE  StepKind
<1>1. CASE PutObject(k, o) /\ UNCHANGED svc
  <2>1. news \cup {k} \subseteq Kinds \cup {"service"} /\ svc \in ServiceObject
    BY DEF TypeOK
  <2>2. ObjectWrite  BY <1>1, <2>1 DEF PutObject, ObjectWrite
  <2> QED BY <2>2 DEF StepKind
<1>2. CASE End(TRUE)  BY <1>2 DEF End, WorkerOnly, StepKind
<1> QED BY <1>1, <1>2

\* Every step of the worker.
LEMMA ReconcileKinds ==
    ASSUME TypeOK, ObjectsOwned, Reconcile
    PROVE  StepKind /\ UNCHANGED <<uids, budget>>
<1>0. UNCHANGED <<svcC, objC, uids, budget>>
  BY DEF Reconcile, ReconcileGone, ReconcileDeleting, ReconcileFirst, ReconcileCore,
         ReconcileGateway, ReconcileSecret, ReconcileIngress, CreateObject, UpdateObject,
         DeleteGateway, CreateIngress, MarkHealthy, Reached, Working, Pass
<1>1. CASE ReconcileGone \/ ReconcileDeleting
  BY <1>0, <1>1 DEF ReconcileGone, ReconcileDeleting, Deleting, End, WorkerOnly, StepKind
<1>2. CASE ReconcileFirst
  <2>1. CASE End(TRUE)  BY <1>0, <2>1 DEF End, WorkerOnly, StepKind
  <2> DEFINE s == [svcC EXCEPT !.status = "Progressing"]
  <2>2. CASE svc = svcC /\ PutService(s) /\ UNCHANGED obj
    <3>1. s \in ServiceObject /\ s.status = "Progressing"  BY StatusType
    <3>2. svc.status = ""  BY <1>2, <2>2 DEF ReconcileFirst
    <3> HIDE DEF s
    <3>3. s # svc  BY <3>1, <3>2
    <3>4. ServiceWrite  BY <1>0, <2>2, <3>1, <3>3, PutServiceEffect DEF ServiceWrite
    <3> QED BY <3>4, <1>0 DEF StepKind
  <2> QED BY <1>0, <1>2, <2>1, <2>2 DEF ReconcileFirst
<1>3. ASSUME NEW k \in Kinds, CreateObject(k) \/ UpdateObject(k) PROVE StepKind
  <2>1. svcC.uid # 0  BY <1>3 DEF CreateObject, UpdateObject, Reached, Working
  <2>2. CASE CreateObject(k)
    <3>1. (PutObject(k, Desired(k)) /\ UNCHANGED svc) \/ End(TRUE)
      BY <2>2 DEF CreateObject, Write
    <3> QED BY <1>0, <2>1, <3>1, DesiredType, WriteKinds
  <2>3. CASE UpdateObject(k)
    <3> DEFINE o == [Desired(k) EXCEPT !.owner = objC[k].owner]
    <3>1. CASE End(TRUE)  BY <1>0, <3>1 DEF End, WorkerOnly, StepKind
    <3>2. CASE obj[k] = objC[k] /\ PutObject(k, o) /\ UNCHANGED svc
      <4>1. objC[k].there  BY <2>3 DEF UpdateObject
      <4>2. objC[k].owner \in Nat  BY TableType DEF TypeOK
      <4>3. objC[k].owner # 0  BY <3>2, <4>1 DEF ObjectsOwned
      <4>4. o \in Objects(k) /\ o.owner # 0  BY <2>1, <4>2, <4>3, DesiredType
      <4> HIDE DEF o
      <4> QED BY <1>0, <3>2, <4>4, WriteKinds
    <3> QED BY <2>3, <3>1, <3>2 DEF UpdateObject, Write
  <2> QED BY <1>3, <2>2, <2>3
<1>4. CASE DeleteGateway
  <2>1. (PutObject("deployment", NoObject("deployment")) /\ UNCHANGED svc) \/ End(TRUE)
    BY <1>4 DEF DeleteGateway, Write
  <2>2. "deployment" \in Kinds  BY DEF Kinds
  <2> QED BY <1>0, <2>1, <2>2, EmptyObjects, WriteKinds
<1>5. CASE CreateIngress
  <2>1. CASE End(TRUE)  BY <1>0, <2>1 DEF End, WorkerOnly, StepKind
  <2>2. CASE obj' = [obj EXCEPT !["ingress"] = Desired("ingress")] /\ WriteHealthy({"ingress"})
    <3>1. svcC.uid # 0 /\ "ingress" \in Kinds  BY <1>5 DEF CreateIngress, Reached, Working, Kinds
    <3>2. Desired("ingress") \in Objects("ingress") /\ Desired("ingress").owner # 0
      BY <3>1, DesiredType
    <3>3. [svcC EXCEPT !.status = "Healthy"] \in ServiceObject  BY StatusType
    <3>4. svc \in ServiceObject /\ news \subseteq Kinds \cup {"service"}  BY DEF TypeOK
    <3>5. /\ svc' \in ServiceObject /\ ("service" \notin news' => svc' = svc)
          /\ "ingress" \in news' /\ news \subseteq news'
          /\ news' \subseteq Kinds \cup {"service"}
      BY <2>2, <3>1, <3>3, <3>4 DEF WriteHealthy
    <3>6. ObjectWrite  BY <1>0, <2>2, <3>1, <3>2, <3>5 DEF ObjectWrite
    <3> QED BY <1>0, <3>6 DEF StepKind
  <2> QED BY <1>5, <2>1, <2>2 DEF CreateIngress
<1>6. CASE MarkHealthy
  <2>1. WriteHealthy({}) /\ UNCHANGED obj /\ \A k \in Kinds : Settled(k)  BY <1>6 DEF MarkHealthy
  <2>2. CASE svc # svcC
    <3>1. queued' /\ news' = news /\ svc' = svc  BY <2>1, <2>2 DEF WriteHealthy
    <3> QED BY <1>0, <2>1, <3>1 DEF WorkerOnly, StepKind
  <2>3. CASE svc = svcC
    <3> DEFINE s == [svcC EXCEPT !.status = "Healthy"]
    <3>1. s \in ServiceObject /\ s.status = "Healthy"  BY StatusType
    <3>2. svc' = s /\ news' = news \cup {k \in {"service"} : svc' # svc}
      BY <2>1, <2>3 DEF WriteHealthy
    <3> HIDE DEF s
    <3>3. CASE s = svc
      <4>1. news' = news /\ svc' = svc /\ svc.status = "Healthy"  BY <3>1, <3>2, <3>3
      <4> QED BY <1>0, <2>1, <2>3, <4>1 DEF WorkerOnly, StepKind
    <3>4. CASE s # svc
      <4>1. ServiceWrite  BY <1>0, <2>1, <3>1, <3>2, <3>4 DEF ServiceWrite
      <4> QED BY <1>0, <4>1 DEF StepKind
    <3> QED BY <3>3, <3>4
  <2> QED BY <2>2, <2>3
<1>7. \A k \in {"core", "deployment", "secret", "ingress"} : k \in Kinds  BY DEF Kinds
<1> QED BY <1>0, <1>1, <1>2, <1>3, <1>4, <1>5, <1>6, <1>7
        DEF Reconcile, ReconcileCore, ReconcileGateway, ReconcileSecret, ReconcileIngress

\* Every step of the system is of one of these kinds.
LEMMA StepKinds ==
    ASSUME TypeOK, ObjectsOwned, Next
    PROVE  StepKind
<1>1. CASE \/ \E s \in Specs : CreateService(s) \/ UpdateService(s)
           \/ \E foreground \in BOOLEAN : DeleteService(foreground)
           \/ \E k \in Kinds : UserDelete(k) \/ Collect(k)
           \/ Vanish
  BY <1>1, UserKinds DEF StepKind
<1>2. CASE (\E k \in Kinds : ObjectEvent(k)) \/ ServiceEvent
  BY <1>2 DEF ObjectEvent, ServiceEvent, Delivery, StepKind
<1>3. CASE Reconcile  BY <1>3, ReconcileKinds
<1>4. CASE PassFails  BY <1>4 DEF PassFails, WorkerOnly, StepKind
<1>5. CASE Restart  BY <1>5 DEF StepKind
<1> QED BY <1>1, <1>2, <1>3, <1>4, <1>5 DEF Next

LEMMA CountersKept ==
    ASSUME TypeOK, ObjectsOwned, Next
    PROVE  CountersOK' /\ queued' \in BOOLEAN
<1>0. CountersOK  BY DEF TypeOK, CountersOK
<1>1. CASE \E s \in Specs : CreateService(s)
  <2>1. Spend /\ uids' = uids + 1 /\ queued' = queued  BY <1>1 DEF CreateService
  <2>2. uids' \in Nat  BY <1>0, <2>1 DEF CountersOK
  <2>3. queued' \in BOOLEAN  BY <2>1 DEF TypeOK
  <2> QED BY <1>0, <2>1, <2>2, <2>3, SpendCounts DEF CountersOK
<1>2. CASE \/ \E s \in Specs : UpdateService(s)
           \/ \E foreground \in BOOLEAN : DeleteService(foreground)
           \/ \E k \in Kinds : UserDelete(k)
  <2>1. Spend /\ UNCHANGED <<queued, uids>>  BY <1>2 DEF UpdateService, DeleteService, UserDelete
  <2> QED BY <1>0, <2>1, SpendCounts DEF CountersOK, TypeOK
<1>3. CASE (\E k \in Kinds : Collect(k) \/ ObjectEvent(k)) \/ Vanish \/ ServiceEvent
  <2>1. UNCHANGED <<uids, budget>> /\ (queued' = queued \/ queued' = TRUE)
    BY <1>3 DEF Collect, ObjectEvent, Vanish, ServiceEvent
  <2> QED BY <1>0, <2>1 DEF CountersOK, TypeOK
<1>4. CASE Reconcile
  <2>1. UNCHANGED <<uids, budget>>  BY <1>4, ReconcileKinds
  <2>2. queued' \in BOOLEAN
    BY <1>4 DEF Reconcile, ReconcileGone, ReconcileDeleting, ReconcileFirst, ReconcileCore,
                ReconcileGateway, ReconcileSecret, ReconcileIngress, CreateObject, UpdateObject,
                DeleteGateway, CreateIngress, MarkHealthy, WriteHealthy, Write, End
  <2> QED BY <1>0, <2>1, <2>2 DEF CountersOK
<1>5. CASE PassFails \/ Restart
  <2>1. Spend /\ uids' = uids /\ queued' \in BOOLEAN  BY <1>5 DEF PassFails, Restart
  <2> QED BY <1>0, <2>1, SpendCounts DEF CountersOK
<1> QED BY <1>1, <1>2, <1>3, <1>4, <1>5 DEF Next

-----------------------------------------------------------------------------
(* The inductive invariant.                                                *)

LEMMA StoreStep ==
    ASSUME TypeOK, ObjectsOwned, StepKind
    PROVE  /\ svc' \in ServiceObject /\ svcC' \in ServiceObject
           /\ obj' \in ObjectTable /\ objC' \in ObjectTable
           /\ news' \subseteq Kinds \cup {"service"}
           /\ ObjectsOwned'
<1>0. /\ svc \in ServiceObject /\ svcC \in ServiceObject
      /\ obj \in ObjectTable /\ objC \in ObjectTable
      /\ news \subseteq Kinds \cup {"service"}
  BY DEF TypeOK
<1>1. CASE ObjectWrite
  <2>0. PICK k \in Kinds : \E o \in Objects(k) :
           (o.there => o.owner # 0) /\ obj' = [obj EXCEPT ![k] = o]
    BY <1>1 DEF ObjectWrite
  <2>1. PICK o \in Objects(k) : (o.there => o.owner # 0) /\ obj' = [obj EXCEPT ![k] = o]
    BY <2>0
  <2>2. obj' \in ObjectTable /\ obj'[k] = o /\ \A j \in Kinds \ {k} : obj'[j] = obj[j]
    <3>1. /\ [obj EXCEPT ![k] = o] \in ObjectTable /\ [obj EXCEPT ![k] = o][k] = o
          /\ \A j \in Kinds \ {k} : [obj EXCEPT ![k] = o][j] = obj[j]
      BY <1>0, TableExcept
    <3> QED BY <2>1, <3>1, Zenon
  <2>3. ObjectsOwned'  BY <2>1, <2>2 DEF ObjectsOwned
  <2> QED BY <1>0, <1>1, <2>2, <2>3 DEF ObjectWrite
<1>2. CASE ServiceWrite \/ WorkerOnly
  BY <1>0, <1>2 DEF ServiceWrite, WorkerOnly, ObjectsOwned
<1>3. CASE Delivery
  <2>1. obj' = obj /\ svc' = svc /\ news' \subseteq news /\ svcC' \in {svc, svcC}
    BY <1>3 DEF Delivery
  <2>2. objC' \in ObjectTable
    <3>1. ASSUME NEW k \in Kinds PROVE [objC EXCEPT ![k] = obj[k]] \in ObjectTable
      BY <1>0, TableExcept, TableType
    <3> QED BY <1>0, <1>3, <3>1 DEF Delivery
  <2> QED BY <1>0, <2>1, <2>2 DEF ObjectsOwned
<1>4. CASE Restart  BY <1>0, <1>4 DEF Restart, ObjectsOwned
<1> QED BY <1>1, <1>2, <1>3, <1>4 DEF StepKind

LEMMA ViewsStep ==
    ASSUME TypeOK, ViewsCurrent, StepKind
    PROVE  ViewsCurrent'
<1>0. obj \in ObjectTable /\ objC \in ObjectTable /\ "service" \notin Kinds
  BY DEF TypeOK, Kinds
<1>1. CASE ObjectWrite
  <2>0. PICK k \in Kinds : \E o \in Objects(k) :
           obj' = [obj EXCEPT ![k] = o] /\ k \in news' /\ news \subseteq news'
    BY <1>1 DEF ObjectWrite
  <2>1. PICK o \in Objects(k) :
           obj' = [obj EXCEPT ![k] = o] /\ k \in news' /\ news \subseteq news'
    BY <2>0
  <2>2. \A j \in Kinds \ {k} : obj'[j] = obj[j]  BY <1>0, <2>1, TableExcept
  <2>3. \A j \in Kinds : j \notin news' => objC'[j] = obj'[j]
    BY <1>1, <2>1, <2>2 DEF ObjectWrite, ViewsCurrent
  <2>4. "service" \notin news' => svcC' = svc'
    BY <1>1, <2>1 DEF ObjectWrite, ViewsCurrent
  <2> QED BY <2>3, <2>4 DEF ViewsCurrent
<1>2. CASE ServiceWrite \/ WorkerOnly
  BY <1>2 DEF ServiceWrite, WorkerOnly, ViewsCurrent
<1>3. CASE Delivery
  <2>1. CASE svcC' = svc /\ news' = news \ {"service"} /\ UNCHANGED <<svc, obj, objC>>
    BY <1>0, <2>1 DEF ViewsCurrent
  <2>2. ASSUME NEW k \in Kinds, objC' = [objC EXCEPT ![k] = obj[k]], news' = news \ {k},
               UNCHANGED <<svc, obj, svcC>>
        PROVE  ViewsCurrent'
    <3>1. objC'[k] = obj[k] /\ \A j \in Kinds \ {k} : objC'[j] = objC[j]
      BY <1>0, <2>2, TableExcept, TableType
    <3> QED BY <1>0, <2>2, <3>1 DEF ViewsCurrent
  <2> QED BY <1>3, <2>1, <2>2 DEF Delivery
<1>4. CASE Restart  BY <1>4 DEF Restart, ViewsCurrent
<1> QED BY <1>1, <1>2, <1>3, <1>4 DEF StepKind

\* Only the end of a pass without a write brings the controller to rest: it
\* has then found everything settled, unless there is no service to serve.
LEMMA RestStep ==
    ASSUME TypeOK, RestSettled, StepKind
    PROVE  RestSettled'
<1>1. CASE ObjectWrite \/ ServiceWrite
  <2>1. news' # {}  BY <1>1 DEF ObjectWrite, ServiceWrite
  <2> QED BY <2>1 DEF RestSettled
<1>2. CASE WorkerOnly
  <2>1. UNCHANGED <<svcC, objC, news>>  BY <1>2 DEF WorkerOnly
  <2>2. \A k \in Kinds : Settled(k)' <=> Settled(k)  BY <2>1 DEF Settled
  <2> QED BY <1>2, <2>1, <2>2 DEF WorkerOnly, RestSettled
<1>3. CASE Delivery  BY <1>3 DEF Delivery, RestSettled
<1>4. CASE Restart  BY <1>4 DEF Restart, RestSettled
<1> QED BY <1>1, <1>2, <1>3, <1>4 DEF StepKind

LEMMA InitCache == Init => CacheInv
<1> SUFFICES ASSUME Init PROVE CacheInv  OBVIOUS
<1>1. [k \in Kinds |-> NoObject(k)] \in ObjectTable
  <2>1. \A k \in Kinds : NoObject(k) \in Objects(k)  BY EmptyObjects
  <2> QED BY <2>1 DEF ObjectTable, Objects
<1>2. TypeOK
  <2>1. svc \in ServiceObject /\ svcC \in ServiceObject  BY EmptyObjects DEF Init
  <2>2. obj \in ObjectTable /\ objC \in ObjectTable  BY <1>1, Zenon DEF Init
  <2>3. uids \in Nat /\ budget \in 0 .. Budget  BY BudgetAssumption DEF Init
  <2>4. queued \in BOOLEAN /\ news = {}  BY Zenon DEF Init
  <2> QED BY <2>1, <2>2, <2>3, <2>4 DEF TypeOK
<1>3. ObjectsOwned  BY EmptyObjects DEF Init, ObjectsOwned
<1>4. ViewsCurrent  BY DEF Init, ViewsCurrent
<1>5. RestSettled  BY EmptyObjects DEF Init, RestSettled
<1> QED BY <1>2, <1>3, <1>4, <1>5 DEF CacheInv

LEMMA CacheStep == CacheInv /\ [Next]_vars => CacheInv'
<1>1. ASSUME CacheInv, Next PROVE CacheInv'
  <2>1. StepKind  BY <1>1, StepKinds DEF CacheInv
  <2>2. TypeOK'
    BY <1>1, <2>1, StoreStep, CountersKept DEF CacheInv, TypeOK, CountersOK
  <2> QED BY <1>1, <2>1, <2>2, StoreStep, ViewsStep, RestStep DEF CacheInv
<1>2. ASSUME CacheInv, UNCHANGED vars PROVE CacheInv'
  <2> USE <1>2 DEF vars
  <2>1. TypeOK'  BY DEF CacheInv, TypeOK
  <2>2. ObjectsOwned' /\ ViewsCurrent'  BY DEF CacheInv, ObjectsOwned, ViewsCurrent
  <2>3. RestSettled'  BY DEF CacheInv, RestSettled, Settled
  <2> QED BY <2>1, <2>2, <2>3 DEF CacheInv
<1> QED BY <1>1, <1>2

-----------------------------------------------------------------------------
(* The theorems.                                                           *)

\* The state keeps its types: what the controller puts in an object of a
\* kind is always built, for that kind, from a spec some user has written.
THEOREM TypeCorrect == Spec => []TypeOK
<1>1. CacheInv => TypeOK  BY DEF CacheInv
<1> QED BY <1>1, InitCache, CacheStep, PTL DEF Spec

\* When no further pass will come, the service is served: no failed write,
\* lost answer, restart or old view ends the work of the controller early.
THEOREM RestServed == Spec => []RestMeansServed
<1>1. ASSUME CacheInv PROVE RestMeansServed
  <2>1. SUFFICES ASSUME ~ queued, news = {}, \A k \in Kinds : obj[k].owner \in {0, svc.uid},
                        svc.uid # 0, ~ svc.deleting
                 PROVE  Served
    BY DEF RestMeansServed
  <2>2. svcC = svc /\ \A k \in Kinds : objC[k] = obj[k]
    BY <1>1, <2>1 DEF CacheInv, ViewsCurrent
  <2>3. svc.status = "Healthy" /\ \A k \in Kinds : Settled(k)
    BY <1>1, <2>1, <2>2 DEF CacheInv, RestSettled
  <2>4. ASSUME NEW k \in Asked(svc.spec)
        PROVE  obj[k] = [there |-> TRUE, owner |-> svc.uid, values |-> Build(k, svc.spec)]
    <3>1. k \in Kinds  BY DEF Asked
    <3>2. obj[k].there /\ obj[k].values = Build(k, svc.spec)  BY <2>2, <2>3, <2>4, <3>1 DEF Settled
    <3>3. obj[k].owner = svc.uid  BY <1>1, <2>1, <3>1, <3>2 DEF CacheInv, ObjectsOwned
    <3>4. obj[k] \in Objects(k)  BY <1>1, <3>1, TableType DEF CacheInv, TypeOK
    <3>5. obj[k].there = TRUE  BY <3>2, <3>4 DEF Objects
    <3> QED BY <3>2, <3>3, <3>4, <3>5 DEF Objects
  <2>5. "deployment" \notin Asked(svc.spec) => ~ obj["deployment"].there
    BY <2>2, <2>3 DEF Settled, Kinds
  <2>6. obj["ingress"].values = Ingress(svc.spec)
    <3>1. "ingress" \in Asked(svc.spec)  BY DEF Asked, Kinds
    <3>2. Build("ingress", svc.spec) = Ingress(svc.spec)  BY DEF Build
    <3>3. obj["ingress"] = [there |-> TRUE, owner |-> svc.uid, values |-> Ingress(svc.spec)]
      BY <2>4, <3>1, <3>2
    <3> QED BY <3>3
  <2>7. /\ obj["ingress"].values.hosts = {svc.spec.domain} \cup svc.spec.aliases
        /\ svc.spec.crt # 0 => obj["ingress"].values.tls = obj["ingress"].values.hosts
    BY <2>6 DEF Ingress, Hosts
  <2> QED BY <2>3, <2>4, <2>5, <2>7 DEF Served
<1> QED BY <1>1, InitCache, CacheStep, PTL DEF Spec
=============================================================================
