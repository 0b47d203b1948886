----------------------- MODULE DownstreamSync_proofs -----------------------
(***************************************************************************)
(* Theorems about DownstreamSync, for all keys, kinds, namespaces, specs,  *)
(* workers and budgets.                                                    *)
(***************************************************************************)
EXTENDS DownstreamSync, TLAPS

USE DEF upstreamVars, informerVars, queueVars, workerVars, localVars, vars

-----------------------------------------------------------------------------
(* Type correctness.                                                       *)

\* NoObject and what the workers write are local objects.
LEMMA ObjectTypes ==
    ASSUME TypeOK
    PROVE  /\ NoObject \in LocalObject
           /\ NotRead \in Observed
           /\ \A k \in Keys : Seen(k) \in Observed
           /\ \A w \in Workers : Desired(w) \in LocalObject
           /\ \A w \in Workers, o \in LocalObject : Carried(w, o) \in LocalObject
           /\ \A o \in LocalObject : Deleted(o) \in LocalObject
BY DEF TypeOK, NoObject, LocalObject, NotRead, Observed, Seen, Upstream, Desired,
       MirrorOf, Carried, Deleted, Content

\* What the end of a pass leaves of a worker and of the queue.
LEMMA DoneTypes ==
    ASSUME TypeOK, NEW w \in Workers, Done(w)
    PROVE  /\ pc' \in [Workers -> Steps]
           /\ key' \in [Workers -> Keys \cup {NoKey}]
           /\ src' \in [Workers -> Observed]
           /\ cur' \in [Workers -> LocalObject]
           /\ processing' \subseteq Keys
           /\ dirty' \subseteq Keys
BY ObjectTypes DEF TypeOK, Done, Steps

LEMMA InitTypeOK == Init => TypeOK
<1>1. InitialUpstream \subseteq Upstream
  BY DEF InitialUpstream, Upstream, Content
<1>2. InitialLocal \subseteq LocalObject
  BY DEF InitialLocal, LocalObject, NoObject, MirrorOf, ForeignObject, Content
<1>3. NotRead \in Observed /\ NoObject \in LocalObject
  BY DEF NotRead, Observed, NoObject, LocalObject, Content
<1> QED
  BY <1>1, <1>2, <1>3, BudgetAssumption DEF Init, TypeOK, Steps

LEMMA EnvironmentTypeOK ==
    ASSUME TypeOK,
           \/ \E k \in Keys, s \in Specs : UpstreamWrite(k, s)
           \/ \E k \in Keys : UpstreamDelete(k)
           \/ LocalStep
           \/ \E n \in Namespaces : NamespaceGone(n)
    PROVE  TypeOK'
<1>1. ASSUME NEW k \in Keys, NEW s \in Specs, UpstreamWrite(k, s) PROVE TypeOK'
  BY <1>1 DEF UpstreamWrite, TypeOK, Upstream, Content, Spend
<1>2. ASSUME NEW k \in Keys, UpstreamDelete(k) PROVE TypeOK'
  BY <1>2 DEF UpstreamDelete, TypeOK, Upstream, Content, Spend
<1>3. ASSUME NEW k \in Keys, NEW o \in LocalObject, SetLocal(k, o) PROVE TypeOK'
  BY <1>3 DEF SetLocal, TypeOK, Spend
<1>4. ASSUME LocalStep PROVE TypeOK'
  <2>1. ASSUME NEW k \in Keys, NEW s \in Specs, ForeignCreate(k, s) PROVE TypeOK'
    BY <1>3, <2>1 DEF ForeignCreate, ForeignObject, LocalObject, Content
  <2>2. ASSUME NEW k \in Keys,
               ForeignDelete(k) \/ Takeover(k) \/ Hold(k) \/ Release(k)
        PROVE  TypeOK'
    BY <1>3, <2>2, ObjectTypes
       DEF ForeignDelete, Takeover, Hold, Release, TypeOK, LocalObject
  <2>3. ASSUME NEW n \in Namespaces, NamespaceDelete(n) PROVE TypeOK'
    BY <2>3 DEF NamespaceDelete, TypeOK, Spend
  <2> QED BY <1>4, <2>1, <2>2, <2>3 DEF LocalStep
<1>5. ASSUME NEW n \in Namespaces, NamespaceGone(n) PROVE TypeOK'
  BY <1>5, ObjectTypes DEF NamespaceGone, TypeOK
<1> QED BY <1>1, <1>2, <1>4, <1>5

LEMMA ProcessTypeOK ==
    ASSUME TypeOK,
           \/ \E k \in Keys : InformerUpdate(k) \/ MetadataUpdate(k) \/ DelayExpires(k)
           \/ \E e \in events : Deliver(e)
           \/ \E kd \in Kinds : SyncKind(kd) \/ EnqueueExistingMirrors(kd)
           \/ Boot \/ StartWorkers \/ Crash
    PROVE  TypeOK'
<1>1. ASSUME NEW k \in Keys, InformerUpdate(k) PROVE TypeOK'
  BY <1>1, ObjectTypes DEF InformerUpdate, TypeOK, Notification, Observed, Upstream
<1>2. ASSUME NEW k \in Keys, MetadataUpdate(k) PROVE TypeOK'
  BY <1>2 DEF MetadataUpdate, TypeOK, Notification, Observed, Spend
<1>3. ASSUME NEW k \in Keys, DelayExpires(k) PROVE TypeOK'
  BY <1>3 DEF DelayExpires, TypeOK
<1>4. ASSUME NEW e \in events, Deliver(e) PROVE TypeOK'
  BY <1>4 DEF Deliver, EnqueueObject, TypeOK, Notification
<1>5. ASSUME NEW kd \in Kinds, SyncKind(kd) PROVE TypeOK'
  BY <1>5, ObjectTypes DEF SyncKind, TypeOK, Notification, Upstream, Content
<1>6. ASSUME NEW kd \in Kinds, EnqueueExistingMirrors(kd) PROVE TypeOK'
  BY <1>6 DEF EnqueueExistingMirrors, EnqueueObject, TypeOK
<1>7. ASSUME Boot \/ StartWorkers PROVE TypeOK'
  BY <1>7 DEF Boot, StartWorkers, TypeOK
<1>8. ASSUME Crash PROVE TypeOK'
  BY <1>8, ObjectTypes DEF Crash, TypeOK, Steps, Spend
<1> QED BY <1>1, <1>2, <1>3, <1>4, <1>5, <1>6, <1>7, <1>8

LEMMA WorkerTypeOK ==
    ASSUME TypeOK, NEW w \in Workers,
           (\E k \in Keys : Get(w, k)) \/ WorkerStep(w) \/ CallFails(w),
           pc[w] # "idle" => key[w] \in Keys
    PROVE  TypeOK'
<1> USE ObjectTypes
<1>1. ASSUME NEW k \in Keys, Get(w, k) PROVE TypeOK'
  BY <1>1 DEF Get, TypeOK, Steps
<1>2. ASSUME ReconcileKey(w) PROVE TypeOK'
  <2>1. CASE Succeed(w)
    BY <1>2, <2>1, DoneTypes DEF ReconcileKey, Succeed, TypeOK
  <2>2. CASE ~ Succeed(w)
    BY <1>2, <2>2 DEF ReconcileKey, Goto, TypeOK, Steps
  <2> QED BY <2>1, <2>2
<1>3. ASSUME EnsureNamespace(w) PROVE TypeOK'
  BY <1>3, KeysAssumption DEF EnsureNamespace, Goto, TypeOK, Steps
<1>4. ASSUME CreateNamespace(w) PROVE TypeOK'
  <2>1. CASE Goto(w, "upget") /\ UNCHANGED <<src, cur, budget>>
    BY <1>4, <2>1, KeysAssumption DEF CreateNamespace, Goto, TypeOK, Steps
  <2>2. CASE Fail(w) /\ Spend /\ UNCHANGED nsCache
    <3>1. budget' \in Nat
      BY <2>2 DEF Spend, TypeOK
    <3>2. ns' \in [Namespaces -> {"absent", "active", "terminating"}]
      BY <1>4, KeysAssumption DEF CreateNamespace, TypeOK
    <3> QED BY <1>4, <2>2, <3>1, <3>2, DoneTypes DEF CreateNamespace, Fail, TypeOK
  <2> QED BY <1>4, <2>1, <2>2 DEF CreateNamespace
<1>5. ASSUME UpsertGet(w) PROVE TypeOK'
  <2>1. CASE Succeed(w)
    BY <1>5, <2>1, DoneTypes DEF UpsertGet, Succeed, TypeOK
  <2>2. CASE Fail(w)
    BY <1>5, <2>2, DoneTypes DEF UpsertGet, Fail, TypeOK
  <2>3. CASE ~ Succeed(w) /\ ~ Fail(w)
    BY <1>5, <2>3 DEF UpsertGet, Goto, TypeOK, Steps
  <2> QED BY <2>1, <2>2, <2>3
<1>6. ASSUME UpsertCreate(w) \/ UpsertUpdate(w) \/ DeleteMirror(w) PROVE TypeOK'
  <2>1. Done(w) /\ delayed' \subseteq Keys /\ budget' \in Nat
    BY <1>6 DEF UpsertCreate, UpsertUpdate, DeleteMirror, Reply, Succeed, Fail, Spend, TypeOK
  <2>2. local' \in [Keys -> LocalObject]
    BY <1>6 DEF UpsertCreate, UpsertUpdate, DeleteMirror, TypeOK
  <2> QED BY <1>6, <2>1, <2>2, DoneTypes DEF UpsertCreate, UpsertUpdate, DeleteMirror, TypeOK
<1>7. ASSUME DeleteGet(w) PROVE TypeOK'
  <2>1. CASE Succeed(w)
    BY <1>7, <2>1, DoneTypes DEF DeleteGet, Succeed, TypeOK
  <2>2. CASE ~ Succeed(w)
    BY <1>7, <2>2 DEF DeleteGet, Goto, TypeOK, Steps
  <2> QED BY <2>1, <2>2
<1>8. ASSUME CallFails(w) PROVE TypeOK'
  BY <1>8, DoneTypes DEF CallFails, Fail, Spend, TypeOK
<1> QED BY <1>1, <1>2, <1>3, <1>4, <1>5, <1>6, <1>7, <1>8 DEF WorkerStep

-----------------------------------------------------------------------------
(* Custody of keys: who holds what.                                        *)

\* A step of a pass either goes on with the key or gives it back; it leaves
\* the informers alone.
LEMMA PassStep ==
    ASSUME TypeOK, NEW w \in Workers, WorkerStep(w) \/ CallFails(w)
    PROVE  /\ pc[w] # "idle"
           /\ Done(w) \/ \E step \in Steps \ {"idle", "read"} : Goto(w, step)
           /\ UNCHANGED <<up, informerVars>>
<1>1. ASSUME ReconcileKey(w) \/ EnsureNamespace(w) \/ CreateNamespace(w)
      PROVE  /\ pc[w] # "idle"
             /\ Done(w) \/ \E step \in Steps \ {"idle", "read"} : Goto(w, step)
  BY <1>1 DEF ReconcileKey, EnsureNamespace, CreateNamespace, Succeed, Fail, Steps
<1>2. ASSUME UpsertGet(w) \/ DeleteGet(w)
      PROVE  /\ pc[w] # "idle"
             /\ Done(w) \/ \E step \in Steps \ {"idle", "read"} : Goto(w, step)
  BY <1>2 DEF UpsertGet, DeleteGet, Succeed, Fail, Steps
<1>3. ASSUME UpsertCreate(w) \/ UpsertUpdate(w) \/ DeleteMirror(w) \/ CallFails(w)
      PROVE  pc[w] # "idle" /\ Done(w)
  BY <1>3 DEF UpsertCreate, UpsertUpdate, DeleteMirror, CallFails, Reply, Succeed, Fail
<1>4. UNCHANGED <<up, informerVars>>
  BY DEF WorkerStep, ReconcileKey, EnsureNamespace, CreateNamespace, UpsertGet, DeleteGet,
         UpsertCreate, UpsertUpdate, DeleteMirror, CallFails
<1> QED BY <1>1, <1>2, <1>3, <1>4 DEF WorkerStep

\* The steps of Next that leave the workers and the processing set alone.
BesideWorkers == UNCHANGED <<pc, key, src, cur, processing>>

LEMMA NextCases ==
    ASSUME TypeOK, [Next]_vars
    PROVE  \/ BesideWorkers /\ (phase = "running" => phase' = "running")
           \/ Crash
           \/ \E w \in Workers, k \in Keys : Get(w, k)
           \/ \E w \in Workers : WorkerStep(w) \/ CallFails(w)
<1>1. ASSUME NEW k \in Keys, NEW s \in Specs, UpstreamWrite(k, s)
      PROVE  BesideWorkers /\ phase' = phase
  BY <1>1 DEF UpstreamWrite, BesideWorkers
<1>2. ASSUME LocalStep \/ \E n \in Namespaces : NamespaceGone(n)
      PROVE  BesideWorkers /\ phase' = phase
  BY <1>2 DEF LocalStep, ForeignCreate, ForeignDelete, Takeover, Hold, Release, SetLocal,
              NamespaceDelete, NamespaceGone, BesideWorkers
<1>3. ASSUME NEW kd \in Kinds, SyncKind(kd) \/ EnqueueExistingMirrors(kd)
      PROVE  BesideWorkers /\ phase' = phase
  BY <1>3 DEF SyncKind, EnqueueExistingMirrors, BesideWorkers
<1>4. ASSUME NEW e \in events, Deliver(e)
      PROVE  BesideWorkers /\ phase' = phase
  BY <1>4 DEF Deliver, BesideWorkers
<1>5. ASSUME Boot \/ StartWorkers
      PROVE  BesideWorkers /\ phase # "running" /\ phase' \in {"starting", "running"}
  BY <1>5 DEF Boot, StartWorkers, BesideWorkers
<1>6. ASSUME UNCHANGED vars
      PROVE  BesideWorkers /\ phase' = phase
  BY <1>6 DEF BesideWorkers
<1>7. ASSUME NEW k \in Keys, UpstreamDelete(k) \/ InformerUpdate(k)
                \/ MetadataUpdate(k) \/ DelayExpires(k)
      PROVE  BesideWorkers /\ phase' = phase
  BY <1>7 DEF UpstreamDelete, InformerUpdate, MetadataUpdate, DelayExpires, BesideWorkers
<1> QED BY <1>1, <1>2, <1>3, <1>4, <1>5, <1>6, <1>7 DEF Next

LEMMA CustodyStep ==
    ASSUME TypeOK, Custody, [Next]_vars
    PROVE  Custody'
<1>1. ASSUME BesideWorkers, phase = "running" => phase' = "running" PROVE Custody'
  BY <1>1 DEF BesideWorkers, Custody, OneWorkerPerKey
<1>2. ASSUME Crash PROVE Custody'
  BY <1>2 DEF Crash, Custody, OneWorkerPerKey
<1>3. ASSUME NEW w \in Workers, NEW k \in Keys, Get(w, k) PROVE Custody'
  BY <1>3 DEF Get, Custody, OneWorkerPerKey, TypeOK
<1>4. ASSUME NEW w \in Workers, WorkerStep(w) \/ CallFails(w) PROVE Custody'
  <2>1. CASE Done(w)
    BY <1>4, <2>1, PassStep DEF Done, Custody, OneWorkerPerKey, TypeOK
  <2>2. CASE \E step \in Steps \ {"idle", "read"} : Goto(w, step)
    BY <1>4, <2>2, PassStep DEF Goto, Custody, OneWorkerPerKey, TypeOK
  <2> QED BY <1>4, <2>1, <2>2, PassStep
<1> QED BY <1>1, <1>2, <1>3, <1>4, NextCases

LEMMA TypeStep ==
    ASSUME TypeOK, Custody, [Next]_vars
    PROVE  TypeOK'
<1>1. ASSUME UNCHANGED vars PROVE TypeOK'
  BY <1>1 DEF TypeOK
<1>2. \A w \in Workers : pc[w] # "idle" => key[w] \in Keys
  BY DEF Custody, TypeOK
<1> QED BY <1>1, <1>2, EnvironmentTypeOK, ProcessTypeOK, WorkerTypeOK DEF Next

\* Type correctness of the whole specification.
THEOREM TypeCorrect == Spec => []TypeOK
<1>1. Init => TypeOK /\ Custody
  BY InitTypeOK DEF Init, Custody, OneWorkerPerKey
<1>2. TypeOK /\ Custody /\ [Next]_vars => (TypeOK /\ Custody)'
  BY TypeStep, CustodyStep
<1> QED BY <1>1, <1>2, PTL DEF Spec

\* No two workers are ever in a pass over the same key: the queue, not a
\* lock, serialises the calls made for one object.
THEOREM OneWorker == Spec => []OneWorkerPerKey
<1>1. Init => TypeOK /\ Custody
  BY InitTypeOK DEF Init, Custody, OneWorkerPerKey
<1>2. TypeOK /\ Custody /\ [Next]_vars => (TypeOK /\ Custody)'
  BY TypeStep, CustodyStep
<1>3. Custody => OneWorkerPerKey
  BY DEF Custody
<1> QED BY <1>1, <1>2, <1>3, PTL DEF Spec

-----------------------------------------------------------------------------
(* Stale reads are redone.                                                 *)

LEMMA PassKnowledgeStep ==
    ASSUME TypeOK, Custody, PassKnowledge, [Next]_vars
    PROVE  PassKnowledge'
<1> USE DEF PassKnowledge, Working, InScope
<1>1. ASSUME BesideWorkers PROVE PassKnowledge'
  BY <1>1 DEF BesideWorkers
<1>2. ASSUME Crash PROVE PassKnowledge'
  BY <1>2 DEF Crash
<1>3. ASSUME NEW w \in Workers, NEW k \in Keys, Get(w, k) PROVE PassKnowledge'
  BY <1>3 DEF Get, TypeOK
<1>4. ASSUME NEW w \in Workers, WorkerStep(w) \/ CallFails(w) PROVE PassKnowledge'
  <2>1. CASE Done(w)
    BY <2>1 DEF Done, TypeOK
  <2>2. CASE ReconcileKey(w) /\ ~ Done(w)
    BY <2>2 DEF ReconcileKey, Succeed, Goto, TypeOK
  <2>3. CASE EnsureNamespace(w) \/ CreateNamespace(w)
    BY <2>1, <2>3 DEF EnsureNamespace, CreateNamespace, Fail, Goto, TypeOK
  <2>4. CASE (UpsertGet(w) \/ DeleteGet(w)) /\ ~ Done(w)
    BY <2>4 DEF UpsertGet, DeleteGet, Succeed, Fail, Goto, TypeOK
  <2>5. CASE UpsertCreate(w) \/ UpsertUpdate(w) \/ DeleteMirror(w) \/ CallFails(w)
    BY <2>1, <2>5 DEF UpsertCreate, UpsertUpdate, DeleteMirror, CallFails, Reply, Succeed, Fail
  <2> QED BY <1>4, <2>1, <2>2, <2>3, <2>4, <2>5 DEF WorkerStep
<1> QED BY <1>1, <1>2, <1>3, <1>4, NextCases

\* Work that is due stays due: only Get takes a key off the queue and only
\* Deliver takes a notification, putting its key on the queue instead.
LEMMA StaysDue ==
    ASSUME TypeOK, [Next]_vars, NEW k \in Keys, InScope(k),
           k \in dirty \/ Announced(k),
           ~ Crash,
           \A w \in Workers : ~ Get(w, k)
    PROVE  (k \in dirty \/ Announced(k))'
<1> USE DEF Announced, DownstreamSourceEqual
<1>1. ASSUME NEW e \in events, Deliver(e) PROVE (k \in dirty \/ Announced(k))'
  BY <1>1 DEF Deliver, EnqueueObject
<1>2. ASSUME NEW w \in Workers, NEW x \in Keys, Get(w, x) PROVE (k \in dirty \/ Announced(k))'
  BY <1>2 DEF Get
<1>3. ASSUME NEW w \in Workers, WorkerStep(w) \/ CallFails(w)
      PROVE  (k \in dirty \/ Announced(k))'
  BY <1>3, PassStep DEF Done, Goto
<1>4. ASSUME events \subseteq events', dirty \subseteq dirty'
      PROVE  (k \in dirty \/ Announced(k))'
  BY <1>4
<1>5. ASSUME NEW x \in Keys, InformerUpdate(x) \/ MetadataUpdate(x) \/ DelayExpires(x)
      PROVE  (k \in dirty \/ Announced(k))'
  BY <1>4, <1>5 DEF InformerUpdate, MetadataUpdate, DelayExpires
<1>6. ASSUME NEW kd \in Kinds, SyncKind(kd) \/ EnqueueExistingMirrors(kd)
      PROVE  (k \in dirty \/ Announced(k))'
  BY <1>4, <1>6 DEF SyncKind, EnqueueExistingMirrors, EnqueueObject
<1>7. ASSUME \/ \E x \in Keys, s \in Specs : UpstreamWrite(x, s)
             \/ \E x \in Keys : UpstreamDelete(x)
             \/ LocalStep
             \/ \E n \in Namespaces : NamespaceGone(n)
             \/ Boot \/ StartWorkers \/ UNCHANGED vars
      PROVE  (k \in dirty \/ Announced(k))'
  BY <1>7 DEF UpstreamWrite, UpstreamDelete, LocalStep, ForeignCreate, ForeignDelete,
              Takeover, Hold, Release, SetLocal, NamespaceDelete, NamespaceGone, Boot, StartWorkers
<1> QED BY <1>1, <1>2, <1>3, <1>5, <1>6, <1>7 DEF Next

\* How the cached content of a key changes: by the initial list of its kind,
\* before workers run, or by an informer update that is announced.
LEMMA CacheChange ==
    ASSUME TypeOK, [Next]_vars, NEW k \in Keys, cache'[k].spec # cache[k].spec, ~ Crash
    PROVE  \/ phase = "starting" /\ BesideWorkers
           \/ Announced(k)' /\ BesideWorkers
<1> USE DEF Announced, DownstreamSourceEqual, BesideWorkers
<1>1. ASSUME NEW x \in Keys, InformerUpdate(x) PROVE Announced(k)' /\ BesideWorkers
  <2>1. x = k
    BY <1>1 DEF InformerUpdate, TypeOK
  <2>2. cache'[k].spec = up[k].spec
    BY <1>1, <2>1 DEF InformerUpdate, Seen, TypeOK
  <2> DEFINE e == [key |-> k, old |-> cache[k].spec, new |-> up[k].spec]
  <2>3. e \in events' /\ BesideWorkers
    BY <1>1, <2>1, <2>2 DEF InformerUpdate
  <2>4. e.key = k /\ e.old # e.new
    BY <2>2
  <2> QED BY <2>3, <2>4
<1>2. ASSUME NEW kd \in Kinds, SyncKind(kd) PROVE phase = "starting" /\ BesideWorkers
  BY <1>2 DEF SyncKind
<1>3. ASSUME NEW w \in Workers, WorkerStep(w) \/ CallFails(w) PROVE FALSE
  BY <1>3, PassStep
<1>4. ASSUME UNCHANGED cache PROVE FALSE
  BY <1>4
<1> QED
  BY <1>1, <1>2, <1>3, <1>4
     DEF Next, UpstreamWrite, UpstreamDelete, LocalStep, ForeignCreate, ForeignDelete,
         Takeover, Hold, Release, SetLocal, NamespaceDelete, NamespaceGone, Boot, StartWorkers,
         MetadataUpdate, DelayExpires, Deliver, EnqueueExistingMirrors, Get

LEMMA StaleReadStep ==
    ASSUME FreshInv, [Next]_vars
    PROVE  StaleReadIsRedone'
<1> USE DEF FreshInv
<1> SUFFICES ASSUME NEW w \in Workers, Working(w)', src'[w].spec # cache'[key'[w]].spec
             PROVE  (key[w] \in dirty \/ Announced(key[w]))'
  BY DEF StaleReadIsRedone, Working
<1>1. ~ Crash
  BY DEF Crash, Working
<1>2. pc[w] # "idle" /\ key[w] \in Keys /\ key'[w] = key[w]
  <2>1. CASE BesideWorkers
    BY <2>1 DEF BesideWorkers, Custody, TypeOK, Working
  <2>2. ASSUME NEW v \in Workers, NEW k \in Keys, Get(v, k)
        PROVE  pc[w] # "idle" /\ key[w] \in Keys /\ key'[w] = key[w]
    BY <2>2 DEF Get, Custody, TypeOK, Working
  <2>3. ASSUME NEW v \in Workers, WorkerStep(v) \/ CallFails(v)
        PROVE  pc[w] # "idle" /\ key[w] \in Keys /\ key'[w] = key[w]
    BY <2>3, PassStep DEF Done, Goto, Custody, TypeOK, Working
  <2> QED BY <1>1, <2>1, <2>2, <2>3, NextCases
<1> DEFINE k == key[w]
<1>3. \A v \in Workers : ~ Get(v, k)
  BY <1>2 DEF Get, Custody
<1>4. CASE cache'[k].spec # cache[k].spec
  BY <1>1, <1>2, <1>4, CacheChange DEF Custody, Working, BesideWorkers
<1>5. CASE cache'[k].spec = cache[k].spec /\ Working(w) /\ src'[w] = src[w]
  <2>1. k \in dirty \/ Announced(k)
    BY <1>2, <1>5 DEF StaleReadIsRedone, Working
  <2>2. InScope(k)
    BY <1>5 DEF PassKnowledge
  <2> QED BY <1>1, <1>2, <1>3, <2>1, <2>2, StaysDue
<1>6. CASE cache'[k].spec = cache[k].spec /\ ~ (Working(w) /\ src'[w] = src[w])
  <2>1. CASE BesideWorkers
    BY <1>6, <2>1 DEF BesideWorkers, Working
  <2>2. ASSUME NEW v \in Workers, NEW x \in Keys, Get(v, x) PROVE FALSE
    BY <1>2, <1>6, <2>2 DEF Get, Working, TypeOK
  <2>3. ASSUME NEW v \in Workers, WorkerStep(v) \/ CallFails(v) PROVE FALSE
    <3>1. CASE v # w
      <4>1. pc'[w] = pc[w] /\ src'[w] = src[w]
        BY <2>3, <3>1
           DEF WorkerStep, ReconcileKey, EnsureNamespace, CreateNamespace, UpsertGet, DeleteGet,
               UpsertCreate, UpsertUpdate, DeleteMirror, CallFails, Reply, Succeed, Fail, Done,
               Goto, TypeOK
      <4> QED BY <1>6, <4>1 DEF Working
    <3>2. CASE v = w /\ ReconcileKey(w)
      BY <1>2, <1>6, <3>2 DEF ReconcileKey, Succeed, Done, TypeOK, Working
    <3>3. CASE v = w /\ ~ ReconcileKey(w) /\ ~ Done(w)
      BY <1>6, <2>3, <3>3
         DEF WorkerStep, EnsureNamespace, CreateNamespace, UpsertGet, DeleteGet,
             UpsertCreate, UpsertUpdate, DeleteMirror, CallFails, Reply, Succeed, Fail, Working
    <3>4. CASE v = w /\ Done(w)
      BY <3>4 DEF Done, TypeOK, Working
    <3> QED BY <3>1, <3>2, <3>3, <3>4
  <2> QED BY <1>1, <2>1, <2>2, <2>3, NextCases
<1> QED BY <1>4, <1>5, <1>6

LEMMA FreshStep ==
    ASSUME FreshInv, [Next]_vars
    PROVE  FreshInv'
BY TypeStep, CustodyStep, PassKnowledgeStep, StaleReadStep DEF FreshInv

LEMMA FreshInit == Init => FreshInv
BY InitTypeOK DEF Init, FreshInv, Custody, OneWorkerPerKey, PassKnowledge, Working,
                  StaleReadIsRedone

\* A worker that acts on a source the informer has since replaced is always
\* followed by another pass over the key, whatever else happens.
THEOREM StaleReadsRedone == Spec => []StaleReadIsRedone
<1>1. FreshInv => StaleReadIsRedone
  BY DEF FreshInv
<1> QED BY <1>1, FreshInit, FreshStep, PTL DEF Spec

-----------------------------------------------------------------------------
(* No work is lost, when nobody else reaches into the mirrors.             *)

LEMMA StartOrderStep ==
    ASSUME TypeOK, StartOrder, [Next]_vars
    PROVE  StartOrder'
<1> USE DEF StartOrder
<1>1. ASSUME NEW kd \in Kinds, SyncKind(kd) PROVE StartOrder'
  BY <1>1 DEF SyncKind
<1>2. ASSUME NEW kd \in Kinds, EnqueueExistingMirrors(kd) PROVE StartOrder'
  BY <1>2 DEF EnqueueExistingMirrors, WaitForCacheSync, TypeOK
<1>3. ASSUME Boot \/ StartWorkers \/ Crash PROVE StartOrder'
  BY <1>3 DEF Boot, StartWorkers, Crash
<1>4. ASSUME UNCHANGED <<phase, synced, swept>> PROVE StartOrder'
  BY <1>4
<1>5. ASSUME NEW w \in Workers, WorkerStep(w) \/ CallFails(w) PROVE StartOrder'
  BY <1>4, <1>5, PassStep
<1> QED
  BY <1>1, <1>2, <1>3, <1>4, <1>5
     DEF Next, UpstreamWrite, UpstreamDelete, InformerUpdate, MetadataUpdate, Deliver, Get,
         DelayExpires, LocalStep, ForeignCreate, ForeignDelete, Takeover, Hold, Release,
         SetLocal, NamespaceDelete, NamespaceGone

LEMMA QuietClusterStep ==
    ASSUME LocalActors \subseteq {"foreign"}, TypeOK, Custody, QuietCluster, [Next]_vars
    PROVE  QuietCluster'
<1> USE DEF QuietCluster
<1>1. ASSUME UNCHANGED <<local, ns>> PROVE QuietCluster'
  BY <1>1
<1>2. ASSUME LocalStep PROVE QuietCluster'
  BY <1>2 DEF LocalStep, ForeignCreate, ForeignDelete, Takeover, Hold, Release, SetLocal,
              NamespaceDelete, ForeignObject, Deleted, NoObject, TypeOK
<1>3. ASSUME NEW n \in Namespaces, NamespaceGone(n) PROVE QuietCluster'
  BY <1>3 DEF NamespaceGone
<1>4. ASSUME NEW w \in Workers, CreateNamespace(w) PROVE QuietCluster'
  BY <1>4 DEF CreateNamespace, TypeOK
<1>5. ASSUME NEW w \in Workers, UpsertCreate(w) PROVE QuietCluster'
  BY <1>5 DEF UpsertCreate, Desired, MirrorOf, TypeOK
<1>6. ASSUME NEW w \in Workers, UpsertUpdate(w) PROVE QuietCluster'
  BY <1>6 DEF UpsertUpdate, Unchanged, Carried, Desired, MirrorOf, TypeOK
<1>7. ASSUME NEW w \in Workers, DeleteMirror(w) PROVE QuietCluster'
  BY <1>7 DEF DeleteMirror, Deleted, NoObject, TypeOK
<1> QED
  BY <1>1, <1>2, <1>3, <1>4, <1>5, <1>6, <1>7
     DEF Next, UpstreamWrite, UpstreamDelete, InformerUpdate, MetadataUpdate, Deliver, Get,
         DelayExpires, SyncKind, EnqueueExistingMirrors, Boot, StartWorkers, Crash,
         WorkerStep, ReconcileKey, EnsureNamespace, UpsertGet, DeleteGet, CallFails


\* How a pass ends: with an error and a retry, on a key that is out of scope,
\* or with the local object its source asks for.  Other keys are untouched.
LEMMA EndOfPass ==
    ASSUME FreshInv, QuietCluster, NEW w \in Workers, WorkerStep(w) \/ CallFails(w)
    PROVE  /\ \A x \in Keys \ {key[w]} : local'[x] = local[x]
           /\ delayed \subseteq delayed'
           /\ Done(w) => \/ key[w] \in delayed'
                         \/ ~ InScope(key[w])
                         \/ Working(w) /\ src[w].spec = NoSpec /\ local'[key[w]].owner # "self"
                         \/ /\ Working(w)
                            /\ src[w].spec # NoSpec
                            /\ local'[key[w]].owner = "self"
                            /\ local'[key[w]].life = "live"
                            /\ local'[key[w]].spec = src[w].spec
<1> DEFINE k == key[w]
<1>0. pc[w] # "idle" /\ k \in Keys /\ k # NoKey /\ local[k] \in LocalObject
  BY PassStep, KeysAssumption DEF FreshInv, Custody, TypeOK
<1>1. CASE CallFails(w)
  BY <1>1 DEF CallFails, Fail
<1>2. CASE ReconcileKey(w)
  BY <1>0, <1>2 DEF ReconcileKey, Succeed, Done, Goto, FreshInv, TypeOK
<1>3. CASE EnsureNamespace(w) \/ CreateNamespace(w)
  BY <1>0, <1>3 DEF EnsureNamespace, CreateNamespace, Fail, Done, Goto, FreshInv, TypeOK
<1>4. CASE UpsertGet(w)
  <2>1. local' = local /\ delayed \subseteq delayed'
    BY <1>4 DEF UpsertGet, Goto, Succeed, Fail
  <2>2. ASSUME Done(w) PROVE \/ k \in delayed'
                             \/ local[k].owner = "self" /\ SameObject(local[k], Carried(w, local[k]))
    BY <1>0, <1>4, <2>2 DEF UpsertGet, Goto, Done, Succeed, Fail, FreshInv, TypeOK, QuietCluster
  <2>3. ASSUME SameObject(local[k], Carried(w, local[k])) PROVE local[k].spec = src[w].spec
    BY <1>0, <2>3 DEF SameObject, Carried, Desired, MirrorOf, LocalObject
  <2>4. Working(w) /\ src[w].spec # NoSpec /\ local[k].life = "live"
    BY <1>0, <1>4 DEF UpsertGet, FreshInv, PassKnowledge, Working, QuietCluster
  <2> QED BY <2>1, <2>2, <2>3, <2>4
<1>5. CASE UpsertCreate(w)
  <2>1. Working(w) /\ src[w].spec # NoSpec
    BY <1>5 DEF UpsertCreate, FreshInv, PassKnowledge, Working
  <2> QED BY <1>0, <1>5, <2>1 DEF UpsertCreate, Reply, Succeed, Fail, Desired, MirrorOf,
                                  FreshInv, TypeOK
<1>6. CASE UpsertUpdate(w)
  <2>1. Working(w) /\ src[w].spec # NoSpec
    BY <1>6 DEF UpsertUpdate, FreshInv, PassKnowledge, Working
  <2> QED BY <1>0, <1>6, <2>1 DEF UpsertUpdate, Reply, Succeed, Fail, Carried, Desired, MirrorOf,
                                  FreshInv, TypeOK
<1>7. CASE DeleteGet(w)
  <2>1. Working(w) /\ src[w].spec = NoSpec
    BY <1>7 DEF DeleteGet, FreshInv, PassKnowledge, Working
  <2> QED BY <1>0, <1>7, <2>1 DEF DeleteGet, Succeed, Done, Goto, FreshInv, TypeOK
<1>8. CASE DeleteMirror(w)
  <2>1. Working(w) /\ src[w].spec = NoSpec
    BY <1>8 DEF DeleteMirror, FreshInv, PassKnowledge, Working
  <2>2. local'[k].owner = "none"
    BY <1>0, <1>8 DEF DeleteMirror, Deleted, NoObject, QuietCluster, FreshInv, TypeOK
  <2> QED BY <1>0, <1>8, <2>1, <2>2 DEF DeleteMirror, Reply, Succeed, Fail, FreshInv, TypeOK
<1> QED BY <1>1, <1>2, <1>3, <1>4, <1>5, <1>6, <1>7, <1>8 DEF WorkerStep

\* A queued key stays queued until a worker takes it.
LEMMA StaysQueued ==
    ASSUME FreshInv, QuietCluster, [Next]_vars, NEW k \in Keys, InScope(k), Queued(k), ~ Crash,
           \A w \in Workers : ~ Get(w, k)
    PROVE  Queued(k)'
<1>1. CASE k \in dirty \/ Announced(k)
  BY <1>1, StaysDue DEF FreshInv, Queued
<1>2. CASE k \in delayed
  <2>1. ASSUME NEW x \in Keys, DelayExpires(x) PROVE Queued(k)'
    BY <1>2, <2>1 DEF DelayExpires, Queued
  <2>2. ASSUME NEW w \in Workers, WorkerStep(w) \/ CallFails(w) PROVE Queued(k)'
    BY <1>2, <2>2, EndOfPass DEF Queued
  <2>3. ASSUME UNCHANGED delayed PROVE Queued(k)'
    BY <1>2, <2>3 DEF Queued
  <2> QED
    BY <2>1, <2>2, <2>3
       DEF Next, UpstreamWrite, UpstreamDelete, InformerUpdate, MetadataUpdate, Deliver, Get,
           SyncKind, EnqueueExistingMirrors, Boot, StartWorkers, LocalStep, ForeignCreate,
           ForeignDelete, Takeover, Hold, Release, SetLocal, NamespaceDelete, NamespaceGone
<1> QED BY <1>1, <1>2 DEF Queued

LEMMA NothingLostStep ==
    ASSUME LocalActors \subseteq {"foreign"}, NoLostInv, [Next]_vars
    PROVE  NothingLost'
<1> USE DEF NoLostInv
<1> SUFFICES ASSUME NEW k \in Keys, InScope(k), Covered(k)', ~ Mirrors(k, cache[k].spec)'
             PROVE  (Queued(k) \/ Held(k))'
  BY DEF NothingLost, InScope
<1>1. ~ Crash
  BY DEF Crash, Covered
<1>2. ASSUME Covered(k), ~ Mirrors(k, cache[k].spec), BesideWorkers PROVE (Queued(k) \/ Held(k))'
  <2>1. Queued(k) \/ Held(k)
    BY <1>2 DEF NothingLost
  <2>2. Held(k) => Held(k)'
    BY <1>2 DEF Held, BesideWorkers
  <2>3. \A w \in Workers : ~ Get(w, k)
    BY <1>2 DEF Get, BesideWorkers, FreshInv, TypeOK
  <2> QED BY <1>1, <2>1, <2>2, <2>3, StaysQueued
<1>3. ASSUME NEW w \in Workers, NEW x \in Keys, Get(w, x) PROVE (Queued(k) \/ Held(k))'
  <2>1. CASE x = k
    BY <1>3, <2>1 DEF Get, Held, FreshInv, TypeOK
  <2>2. CASE x # k
    <3>1. Covered(k) /\ ~ Mirrors(k, cache[k].spec)
      BY <1>3 DEF Get, Covered, Mirrors
    <3>2. Queued(k) => Queued(k)'
      BY <1>3, <2>2 DEF Get, Queued, Announced
    <3>3. Held(k) => Held(k)'
      BY <1>3 DEF Get, Held, FreshInv, TypeOK
    <3> QED BY <3>1, <3>2, <3>3 DEF NothingLost
  <2> QED BY <2>1, <2>2
<1>4. ASSUME NEW w \in Workers, WorkerStep(w) \/ CallFails(w) PROVE (Queued(k) \/ Held(k))'
  <2>1. UNCHANGED informerVars /\ pc[w] # "idle" /\ key[w] \in Keys
    BY <1>4, PassStep DEF FreshInv, Custody, TypeOK
  <2>2. CASE key[w] = k /\ ~ Done(w)
    BY <1>4, <2>2, PassStep DEF Goto, Held, FreshInv, TypeOK
  <2>3. CASE key[w] = k /\ Done(w)
    <3>1. CASE k \in delayed'
      BY <3>1 DEF Queued
    <3>2. CASE k \notin delayed'
      <4>1. Working(w) /\ src[w].spec # cache[k].spec
        BY <1>4, <2>1, <2>3, <3>2, EndOfPass DEF Mirrors
      <4>2. k \in dirty \/ Announced(k)
        BY <2>3, <4>1 DEF FreshInv, StaleReadIsRedone, Working
      <4> QED BY <2>1, <2>3, <4>2 DEF Done, Queued, Announced
    <3> QED BY <3>1, <3>2
  <2>4. CASE key[w] # k
    <3>1. local'[k] = local[k] /\ delayed \subseteq delayed' /\ dirty' = dirty
      BY <1>4, <2>4, EndOfPass, PassStep DEF FreshInv, Done, Goto
    <3>2. Covered(k) /\ ~ Mirrors(k, cache[k].spec)
      BY <2>1, <3>1 DEF Covered, Mirrors
    <3>3. Queued(k) => Queued(k)'
      BY <2>1, <3>1 DEF Queued, Announced
    <3>4. Held(k) => Held(k)'
      BY <1>4, <2>4, PassStep DEF Held, Done, Goto, FreshInv, TypeOK
    <3> QED BY <3>2, <3>3, <3>4 DEF NothingLost
  <2> QED BY <2>2, <2>3, <2>4
<1>5. ASSUME NEW x \in Keys, InformerUpdate(x) PROVE (Queued(k) \/ Held(k))'
  <2>1. BesideWorkers /\ UNCHANGED <<phase, synced, swept, local>>
    BY <1>5 DEF InformerUpdate, BesideWorkers
  <2>2. CASE cache'[k].spec # cache[k].spec
    <3>1. Announced(k)'
      <4>1. x = k
        BY <1>5, <2>2 DEF InformerUpdate, FreshInv, TypeOK
      <4>2. cache'[k].spec = up[k].spec
        BY <1>5, <4>1 DEF InformerUpdate, Seen, FreshInv, TypeOK
      <4> DEFINE e == [key |-> k, old |-> cache[k].spec, new |-> up[k].spec]
      <4>3. e \in events'
        BY <1>5, <2>2, <4>1, <4>2 DEF InformerUpdate
      <4>4. e.key = k /\ e.old # e.new
        BY <2>2, <4>2
      <4> QED BY <4>3, <4>4 DEF Announced, DownstreamSourceEqual
    <3> QED BY <3>1 DEF Queued
  <2>3. CASE cache'[k].spec = cache[k].spec
    BY <1>2, <2>1, <2>3 DEF Covered, Mirrors
  <2> QED BY <2>2, <2>3
<1>6. ASSUME NEW kd \in Kinds, SyncKind(kd) PROVE (Queued(k) \/ Held(k))'
  <2>1. CASE KindOf[k] = kd
    <3>1. up[k].spec # NoSpec
      BY <1>6, <2>1 DEF SyncKind, Covered, StartOrder, Seen, FreshInv, TypeOK
    <3> DEFINE e == [key |-> k, old |-> NoSpec, new |-> up[k].spec]
    <3>2. e \in events'
      BY <1>6, <2>1, <3>1 DEF SyncKind
    <3>3. e.key = k /\ e.old # e.new
      BY <3>1
    <3> QED BY <3>2, <3>3 DEF Queued, Announced, DownstreamSourceEqual
  <2>2. CASE KindOf[k] # kd
    BY <1>2, <1>6, <2>2 DEF SyncKind, BesideWorkers, Covered, Mirrors
  <2> QED BY <2>1, <2>2
<1>7. ASSUME NEW kd \in Kinds, EnqueueExistingMirrors(kd) PROVE (Queued(k) \/ Held(k))'
  <2>1. CASE KindOf[k] = kd /\ cache[k].spec = NoSpec
    BY <1>7, <2>1 DEF EnqueueExistingMirrors, EnqueueObject, Mirrors, Queued
  <2>2. CASE KindOf[k] # kd \/ cache[k].spec # NoSpec
    BY <1>2, <1>7, <2>2, KeysAssumption
       DEF EnqueueExistingMirrors, WaitForCacheSync, BesideWorkers, Covered, Mirrors
  <2> QED BY <2>1, <2>2
<1>8. ASSUME LocalStep PROVE (Queued(k) \/ Held(k))'
  <2>1. BesideWorkers /\ UNCHANGED <<cache, synced, swept>>
    BY <1>8 DEF LocalStep, ForeignCreate, ForeignDelete, Takeover, Hold, Release, SetLocal,
                NamespaceDelete, BesideWorkers
  <2>2. local'[k] = local[k] \/ (local[k].owner # "self" /\ local'[k].owner # "self")
    <3>1. PICK x \in Keys : ForeignDelete(x) \/ \E s \in Specs : ForeignCreate(x, s)
      BY <1>8 DEF LocalStep, Takeover, Hold, Release, NamespaceDelete
    <3>2. CASE x # k
      BY <3>1, <3>2 DEF ForeignDelete, ForeignCreate, SetLocal, FreshInv, TypeOK
    <3>3. CASE x = k /\ ForeignDelete(x)
      BY <3>3 DEF ForeignDelete, SetLocal, Deleted, NoObject, QuietCluster, FreshInv, TypeOK
    <3>4. CASE x = k /\ \E s \in Specs : ForeignCreate(x, s)
      BY <3>4 DEF ForeignCreate, SetLocal, ForeignObject, FreshInv, TypeOK
    <3> QED BY <3>1, <3>2, <3>3, <3>4
  <2> QED BY <1>2, <2>1, <2>2 DEF Covered, Mirrors
<1>9. ASSUME \/ \E x \in Keys, s \in Specs : UpstreamWrite(x, s)
             \/ \E x \in Keys : UpstreamDelete(x) \/ MetadataUpdate(x) \/ DelayExpires(x)
             \/ \E e \in events : Deliver(e)
             \/ Boot \/ StartWorkers \/ UNCHANGED vars
      PROVE  (Queued(k) \/ Held(k))'
  <2>1. BesideWorkers /\ UNCHANGED <<cache, synced, swept, local>>
    BY <1>9 DEF UpstreamWrite, UpstreamDelete, MetadataUpdate, DelayExpires, Deliver, Boot,
                StartWorkers, BesideWorkers
  <2> QED BY <1>2, <2>1 DEF Covered, Mirrors
<1>10. ASSUME NEW n \in Namespaces, NamespaceGone(n) PROVE FALSE
  BY <1>10 DEF NamespaceGone, QuietCluster
<1> QED
  BY <1>1, <1>3, <1>4, <1>5, <1>6, <1>7, <1>8, <1>9, <1>10 DEF Next

LEMMA NoLostInit == Init => NoLostInv
<1> SUFFICES ASSUME Init PROVE NoLostInv
  OBVIOUS
<1>1. StartOrder /\ NothingLost
  BY DEF Init, StartOrder, NothingLost, Covered
<1>2. QuietCluster
  BY DEF Init, QuietCluster, InitialLocal, NoObject, MirrorOf, ForeignObject
<1> QED BY <1>1, <1>2, FreshInit DEF NoLostInv

LEMMA NoLostStep ==
    ASSUME LocalActors \subseteq {"foreign"}, NoLostInv, [Next]_vars
    PROVE  NoLostInv'
<1>1. FreshInv'
  BY FreshStep DEF NoLostInv
<1>2. StartOrder' /\ QuietCluster'
  BY StartOrderStep, QuietClusterStep DEF NoLostInv, FreshInv
<1>3. NothingLost'
  BY NothingLostStep
<1> QED BY <1>1, <1>2, <1>3 DEF NoLostInv

\* Once the workers run, a key in scope whose mirror differs from the informer
\* cache is queued, announced, waiting for its retry or with a worker, if
\* the only other clients of the local cluster create and delete objects of
\* their own.
THEOREM NoWorkLost ==
    ASSUME LocalActors \subseteq {"foreign"}
    PROVE  Spec => []NoLostWork
<1>1. NoLostInv /\ [Next]_vars => NoLostInv'
  BY NoLostStep
<1>2. NoLostInv => NoLostWork
  BY KeysAssumption DEF NoLostInv, StartOrder, NothingLost, Covered, NoLostWork
<1> QED BY <1>1, <1>2, NoLostInit, PTL DEF Spec

-----------------------------------------------------------------------------
(* What workers write, and to whom it belongs.                             *)

\* A write of a worker is to the key it holds, which is in scope, and it
\* starts from what the worker knows.
LEMMA WriteCases ==
    ASSUME FreshInv, WorkersWrite, NEW k \in Keys, local'[k] # local[k]
    PROVE  \E w \in Workers :
               /\ key[w] = k /\ InScope(k) /\ Working(w) /\ pc'[w] = "idle"
               /\ \/ /\ pc[w] = "create"
                     /\ local[k].owner = "none"
                     /\ local'[k] = Desired(w)
                  \/ /\ pc[w] = "update"
                     /\ local[k] = cur[w] /\ cur[w].owner = "self" /\ cur[w].life = "live"
                     /\ local'[k] = Carried(w, local[k])
                  \/ /\ pc[w] = "delete" /\ cur[w].owner = "self"
                     /\ src[w].spec = NoSpec
                     /\ local'[k] = Deleted(local[k])
<1>1. PICK w \in Workers : UpsertCreate(w) \/ UpsertUpdate(w) \/ DeleteMirror(w)
  BY DEF WorkersWrite
<1>2. pc[w] \in {"create", "update", "delete"} /\ Working(w)
  BY <1>1 DEF UpsertCreate, UpsertUpdate, DeleteMirror, Working
<1>3. key[w] \in Keys /\ InScope(key[w])
  BY <1>2 DEF FreshInv, Custody, PassKnowledge, TypeOK
<1>4. key[w] = k
  BY <1>1, <1>3 DEF UpsertCreate, UpsertUpdate, DeleteMirror, FreshInv, TypeOK
<1>5. pc'[w] = "idle"
  BY <1>1 DEF UpsertCreate, UpsertUpdate, DeleteMirror, Reply, Succeed, Fail, Done, FreshInv, TypeOK
<1>6. CASE UpsertCreate(w)
  BY <1>2, <1>3, <1>4, <1>6, <1>5 DEF UpsertCreate, FreshInv, TypeOK
<1>7. CASE UpsertUpdate(w)
  BY <1>2, <1>3, <1>4, <1>7, <1>5 DEF UpsertUpdate, Unchanged, FreshInv, PassKnowledge, TypeOK
<1>8. CASE DeleteMirror(w)
  BY <1>2, <1>3, <1>4, <1>8, <1>5 DEF DeleteMirror, FreshInv, PassKnowledge, TypeOK
<1> QED BY <1>1, <1>6, <1>7, <1>8

\* Workers leave objects without this source's label alone, except for one
\* that changed hands between deleteMirror's check and its delete by name.
THEOREM ForeignObjectsKept == Spec => ForeignUntouched
<1>1. ASSUME FreshInv, NEW k \in Keys, WorkersWrite,
             local[k].owner = "other", local'[k] # local[k]
      PROVE  \E w \in Workers : /\ pc[w] = "delete" /\ key[w] = k
                                /\ cur[w].owner = "self" /\ cur[w] # local[k]
  BY <1>1, WriteCases
<1>2. FreshInv => \A k \in Keys :
          WorkersWrite /\ local[k].owner = "other" /\ local'[k] # local[k]
              => \E w \in Workers :
                    /\ pc[w] = "delete" /\ key[w] = k
                    /\ cur[w].owner = "self" /\ cur[w] # local[k]
  BY <1>1
<1> QED BY <1>2, FreshInit, FreshStep, PTL DEF Spec, ForeignUntouched

\* Finalizers, owner references and status that the local cluster put on a
\* mirror survive every write of a worker.
THEOREM LocalPartKept == Spec => LocalFieldsKept
<1>1. ASSUME FreshInv, NEW k \in Keys, WorkersWrite,
             local[k].owner = "self", local'[k].owner = "self"
      PROVE  local'[k].fin = local[k].fin
  <2>1. local[k] \in LocalObject
    BY <1>1 DEF FreshInv, TypeOK
  <2>2. \A w \in Workers : Carried(w, local[k]).fin = local[k].fin
    BY DEF Carried, Desired, MirrorOf
  <2>3. Deleted(local[k]).owner = "self" => Deleted(local[k]).fin = local[k].fin
    BY <2>1 DEF Deleted, NoObject, LocalObject
  <2> QED BY <1>1, <2>2, <2>3, WriteCases
<1>2. FreshInv => \A k \in Keys :
          WorkersWrite /\ local[k].owner = "self" /\ local'[k].owner = "self"
              => local'[k].fin = local[k].fin
  BY <1>1
<1> QED BY <1>2, FreshInit, FreshStep, PTL DEF Spec, LocalFieldsKept

\* A synchroniser with a target namespace writes to no object of another
\* namespace and creates no other namespace.
THEOREM ScopeKept == Spec => OutOfScopeUntouched
<1>1. ASSUME FreshInv, NEW n \in Namespaces, TargetNamespace \notin {AllNamespaces, n},
             WorkersWrite \/ \E w \in Workers : CreateNamespace(w)
      PROVE  /\ ns'[n] = ns[n]
             /\ \A k \in Keys : NamespaceOf[k] = n => local'[k] = local[k]
  <2>1. CASE WorkersWrite
    <3>1. ns' = ns
      BY <2>1 DEF WorkersWrite, UpsertCreate, UpsertUpdate, DeleteMirror
    <3> QED BY <1>1, <2>1, <3>1, WriteCases DEF InScope
  <2>2. ASSUME NEW w \in Workers, CreateNamespace(w)
        PROVE  ns'[n] = ns[n] /\ local' = local
    <3>1. NamespaceOf[key[w]] # n
      BY <1>1, <2>2 DEF CreateNamespace, FreshInv, PassKnowledge, Working, InScope
    <3> QED BY <1>1, <2>2, <3>1 DEF CreateNamespace, FreshInv, TypeOK
  <2> QED BY <1>1, <2>1, <2>2
<1>2. FreshInv => \A n \in Namespaces :
          TargetNamespace \notin {AllNamespaces, n} /\ ns[n] # "terminating"
              /\ (WorkersWrite \/ \E w \in Workers : CreateNamespace(w))
          => /\ ns'[n] = ns[n]
             /\ \A k \in Keys : NamespaceOf[k] = n => local'[k] = local[k]
  BY <1>1
<1> QED BY <1>2, FreshInit, FreshStep, PTL DEF Spec, OutOfScopeUntouched

-----------------------------------------------------------------------------
(* Versions: what the mirrors, the workers and the informers know of the   *)
(* history of the sources.  Nothing is assumed of the other clients.       *)

\* The informer store stays a past state of the upstream server.
LEMMA CacheFollowsStep ==
    ASSUME TypeOK, CacheFollows, VersionsStart, [Next]_vars
    PROVE  CacheFollows' /\ VersionsStart'
<1> USE DEF CacheFollows, VersionsStart
<1>0. \A k \in Keys : up[k] \in Upstream /\ cache[k] \in Observed
  BY DEF TypeOK
<1>1. ASSUME NEW k \in Keys, (\E s \in Specs : UpstreamWrite(k, s)) \/ UpstreamDelete(k)
      PROVE  CacheFollows' /\ VersionsStart'
  <2>1. cache' = cache /\ up'[k].ver = up[k].ver + 1 /\ \A x \in Keys \ {k} : up'[x] = up[x]
    BY <1>0, <1>1 DEF UpstreamWrite, UpstreamDelete, Upstream, TypeOK
  <2> QED BY <1>0, <2>1 DEF Upstream, Observed
<1>2. ASSUME NEW k \in Keys, InformerUpdate(k) PROVE CacheFollows' /\ VersionsStart'
  BY <1>0, <1>2 DEF InformerUpdate, Seen, Upstream, TypeOK
<1>3. ASSUME NEW kd \in Kinds, SyncKind(kd) PROVE CacheFollows' /\ VersionsStart'
  BY <1>0, <1>3 DEF SyncKind, Seen, Upstream
<1>4. ASSUME Crash PROVE CacheFollows' /\ VersionsStart'
  BY <1>0, <1>4 DEF Crash, NotRead, Upstream
<1>5. ASSUME UNCHANGED <<up, cache>> PROVE CacheFollows' /\ VersionsStart'
  BY <1>5
<1>6. ASSUME NEW w \in Workers, WorkerStep(w) \/ CallFails(w)
      PROVE  CacheFollows' /\ VersionsStart'
  BY <1>5, <1>6, PassStep DEF informerVars
<1> QED
  BY <1>1, <1>2, <1>3, <1>4, <1>5, <1>6
     DEF Next, MetadataUpdate, Deliver, Get, DelayExpires, EnqueueExistingMirrors, Boot,
         StartWorkers, LocalStep, ForeignCreate, ForeignDelete, Takeover, Hold, Release,
         SetLocal, NamespaceDelete, NamespaceGone, vars, upstreamVars, informerVars

\* Versions of one key only grow: at the server, its deletions, and in the
\* informer store while the process lives.
LEMMA VersionsGrow ==
    ASSUME TypeOK, CacheFollows, DeletionsKnown, [Next]_vars, NEW k \in Keys
    PROVE  /\ up[k].ver <= up'[k].ver
           /\ up[k].gone <= up'[k].gone
           /\ ~ Crash => cache[k].ver <= cache'[k].ver
<1> DEFINE Grown == /\ up[k].ver <= up'[k].ver
                    /\ up[k].gone <= up'[k].gone
                    /\ ~ Crash => cache[k].ver <= cache'[k].ver
<1>0. up[k] \in Upstream /\ cache[k] \in Observed
  BY DEF TypeOK
<1>1. ASSUME NEW x \in Keys, (\E s \in Specs : UpstreamWrite(x, s)) \/ UpstreamDelete(x)
      PROVE  Grown
  <2>1. CASE x # k
    BY <1>0, <1>1, <2>1 DEF UpstreamWrite, UpstreamDelete, Upstream, Observed, TypeOK
  <2>2. CASE x = k
    <3>1. cache' = cache /\ up'[k].ver = up[k].ver + 1 /\ up'[k].gone \in {up[k].gone, up[k].ver + 1}
      BY <1>0, <1>1, <2>2 DEF UpstreamWrite, UpstreamDelete, Upstream, TypeOK
    <3> QED BY <1>0, <3>1 DEF DeletionsKnown, Upstream, Observed
  <2> QED BY <2>1, <2>2
<1>2. ASSUME NEW x \in Keys, InformerUpdate(x) PROVE Grown
  BY <1>0, <1>2 DEF InformerUpdate, CacheFollows, Seen, Upstream, Observed, TypeOK
<1>3. ASSUME NEW kd \in Kinds, SyncKind(kd) PROVE Grown
  BY <1>0, <1>3 DEF SyncKind, CacheFollows, Seen, Upstream, Observed
<1>4. ASSUME Crash PROVE Grown
  BY <1>0, <1>4 DEF Crash, Upstream
<1>5. ASSUME UNCHANGED <<up, cache>> PROVE Grown
  BY <1>0, <1>5 DEF Upstream, Observed
<1>6. ASSUME NEW w \in Workers, WorkerStep(w) \/ CallFails(w) PROVE Grown
  BY <1>5, <1>6, PassStep
<1> HIDE DEF Grown
<1>7. Grown
  BY <1>1, <1>2, <1>3, <1>4, <1>5, <1>6
     DEF Next, MetadataUpdate, Deliver, Get, DelayExpires, EnqueueExistingMirrors, Boot,
         StartWorkers, LocalStep, ForeignCreate, ForeignDelete, Takeover, Hold, Release,
         SetLocal, NamespaceDelete, NamespaceGone
<1> QED BY <1>7 DEF Grown

\* A kind becomes synced by its initial list alone.
LEMMA SyncedGrows ==
    ASSUME TypeOK, [Next]_vars, ~ Crash, NEW kd \in synced', kd \notin synced
    PROVE  SyncKind(kd)
<1>1. ASSUME NEW x \in Kinds, SyncKind(x) PROVE SyncKind(kd)
  BY <1>1 DEF SyncKind
<1>2. ASSUME synced' = synced PROVE FALSE
  BY <1>2
<1>3. ASSUME NEW w \in Workers, WorkerStep(w) \/ CallFails(w) PROVE synced' = synced
  BY <1>3, PassStep
<1> QED
  BY <1>1, <1>2, <1>3
     DEF Next, UpstreamWrite, UpstreamDelete, InformerUpdate, MetadataUpdate, Deliver, Get,
         DelayExpires, EnqueueExistingMirrors, Boot, StartWorkers, LocalStep, ForeignCreate,
         ForeignDelete, Takeover, Hold, Release, SetLocal, NamespaceDelete, NamespaceGone

LEMMA DeletionsKnownStep ==
    ASSUME TypeOK, CacheFollows, DeletionsKnown, [Next]_vars
    PROVE  DeletionsKnown'
<1> USE DEF DeletionsKnown
<1>0. \A k \in Keys : up[k] \in Upstream /\ cache[k] \in Observed
  BY DEF TypeOK
<1>1. ASSUME NEW k \in Keys, (\E s \in Specs : UpstreamWrite(k, s)) \/ UpstreamDelete(k)
      PROVE  DeletionsKnown'
  <2>1. cache' = cache /\ up'[k].ver = up[k].ver + 1 /\ \A x \in Keys \ {k} : up'[x] = up[x]
    BY <1>0, <1>1 DEF UpstreamWrite, UpstreamDelete, Upstream, TypeOK
  <2>2. \/ up'[k].spec # NoSpec /\ up'[k].gone = up[k].gone
        \/ up'[k].gone = up[k].ver + 1
    BY <1>0, <1>1, SpecsAssumption DEF UpstreamWrite, UpstreamDelete, Upstream, TypeOK
  <2> QED BY <1>0, <2>1, <2>2 DEF CacheFollows, Upstream, Observed
<1>2. ASSUME NEW k \in Keys, InformerUpdate(k) PROVE DeletionsKnown'
  BY <1>0, <1>2 DEF InformerUpdate, Seen, Upstream, TypeOK
<1>3. ASSUME NEW kd \in Kinds, SyncKind(kd) PROVE DeletionsKnown'
  BY <1>0, <1>3 DEF SyncKind, Seen, Upstream
<1>4. ASSUME Crash PROVE DeletionsKnown'
  BY <1>0, <1>4 DEF Crash, NotRead, Upstream
<1>5. ASSUME UNCHANGED <<up, cache>> PROVE DeletionsKnown'
  BY <1>5
<1>6. ASSUME NEW w \in Workers, WorkerStep(w) \/ CallFails(w) PROVE DeletionsKnown'
  BY <1>5, <1>6, PassStep
<1> QED
  BY <1>1, <1>2, <1>3, <1>4, <1>5, <1>6
     DEF Next, MetadataUpdate, Deliver, Get, DelayExpires, EnqueueExistingMirrors, Boot,
         StartWorkers, LocalStep, ForeignCreate, ForeignDelete, Takeover, Hold, Release,
         SetLocal, NamespaceDelete, NamespaceGone

\* What a step makes of a mirror: it keeps the version, or it is the end of
\* a pass that writes the version its worker has read.
LEMMA MirrorChange ==
    ASSUME FreshInv, [Next]_vars, NEW k \in Keys, local'[k].owner = "self"
    PROVE  \/ local[k].owner = "self" /\ local'[k].ver = local[k].ver
           \/ \E w \in Workers : /\ key[w] = k /\ Working(w) /\ pc'[w] = "idle"
                                 /\ local'[k].ver = src[w].ver
<1> DEFINE Kept    == local[k].owner = "self" /\ local'[k].ver = local[k].ver
           Written == \E w \in Workers : /\ key[w] = k /\ Working(w) /\ pc'[w] = "idle"
                                         /\ local'[k].ver = src[w].ver
<1>0. local[k] \in LocalObject
  BY DEF FreshInv, TypeOK
<1>1. ASSUME local' = local PROVE Kept
  BY <1>1
<1>2. ASSUME LocalStep PROVE Kept
  BY <1>0, <1>2 DEF LocalStep, ForeignCreate, ForeignDelete, Takeover, Hold, Release, SetLocal,
                    NamespaceDelete, ForeignObject, Deleted, NoObject, FreshInv, TypeOK, LocalObject
<1>3. ASSUME NEW n \in Namespaces, NamespaceGone(n) PROVE Kept
  BY <1>3 DEF NamespaceGone, NoObject
<1>4. ASSUME WorkersWrite PROVE Kept \/ Written
  <2>1. CASE local'[k] = local[k]
    BY <2>1
  <2>2. CASE local'[k] = Deleted(local[k])
    BY <1>0, <2>2 DEF Deleted, NoObject, LocalObject
  <2>3. \A w \in Workers : /\ Desired(w).ver = src[w].ver
                            /\ Carried(w, local[k]).ver = src[w].ver
    BY DEF Desired, Carried, MirrorOf
  <2> QED BY <1>4, <2>1, <2>2, <2>3, WriteCases
<1> HIDE DEF Kept, Written
<1>5. Kept \/ Written
  BY <1>1, <1>2, <1>3, <1>4
     DEF Next, WorkerStep, WorkersWrite, UpstreamWrite, UpstreamDelete, InformerUpdate,
         MetadataUpdate, Deliver, Boot, SyncKind, EnqueueExistingMirrors, StartWorkers, Crash,
         Get, ReconcileKey, EnsureNamespace, CreateNamespace, UpsertGet, DeleteGet, CallFails,
         DelayExpires
<1> QED BY <1>5 DEF Kept, Written

LEMMA MirrorsBehindStep ==
    ASSUME HistoryInv, [Next]_vars
    PROVE  MirrorsBehind'
<1> USE DEF HistoryInv
<1> SUFFICES ASSUME NEW k \in Keys, local'[k].owner = "self"
             PROVE  /\ local'[k].ver <= up'[k].ver
                    /\ InScope(k) /\ KindOf[k] \in synced' => local'[k].ver <= cache'[k].ver
  BY DEF MirrorsBehind, InScope
<1>0. TypeOK /\ TypeOK'
  BY FreshStep DEF FreshInv
<1>1. /\ up[k].ver \in Nat /\ up'[k].ver \in Nat
      /\ cache[k].ver \in Nat /\ cache'[k].ver \in Nat
      /\ local[k].ver \in Nat /\ local'[k].ver \in Nat
  BY <1>0 DEF TypeOK, Upstream, Observed, LocalObject
<1>2. /\ up[k].ver <= up'[k].ver
      /\ ~ Crash => cache[k].ver <= cache'[k].ver
  BY <1>0, VersionsGrow
<1>3. CASE local[k].owner = "self" /\ local'[k].ver = local[k].ver
  <2>1. local'[k].ver <= up'[k].ver
    BY <1>1, <1>2, <1>3 DEF MirrorsBehind
  <2>2. ASSUME InScope(k), KindOf[k] \in synced' PROVE local'[k].ver <= cache'[k].ver
    <3>1. ~ Crash
      BY <2>2 DEF Crash
    <3>2. CASE KindOf[k] \in synced
      BY <1>1, <1>2, <1>3, <2>2, <3>1, <3>2 DEF MirrorsBehind
    <3>3. CASE KindOf[k] \notin synced
      <4>1. SyncKind(KindOf[k])
        BY <1>0, <2>2, <3>1, <3>3, SyncedGrows
      <4>2. cache'[k].ver = up[k].ver
        BY <2>2, <4>1 DEF SyncKind, Seen
      <4> QED BY <1>3, <4>2 DEF MirrorsBehind
    <3> QED BY <3>2, <3>3
  <2> QED BY <2>1, <2>2
<1>4. ASSUME NEW w \in Workers, key[w] = k, Working(w), local'[k].ver = src[w].ver
      PROVE  local'[k].ver <= up'[k].ver /\ (~ Crash => local'[k].ver <= cache'[k].ver)
  BY <1>1, <1>2, <1>4 DEF ReadsBetween, CacheFollows
<1>5. Crash => synced' = {}
  BY DEF Crash
<1> QED BY <1>3, <1>4, <1>5, MirrorChange

LEMMA ReadsBetweenStep ==
    ASSUME HistoryInv, [Next]_vars
    PROVE  ReadsBetween'
<1> USE DEF HistoryInv
<1> SUFFICES ASSUME NEW v \in Workers, Working(v)'
             PROVE  /\ src'[v].ver <= cache'[key'[v]].ver
                    /\ local'[key'[v]].owner = "self" => local'[key'[v]].ver <= src'[v].ver
                    /\ src'[v].spec = NoSpec => src'[v].ver <= up'[key'[v]].gone
  BY DEF ReadsBetween
<1>0. TypeOK /\ TypeOK' /\ Custody /\ Custody'
  BY FreshStep DEF FreshInv
<1>1. ~ Crash /\ pc'[v] # "idle"
  BY DEF Crash, Working
<1>2. PICK k \in Keys : k = key'[v]
  BY <1>0, <1>1 DEF Custody, TypeOK
<1>3. /\ up[k].gone \in Nat /\ up'[k].gone \in Nat
      /\ cache[k].ver \in Nat /\ cache'[k].ver \in Nat
      /\ src[v].ver \in Nat
  BY <1>0 DEF TypeOK, Upstream, Observed
<1>4. cache[k].ver <= cache'[k].ver /\ up[k].gone <= up'[k].gone
  BY <1>0, <1>1, VersionsGrow
<1>5. ASSUME Working(v), src'[v] = src[v], key'[v] = key[v]
      PROVE  /\ src'[v].ver <= cache'[k].ver
             /\ local'[k].owner = "self" => local'[k].ver <= src'[v].ver
             /\ src'[v].spec = NoSpec => src'[v].ver <= up'[k].gone
  <2>1. \A w \in Workers : key[w] = k /\ Working(w) => w = v
    BY <1>0, <1>2, <1>5 DEF Custody, OneWorkerPerKey, Working
  <2>2. ASSUME local'[k].owner = "self" PROVE local[k].owner = "self" /\ local'[k].ver = local[k].ver
    BY <1>1, <2>1, <2>2, MirrorChange
  <2> QED BY <1>2, <1>3, <1>4, <1>5, <2>2 DEF ReadsBetween
<1>6. CASE BesideWorkers
  BY <1>2, <1>5, <1>6 DEF BesideWorkers, Working
<1>7. ASSUME NEW w \in Workers, NEW x \in Keys, Get(w, x)
      PROVE  Working(v) /\ src'[v] = src[v] /\ key'[v] = key[v]
  BY <1>0, <1>7 DEF Get, Working, TypeOK
<1>8. ASSUME NEW w \in Workers, w # v, WorkerStep(w) \/ CallFails(w)
      PROVE  Working(v) /\ src'[v] = src[v] /\ key'[v] = key[v]
  <2>1. src'[v] = src[v]
    BY <1>0, <1>8 DEF WorkerStep, CallFails, ReconcileKey, EnsureNamespace, CreateNamespace,
                      UpsertGet, UpsertCreate, UpsertUpdate, DeleteGet, DeleteMirror, Reply,
                      Succeed, Fail, Done, TypeOK
  <2> QED BY <1>0, <1>8, <2>1, PassStep DEF Done, Goto, Working, TypeOK
<1>9. CASE ReconcileKey(v)
  <2>1. phase = "running"
    BY <1>0, <1>9 DEF Custody, ReconcileKey
  <2>2. InScope(k) /\ key'[v] = key[v] /\ src'[v] = cache[k] /\ UNCHANGED <<up, cache, local>>
    BY <1>0, <1>1, <1>2, <1>9 DEF ReconcileKey, Succeed, Done, Goto, TypeOK
  <2>3. KindOf[k] \in synced
    BY <2>1, KeysAssumption DEF StartOrder
  <2> QED BY <1>2, <1>3, <2>2, <2>3 DEF MirrorsBehind, DeletionsKnown
<1>10. CASE (WorkerStep(v) \/ CallFails(v)) /\ ~ ReconcileKey(v)
  <2>1. pc[v] # "read" /\ pc[v] # "idle" /\ src'[v] = src[v] /\ key'[v] = key[v]
    BY <1>0, <1>1, <1>10
       DEF WorkerStep, CallFails, EnsureNamespace, CreateNamespace,
           UpsertGet, UpsertCreate, UpsertUpdate, DeleteGet, DeleteMirror, Reply,
           Succeed, Fail, Done, Goto, TypeOK
  <2> QED BY <1>2, <1>5, <2>1 DEF Working
<1> QED BY <1>0, <1>1, <1>2, <1>5, <1>6, <1>7, <1>8, <1>9, <1>10, NextCases

LEMMA HistoryStep ==
    ASSUME HistoryInv, [Next]_vars
    PROVE  HistoryInv'
<1>1. FreshInv' /\ StartOrder'
  BY FreshStep, StartOrderStep DEF HistoryInv, FreshInv
<1>2. CacheFollows' /\ VersionsStart' /\ DeletionsKnown'
  BY CacheFollowsStep, DeletionsKnownStep DEF HistoryInv, FreshInv
<1>3. MirrorsBehind' /\ ReadsBetween'
  BY MirrorsBehindStep, ReadsBetweenStep
<1> QED BY <1>1, <1>2, <1>3 DEF HistoryInv

LEMMA HistoryInit == Init => HistoryInv
<1> SUFFICES ASSUME Init PROVE HistoryInv
  OBVIOUS
<1>1. \A k \in Keys : /\ up[k].ver = 1 /\ up[k].gone \in {0, 1}
                      /\ up[k].spec = NoSpec => up[k].gone = 1
                      /\ cache[k].ver = 0
  BY SpecsAssumption DEF Init, InitialUpstream, NotRead
<1>2. \A k \in Keys : local[k].ver \in {0, 1}
  BY DEF Init, InitialLocal, NoObject, MirrorOf, ForeignObject
<1>3. StartOrder /\ synced = {} /\ \A w \in Workers : ~ Working(w)
  BY DEF Init, StartOrder, Working
<1> QED
  BY <1>1, <1>2, <1>3, FreshInit
     DEF HistoryInv, CacheFollows, VersionsStart, DeletionsKnown, MirrorsBehind, ReadsBetween

\* A mirror is only overwritten by the same or a later version of its source,
\* through stale reads, retries, lost replies, relists, crashes and whatever
\* other clients of the local cluster do.
THEOREM MirrorsGoForward == Spec => MirrorsMoveForward
<1>1. ASSUME HistoryInv, [Next]_vars, NEW k \in Keys,
             local[k].owner = "self", local'[k].owner = "self"
      PROVE  local'[k].ver >= local[k].ver
  <2>1. local[k].ver \in Nat /\ local'[k].ver \in Nat
    BY <1>1, FreshStep DEF HistoryInv, FreshInv, TypeOK, LocalObject
  <2>2. CASE local'[k].ver = local[k].ver
    BY <2>1, <2>2
  <2>3. ASSUME NEW w \in Workers, key[w] = k, Working(w), local'[k].ver = src[w].ver
        PROVE  local'[k].ver >= local[k].ver
    BY <1>1, <2>1, <2>3 DEF HistoryInv, ReadsBetween
  <2> QED BY <1>1, <2>2, <2>3, MirrorChange DEF HistoryInv
<1>2. HistoryInv /\ [Next]_vars =>
          \A k \in Keys : local[k].owner = "self" /\ local'[k].owner = "self"
                             => local'[k].ver >= local[k].ver
  BY <1>1
<1>3. HistoryInv /\ [Next]_vars => HistoryInv'
  BY HistoryStep
<1> QED BY <1>2, <1>3, HistoryInit, PTL DEF Spec, MirrorsMoveForward

\* Workers delete a mirror only when its source was deleted upstream after
\* the version that was mirrored: an empty, half filled or stale informer
\* store never prunes a live source, with any number of kinds and restarts.
THEOREM LiveSourcesKept == Spec => NoPruneOfLiveSource
<1>1. ASSUME HistoryInv, NEW k \in Keys, WorkersWrite, local[k].owner = "self",
             local'[k].owner = "none" \/ local'[k].life # local[k].life
      PROVE  up[k].gone >= local[k].ver
  <2>0. local[k] \in LocalObject /\ up[k].gone \in Nat
    BY <1>1 DEF HistoryInv, FreshInv, TypeOK, Upstream
  <2>1. local'[k] # local[k]
    BY <1>1
  <2>2. \A w \in Workers : /\ Carried(w, local[k]).owner = "self"
                            /\ Carried(w, local[k]).life = "live"
    BY DEF Carried, Desired, MirrorOf
  <2>3. PICK w \in Workers : key[w] = k /\ Working(w) /\ src[w].spec = NoSpec
    BY <1>1, <2>1, <2>2, WriteCases DEF HistoryInv
  <2>4. src[w].ver \in Nat
    BY <1>1 DEF HistoryInv, FreshInv, TypeOK, Observed
  <2>5. local[k].ver <= src[w].ver /\ src[w].ver <= up[k].gone
    BY <1>1, <2>3 DEF HistoryInv, ReadsBetween
  <2> QED BY <2>0, <2>4, <2>5 DEF LocalObject
<1>2. HistoryInv =>
          \A k \in Keys : /\ WorkersWrite
                          /\ local[k].owner = "self"
                          /\ local'[k].owner = "none" \/ local'[k].life # local[k].life
                          => up[k].gone >= local[k].ver
  BY <1>1
<1>3. HistoryInv /\ [Next]_vars => HistoryInv'
  BY HistoryStep
<1> QED BY <1>2, <1>3, HistoryInit, PTL DEF Spec, NoPruneOfLiveSource
=============================================================================
