--------------------------- MODULE DownstreamSync ---------------------------
(***************************************************************************)
(* The downstream role (internal/controller/downstream_controller.go):    *)
(* one process mirrors the custom resources of an upstream cluster into    *)
(* the local cluster.  Informers feed a cache and notifications; the       *)
(* handlers put keys on a rate limited workqueue; a pool of workers takes  *)
(* keys, reads the cache and creates, updates or deletes the local mirror. *)
(*                                                                         *)
(* A key is a queue key (kind, namespace, name).  The specs stand for      *)
(* everything of an object that downstreamSourceEqual compares: what is    *)
(* left after clearRemoteMetadata and setEmptyStatus.  Versions (ver) and  *)
(* the version of the last upstream deletion (gone) are history: no guard  *)
(* of the reconciler looks at them; the order of versions is only used to  *)
(* state properties, and to say that an informer is behind.                *)
(***************************************************************************)
EXTENDS Naturals, FiniteSets

CONSTANTS
    Keys,             \* queue keys (kind, namespace, name)
    NoKey,            \* the key of an idle worker
    Kinds, KindOf,    \* downstreamResourceKinds of the target; kind of a key
    Namespaces, NamespaceOf,
    TargetNamespace,  \* the shared namespace, or AllNamespaces
    AllNamespaces,    \* the empty TargetNamespace of the code
    Specs, NoSpec,    \* object contents; no object
    Workers,          \* goroutines running runWorker
    Budget,           \* bound on the steps of the environment
    LocalActors       \* what others do in the local cluster, see LocalStep

ASSUME KeysAssumption ==
    /\ NoKey \notin Keys
    /\ KindOf \in [Keys -> Kinds]
    /\ NamespaceOf \in [Keys -> Namespaces]

ASSUME SpecsAssumption == NoSpec \notin Specs

ASSUME BudgetAssumption == Budget \in Nat

ASSUME ActorsAssumption ==
    LocalActors \subseteq {"foreign", "takeover", "finalizer", "nsdelete"}

VARIABLES
    up,          \* upstream API server: version and content per key
    cache,       \* informer store read by UpstreamReader.Get
    events,      \* notifications not yet handed to the event handlers
    phase,       \* life of the process
    synced,      \* kinds whose initial list is in the cache
    swept,       \* kinds enqueueExistingMirrors has gone through
    dirty,       \* workqueue: keys to process ...
    processing,  \* ... and keys a worker holds
    delayed,     \* keys given to AddRateLimited, not yet due
    nsCache,     \* the reconciler's sync.Map of namespaces
    pc, key,     \* per worker: next step, key held
    src, cur,    \* per worker: source read, local object read
    local,       \* local API server: object per key
    ns,          \* local API server: namespaces
    budget       \* environment steps left

upstreamVars == <<up>>
informerVars == <<cache, events, phase, synced, swept>>
queueVars    == <<dirty, processing, delayed>>
workerVars   == <<pc, key, src, cur, nsCache>>
localVars    == <<local, ns>>
vars == <<upstreamVars, informerVars, queueVars, workerVars, localVars, budget>>

Content  == Specs \cup {NoSpec}
Upstream == [ver : Nat, spec : Content, gone : Nat]
Observed == [ver : Nat, spec : Content]
Notification == [key : Keys, old : Content, new : Content]

\* owner: "none" is no object, "self" carries the managed label of this
\* source, "other" is any object without it.  fin stands for what the local
\* cluster itself put on the object (finalizers, owner references, status).
LocalObject == [owner : {"none", "self", "other"}, spec : Content,
                fin : {"free", "held"}, life : {"live", "terminating"},
                ver : Nat]

NotRead  == [ver |-> 0, spec |-> NoSpec]
NoObject == [owner |-> "none", spec |-> NoSpec, fin |-> "free",
             life |-> "live", ver |-> 0]

\* Objects fresh from a Create.
MirrorOf(s, v)   == [owner |-> "self", spec |-> s, fin |-> "free",
                     life |-> "live", ver |-> v]
ForeignObject(s) == [owner |-> "other", spec |-> s, fin |-> "free",
                     life |-> "live", ver |-> 0]

Steps == {"idle", "read", "nsload", "nscreate", "upget", "create", "update",
          "delget", "delete"}

TypeOK ==
    /\ up \in [Keys -> Upstream]
    /\ cache \in [Keys -> Observed]
    /\ events \subseteq Notification
    /\ phase \in {"down", "starting", "running"}
    /\ synced \subseteq Kinds
    /\ swept \subseteq Kinds
    /\ dirty \subseteq Keys
    /\ processing \subseteq Keys
    /\ delayed \subseteq Keys
    /\ nsCache \subseteq Namespaces
    /\ pc \in [Workers -> Steps]
    /\ key \in [Workers -> Keys \cup {NoKey}]
    /\ src \in [Workers -> Observed]
    /\ cur \in [Workers -> LocalObject]
    /\ local \in [Keys -> LocalObject]
    /\ ns \in [Namespaces -> {"absent", "active", "terminating"}]
    /\ budget \in Nat

(***************************************************************************)
(* Upstream objects and local objects that earlier runs of the process, or *)
(* other clients, may have left behind.  An object needs its namespace.    *)
(***************************************************************************)
InitialUpstream ==
    {[ver |-> 1, spec |-> s, gone |-> 0] : s \in Specs}
        \cup {[ver |-> 1, spec |-> NoSpec, gone |-> 1]}

InitialLocal ==
    {NoObject}
        \cup {MirrorOf(s, 1) : s \in Specs}
        \cup {ForeignObject(s) : s \in IF "foreign" \in LocalActors THEN Specs ELSE {}}

Init ==
    /\ up \in [Keys -> InitialUpstream]
    /\ local \in [Keys -> InitialLocal]
    /\ ns \in [Namespaces -> {"absent", "active"}]
    /\ \A k \in Keys : local[k].owner # "none" => ns[NamespaceOf[k]] = "active"
    /\ cache = [k \in Keys |-> NotRead]
    /\ events = {}
    /\ phase = "down"
    /\ synced = {}
    /\ swept = {}
    /\ dirty = {}
    /\ processing = {}
    /\ delayed = {}
    /\ nsCache = {}
    /\ pc = [w \in Workers |-> "idle"]
    /\ key = [w \in Workers |-> NoKey]
    /\ src = [w \in Workers |-> NotRead]
    /\ cur = [w \in Workers |-> NoObject]
    /\ budget = Budget

Spend == budget > 0 /\ budget' = budget - 1

-----------------------------------------------------------------------------
(* The upstream cluster.                                                   *)

\* A client of the upstream API server creates or updates an object.
UpstreamWrite(k, s) ==
    /\ up[k].spec # s
    /\ up' = [up EXCEPT ![k].ver = @ + 1, ![k].spec = s]
    /\ Spend
    /\ UNCHANGED <<informerVars, queueVars, workerVars, localVars>>

UpstreamDelete(k) ==
    /\ up[k].spec # NoSpec
    /\ up' = [up EXCEPT ![k] = [ver |-> @.ver + 1, spec |-> NoSpec, gone |-> @.ver + 1]]
    /\ Spend
    /\ UNCHANGED <<informerVars, queueVars, workerVars, localVars>>

-----------------------------------------------------------------------------
(* Informers and event handlers.                                           *)

\* Operators named <Definition>_<Slip> are the definition with a plausible
\* programming error; they are used in no specification, only to test that
\* the properties below notice the error.

\* The namespace restriction of enqueueObject, reconcileKey, the sweep's
\* List and the upstream cache: an empty TargetNamespace admits every key.
InScope_NoCheck(k) == TRUE

InScope(k) ==
    TargetNamespace = AllNamespaces \/ NamespaceOf[k] = TargetNamespace

Seen(k) == [ver |-> up[k].ver, spec |-> up[k].spec]

\* The initial list of one kind reaches the store; each object is an Add.
SyncKind(kd) ==
    /\ phase = "starting"
    /\ kd \notin synced
    /\ synced' = synced \cup {kd}
    /\ cache' = [k \in Keys |-> IF KindOf[k] = kd /\ InScope(k) THEN Seen(k) ELSE cache[k]]
    /\ events' = events \cup
           {[key |-> k, old |-> NoSpec, new |-> up[k].spec] :
               k \in {x \in Keys : KindOf[x] = kd /\ InScope(x) /\ up[x].spec # NoSpec}}
    /\ UNCHANGED <<upstreamVars, phase, swept, queueVars, workerVars, localVars, budget>>

\* A watch event, or a relist after a broken watch, which may skip versions.
\* An object created and deleted in between leaves no notification.
InformerUpdate(k) ==
    /\ KindOf[k] \in synced
    /\ InScope(k)
    /\ cache[k].ver # up[k].ver
    /\ cache' = [cache EXCEPT ![k] = Seen(k)]
    /\ events' = IF cache[k].spec = NoSpec /\ up[k].spec = NoSpec
                 THEN events
                 ELSE events \cup {[key |-> k, old |-> cache[k].spec, new |-> up[k].spec]}
    /\ UNCHANGED <<upstreamVars, phase, synced, swept, queueVars, workerVars, localVars, budget>>

\* Only status or server-managed metadata changed upstream: same content.
MetadataUpdate(k) ==
    /\ KindOf[k] \in synced
    /\ cache[k].spec # NoSpec
    /\ events' = events \cup {[key |-> k, old |-> cache[k].spec, new |-> cache[k].spec]}
    /\ Spend
    /\ UNCHANGED <<upstreamVars, cache, phase, synced, swept, queueVars, workerVars, localVars>>

\* UpdateFunc drops an update whose content is unchanged; AddFunc (old is no
\* object) and DeleteFunc (new is no object) drop nothing.
DownstreamSourceEqual_DropsUpdates(e) == e.old # NoSpec /\ e.new # NoSpec

DownstreamSourceEqual(e) == e.old = e.new

\* queue.Add of the keys of a set that pass enqueueObject's namespace check.
EnqueueObject_SkipsHeld(ks) == dirty' = dirty \cup {k \in ks \ processing : InScope(k)}

EnqueueObject(ks) == dirty' = dirty \cup {k \in ks : InScope(k)}

\* One call of an event handler.
Deliver(e) ==
    /\ e \in events
    /\ events' = events \ {e}
    /\ IF DownstreamSourceEqual(e) THEN UNCHANGED dirty ELSE EnqueueObject({e.key})
    /\ UNCHANGED <<upstreamVars, cache, phase, synced, swept, processing, delayed,
                   workerVars, localVars, budget>>

-----------------------------------------------------------------------------
(* Start.                                                                  *)

Boot ==
    /\ phase = "down"
    /\ phase' = "starting"
    /\ UNCHANGED <<upstreamVars, cache, events, synced, swept, queueVars, workerVars,
                   localVars, budget>>

\* WaitForCacheSync: every informer has its initial list in the store.
WaitForCacheSync_AnyKind == synced # {}

WaitForCacheSync == synced = Kinds

\* enqueueExistingMirrors for one kind, after WaitForCacheSync: the local
\* objects that carry this source's label, in the target namespace.
EnqueueExistingMirrors(kd) ==
    /\ phase = "starting"
    /\ WaitForCacheSync
    /\ kd \notin swept
    /\ swept' = swept \cup {kd}
    /\ EnqueueObject({k \in Keys : KindOf[k] = kd /\ local[k].owner = "self"})
    /\ UNCHANGED <<upstreamVars, cache, events, phase, synced, processing, delayed,
                   workerVars, localVars, budget>>

StartWorkers ==
    /\ phase = "starting"
    /\ swept = Kinds
    /\ phase' = "running"
    /\ UNCHANGED <<upstreamVars, cache, events, synced, swept, queueVars, workerVars,
                   localVars, budget>>

\* The process ends: a crash, a lost lease, a shutdown, a failed sync or
\* sweep (Start returns the error), or an informer cache that stopped.
Crash ==
    /\ phase # "down"
    /\ phase' = "down"
    /\ cache' = [k \in Keys |-> NotRead]
    /\ events' = {}
    /\ synced' = {}
    /\ swept' = {}
    /\ dirty' = {}
    /\ processing' = {}
    /\ delayed' = {}
    /\ nsCache' = {}
    /\ pc' = [w \in Workers |-> "idle"]
    /\ key' = [w \in Workers |-> NoKey]
    /\ src' = [w \in Workers |-> NotRead]
    /\ cur' = [w \in Workers |-> NoObject]
    /\ Spend
    /\ UNCHANGED <<upstreamVars, localVars>>

-----------------------------------------------------------------------------
(* Workers: runWorker and reconcileKey.  One step per call that reaches a  *)
(* server or shared state.                                                 *)

\* queue.Get: a key that is marked dirty and that no worker holds.
Get_IgnoresProcessing(w, k) ==
    /\ phase = "running"
    /\ pc[w] = "idle"
    /\ k \in dirty
    /\ dirty' = dirty \ {k}
    /\ processing' = processing \cup {k}
    /\ pc' = [pc EXCEPT ![w] = "read"]
    /\ key' = [key EXCEPT ![w] = k]
    /\ UNCHANGED <<upstreamVars, informerVars, delayed, src, cur, nsCache, localVars, budget>>

Get(w, k) ==
    /\ phase = "running"
    /\ pc[w] = "idle"
    /\ k \in dirty \ processing
    /\ dirty' = dirty \ {k}
    /\ processing' = processing \cup {k}
    /\ pc' = [pc EXCEPT ![w] = "read"]
    /\ key' = [key EXCEPT ![w] = k]
    /\ UNCHANGED <<upstreamVars, informerVars, delayed, src, cur, nsCache, localVars, budget>>

Goto(w, step) ==
    /\ pc' = [pc EXCEPT ![w] = step]
    /\ UNCHANGED <<key, queueVars>>

\* queue.Done: the worker is free.  A key marked dirty meanwhile stays so.
Done_ForgetsDirty(w) ==
    /\ pc' = [pc EXCEPT ![w] = "idle"]
    /\ key' = [key EXCEPT ![w] = NoKey]
    /\ src' = [src EXCEPT ![w] = NotRead]
    /\ cur' = [cur EXCEPT ![w] = NoObject]
    /\ processing' = processing \ {key[w]}
    /\ dirty' = dirty \ {key[w]}

Done(w) ==
    /\ pc' = [pc EXCEPT ![w] = "idle"]
    /\ key' = [key EXCEPT ![w] = NoKey]
    /\ src' = [src EXCEPT ![w] = NotRead]
    /\ cur' = [cur EXCEPT ![w] = NoObject]
    /\ processing' = processing \ {key[w]}
    /\ UNCHANGED dirty

\* reconcileKey returns nil: Done, Forget.
Succeed(w) == Done(w) /\ UNCHANGED delayed

\* reconcileKey returns an error: Done, AddRateLimited.
Fail_NoRetry(w) == Done(w) /\ UNCHANGED delayed

Fail_AfterReset(w) == Done(w) /\ delayed' = delayed \cup {key'[w]}

Fail(w) == Done(w) /\ delayed' = delayed \cup {key[w]}

\* reconcileKey up to the read of the source from the informer cache.
ReconcileKey(w) ==
    /\ pc[w] = "read"
    /\ \/ /\ ~ InScope(key[w])
          /\ Succeed(w)
       \/ /\ InScope(key[w])
          /\ src' = [src EXCEPT ![w] = cache[key[w]]]
          /\ Goto(w, IF cache[key[w]].spec = NoSpec THEN "delget" ELSE "nsload")
          /\ UNCHANGED cur
    /\ UNCHANGED <<upstreamVars, informerVars, nsCache, localVars, budget>>

\* ensureNamespace: hit in the sync.Map, or Get from the local server.
EnsureNamespace(w) ==
    LET n == NamespaceOf[key[w]] IN
    /\ pc[w] = "nsload"
    /\ IF n \in nsCache \/ ns[n] # "absent"
       THEN nsCache' = nsCache \cup {n} /\ Goto(w, "upget")
       ELSE UNCHANGED nsCache /\ Goto(w, "nscreate")
    /\ UNCHANGED <<upstreamVars, informerVars, src, cur, localVars, budget>>

\* ensureNamespace: Create; AlreadyExists counts as success.  A reply that is
\* lost leaves the namespace in place and the key to be retried.
CreateNamespace(w) ==
    LET n == NamespaceOf[key[w]] IN
    /\ pc[w] = "nscreate"
    /\ ns' = IF ns[n] = "absent" THEN [ns EXCEPT ![n] = "active"] ELSE ns
    /\ \/ /\ nsCache' = nsCache \cup {n}
          /\ Goto(w, "upget")
          /\ UNCHANGED <<src, cur, budget>>
       \/ /\ Fail(w)
          /\ Spend
          /\ UNCHANGED nsCache
    /\ UNCHANGED <<upstreamVars, informerVars, local>>

\* The mirror upsert wants: the source's content and this source's label.
Desired(w) == MirrorOf(src[w].spec, src[w].ver)

\* Over an existing mirror: finalizers, owner references and status of the
\* local object are carried over.
Carried(w, current) == [Desired(w) EXCEPT !.fin = current.fin]

\* upsert's DeepEqual of current and desired (ver is not part of an object).
SameObject(a, b) == [a EXCEPT !.ver = 0] = [b EXCEPT !.ver = 0]

\* upsert: read the local object and decide.  An object that equals what is
\* wanted may still be written: a server that records managedFields returns
\* them with the object, desired has none, and DeepEqual tells the two apart.
UpsertGet(w) ==
    LET current == local[key[w]] IN
    /\ pc[w] = "upget"
    /\ \/ current.owner = "none" /\ Goto(w, "create") /\ UNCHANGED <<src, cur>>
       \/ current.owner = "other" /\ Fail(w)
       \/ current.owner = "self" /\ current.life = "terminating" /\ Succeed(w)
       \/ /\ current.owner = "self"
          /\ current.life = "live"
          /\ \/ SameObject(current, Carried(w, current)) /\ Succeed(w)
             \/ /\ cur' = [cur EXCEPT ![w] = current]
                /\ Goto(w, "update")
                /\ UNCHANGED src
    /\ UNCHANGED <<upstreamVars, informerVars, nsCache, localVars, budget>>

\* The reply of a call that took effect: it arrives, or it is lost and the
\* worker sees an error.
Reply(w) ==
    \/ Succeed(w) /\ UNCHANGED budget
    \/ Fail(w) /\ Spend

\* upsert: Create.  The server refuses an existing name and a namespace that
\* is missing or going away.
UpsertCreate(w) ==
    LET k == key[w] IN
    /\ pc[w] = "create"
    /\ IF local[k].owner = "none" /\ ns[NamespaceOf[k]] = "active"
       THEN local' = [local EXCEPT ![k] = Desired(w)] /\ Reply(w)
       ELSE UNCHANGED <<local, budget>> /\ Fail(w)
    /\ UNCHANGED <<upstreamVars, informerVars, nsCache, ns>>

\* upsert: Update with the resourceVersion and UID that were read.  The
\* server refuses it when the object is not the one that was read.
Unchanged_ByLabel(w) == local[key[w]].owner = "self"

Unchanged(w) == local[key[w]] = cur[w]

UpsertUpdate(w) ==
    LET k == key[w] IN
    /\ pc[w] = "update"
    /\ IF Unchanged(w)
       THEN local' = [local EXCEPT ![k] = Carried(w, cur[w])] /\ Reply(w)
       ELSE UNCHANGED <<local, budget>> /\ Fail(w)
    /\ UNCHANGED <<upstreamVars, informerVars, nsCache, ns>>

\* deleteMirror: Get and the check of the label.
DeleteGet_NoLabelCheck(w) ==
    /\ pc[w] = "delget"
    /\ IF local[key[w]].owner # "none"
       THEN cur' = [cur EXCEPT ![w] = local[key[w]]] /\ Goto(w, "delete") /\ UNCHANGED src
       ELSE Succeed(w)
    /\ UNCHANGED <<upstreamVars, informerVars, nsCache, localVars, budget>>

DeleteGet(w) ==
    /\ pc[w] = "delget"
    /\ IF local[key[w]].owner = "self"
       THEN cur' = [cur EXCEPT ![w] = local[key[w]]] /\ Goto(w, "delete") /\ UNCHANGED src
       ELSE Succeed(w)
    /\ UNCHANGED <<upstreamVars, informerVars, nsCache, localVars, budget>>

\* What the local server makes of a Delete: finalizers keep the object.
Deleted(o) == IF o.fin = "held" THEN [o EXCEPT !.life = "terminating"] ELSE NoObject

\* deleteMirror: Delete by name, no precondition; NotFound is success.
DeleteMirror(w) ==
    LET k == key[w] IN
    /\ pc[w] = "delete"
    /\ local' = [local EXCEPT ![k] = Deleted(@)]
    /\ Reply(w)
    /\ UNCHANGED <<upstreamVars, informerVars, nsCache, ns>>

\* Any call may fail without an effect.
CallFails(w) ==
    /\ pc[w] # "idle"
    /\ Fail(w)
    /\ Spend
    /\ UNCHANGED <<upstreamVars, informerVars, nsCache, localVars>>

\* The rate limiter's delay is over: queue.Add.
DelayExpires(k) ==
    /\ k \in delayed
    /\ delayed' = delayed \ {k}
    /\ dirty' = dirty \cup {k}
    /\ UNCHANGED <<upstreamVars, informerVars, processing, workerVars, localVars, budget>>

-----------------------------------------------------------------------------
(* Other clients of the local cluster.                                     *)

SetLocal(k, o) ==
    /\ local' = [local EXCEPT ![k] = o]
    /\ Spend
    /\ UNCHANGED <<upstreamVars, informerVars, queueVars, workerVars, ns>>

\* Somebody creates, or deletes, an object of their own under a key.
ForeignCreate(k, s) ==
    /\ "foreign" \in LocalActors
    /\ local[k].owner = "none"
    /\ ns[NamespaceOf[k]] = "active"
    /\ SetLocal(k, ForeignObject(s))

ForeignDelete(k) ==
    /\ "foreign" \in LocalActors
    /\ local[k].owner = "other"
    /\ SetLocal(k, Deleted(local[k]))

\* Somebody takes a mirror over by removing the managed label.
Takeover(k) ==
    /\ "takeover" \in LocalActors
    /\ local[k].owner = "self"
    /\ SetLocal(k, [local[k] EXCEPT !.owner = "other"])

\* A local controller writes its own part of a mirror (finalizers, owner
\* references, status), and removes it; a deleted object then disappears.
Hold(k) ==
    /\ "finalizer" \in LocalActors
    /\ local[k].owner = "self"
    /\ local[k].fin = "free"
    /\ SetLocal(k, [local[k] EXCEPT !.fin = "held"])

Release(k) ==
    /\ "finalizer" \in LocalActors
    /\ local[k].fin = "held"
    /\ SetLocal(k, IF local[k].life = "terminating" THEN NoObject
                   ELSE [local[k] EXCEPT !.fin = "free"])

\* Somebody deletes a local namespace: it goes away with all its objects.
NamespaceDelete(n) ==
    /\ "nsdelete" \in LocalActors
    /\ ns[n] = "active"
    /\ ns' = [ns EXCEPT ![n] = "terminating"]
    /\ Spend
    /\ UNCHANGED <<upstreamVars, informerVars, queueVars, workerVars, local>>

NamespaceGone(n) ==
    /\ ns[n] = "terminating"
    /\ ns' = [ns EXCEPT ![n] = "absent"]
    /\ local' = [k \in Keys |-> IF NamespaceOf[k] = n THEN NoObject ELSE local[k]]
    /\ UNCHANGED <<upstreamVars, informerVars, queueVars, workerVars, budget>>

-----------------------------------------------------------------------------
WorkerStep(w) ==
    \/ ReconcileKey(w)
    \/ EnsureNamespace(w)
    \/ CreateNamespace(w)
    \/ UpsertGet(w)
    \/ UpsertCreate(w)
    \/ UpsertUpdate(w)
    \/ DeleteGet(w)
    \/ DeleteMirror(w)

LocalStep ==
    \/ \E k \in Keys :
          \/ \E s \in Specs : ForeignCreate(k, s)
          \/ ForeignDelete(k)
          \/ Takeover(k)
          \/ Hold(k)
          \/ Release(k)
    \/ \E n \in Namespaces : NamespaceDelete(n)

Next ==
    \/ \E k \in Keys : (\E s \in Specs : UpstreamWrite(k, s)) \/ UpstreamDelete(k)
    \/ \E k \in Keys : InformerUpdate(k) \/ MetadataUpdate(k)
    \/ \E e \in events : Deliver(e)
    \/ Boot
    \/ \E kd \in Kinds : SyncKind(kd) \/ EnqueueExistingMirrors(kd)
    \/ StartWorkers
    \/ Crash
    \/ \E w \in Workers : (\E k \in Keys : Get(w, k)) \/ WorkerStep(w) \/ CallFails(w)
    \/ \E k \in Keys : DelayExpires(k)
    \/ LocalStep
    \/ \E n \in Namespaces : NamespaceGone(n)

Spec == Init /\ [][Next]_vars

\* Goroutines and timers run on; the workqueue is FIFO, so a key that stays
\* on it is taken even if every free worker could take another key (strong
\* fairness of Get).  Nothing is assumed of the environment.
Fairness ==
    /\ WF_vars(Boot)
    /\ WF_vars(StartWorkers)
    /\ \A kd \in Kinds : WF_vars(SyncKind(kd)) /\ WF_vars(EnqueueExistingMirrors(kd))
    /\ \A k \in Keys : WF_vars(InformerUpdate(k)) /\ WF_vars(DelayExpires(k))
    /\ WF_vars(\E e \in events : Deliver(e))
    /\ \A w \in Workers : WF_vars(WorkerStep(w))
    /\ \A k \in Keys : SF_vars(\E w \in Workers : Get(w, k))
    /\ \A n \in Namespaces : WF_vars(NamespaceGone(n))

FairSpec == Spec /\ Fairness

-----------------------------------------------------------------------------
(* What is promised.                                                       *)

\* A notification that its handler will turn into work.
Announced(k) == \E e \in events : e.key = k /\ ~ DownstreamSourceEqual(e)

\* A key that will be reconciled again without any further event.
Queued(k) == k \in dirty \cup delayed \/ Announced(k)

\* A worker is in a pass over the key.
Held(k) == \E w \in Workers : pc[w] # "idle" /\ key[w] = k

\* The local object of a key is what content s calls for.
Mirrors(k, s) ==
    IF s = NoSpec
    THEN local[k].owner # "self" \/ local[k].life = "terminating"
    ELSE local[k].owner = "self" /\ local[k].life = "live" /\ local[k].spec = s

\* No lost update: once the workers run, a key in scope whose mirror differs
\* from the informer cache is on its way to a worker, or a worker holds it
\* (handlers, sweep and retries of Start, RegisterHandlers and runWorker).
NoLostWork ==
    phase = "running" =>
        \A k \in Keys :
            InScope(k) /\ ~ Mirrors(k, cache[k].spec) => Queued(k) \/ Held(k)

\* A worker that goes on with a source which is no longer the cached one has
\* its key announced or marked dirty: the stale write will be followed by
\* another pass (reconcileKey reads the cache once and acts much later).
StaleReadIsRedone ==
    \A w \in Workers :
        pc[w] \notin {"idle", "read"} /\ src[w].spec # cache[key[w]].spec
            => key[w] \in dirty \/ Announced(key[w])

\* A key is never with two workers: the queue's dirty/processing bookkeeping
\* is what keeps the unlocked Get-then-write sequences of one key apart.
OneWorkerPerKey ==
    \A v, w \in Workers :
        pc[v] # "idle" /\ pc[w] # "idle" /\ key[v] = key[w] => v = w

WorkersWrite == \E w \in Workers : UpsertCreate(w) \/ UpsertUpdate(w) \/ DeleteMirror(w)

\* Mirrors never go back in time: over crashes, relists, retries and lost
\* replies, a mirror is only overwritten by the same or a later version of
\* its source (upsert writes a source read several calls earlier).
MirrorsMoveForward ==
    [][\A k \in Keys :
          local[k].owner = "self" /\ local'[k].owner = "self"
              => local'[k].ver >= local[k].ver]_vars

\* Nothing live is pruned: a worker deletes a mirror only if its source was
\* deleted upstream after the version that was mirrored, even when the
\* process has just restarted with an empty cache (Start waits for the sync).
NoPruneOfLiveSource ==
    [][\A k \in Keys :
          /\ WorkersWrite
          /\ local[k].owner = "self"
          /\ local'[k].owner = "none" \/ local'[k].life # local[k].life
          => up[k].gone >= local[k].ver]_vars

\* Objects that do not carry this source's label are not written by the
\* workers, but for one race: deleteMirror deletes by name, so an object that
\* changed hands after the label was read goes too (upsert, deleteMirror).
ForeignUntouched ==
    [][\A k \in Keys :
          WorkersWrite /\ local[k].owner = "other" /\ local'[k] # local[k]
              => \E w \in Workers :
                    /\ pc[w] = "delete" /\ key[w] = k
                    /\ cur[w].owner = "self" /\ cur[w] # local[k]]_vars

\* What the local cluster put on a mirror survives every write of a worker:
\* upsert carries it over from the object it read, and must not write when
\* that object has changed since.
LocalFieldsKept ==
    [][\A k \in Keys :
          WorkersWrite /\ local[k].owner = "self" /\ local'[k].owner = "self"
              => local'[k].fin = local[k].fin]_vars

\* With a target namespace, objects of other namespaces are left alone and
\* other namespaces are not created, whatever label their objects carry.
OutOfScopeUntouched ==
    [][\A n \in Namespaces :
          TargetNamespace \notin {AllNamespaces, n} /\ ns[n] # "terminating"
              /\ (WorkersWrite \/ \E w \in Workers : CreateNamespace(w))
          => /\ ns'[n] = ns[n]
             /\ \A k \in Keys : NamespaceOf[k] = n => local'[k] = local[k]]_vars

\* Eventual consistency: when upstream changes, failures and restarts end,
\* every key in scope ends up mirroring the upstream server, unless somebody
\* else's object holds its name or a finalizer keeps the old mirror there.
Blocked(k) == local[k].owner = "other" \/ local[k].life = "terminating"

Converged ==
    \A k \in Keys : InScope(k) => Mirrors(k, up[k].spec) \/ Blocked(k)

Converges == <>[]Converged

-----------------------------------------------------------------------------
(* The abstract promise.                                                   *)

ScopeKeys == {k \in Keys : InScope(k)}

\* The mirror of a key, as its source sees it.
MirrorContent(k) == IF local[k].owner = "self" THEN local[k].spec ELSE NoSpec

\* Somebody still has to look at the key: the process is not up yet, the
\* informer is behind, the key is on its way to a worker or with one.
Owed(k) == phase # "running" \/ cache[k].ver # up[k].ver \/ Queued(k) \/ Held(k)

Abstract == INSTANCE MirrorPromise
    WITH Keys     <- ScopeKeys,
         Contents <- Content,
         source   <- [k \in ScopeKeys |-> up[k].spec],
         mirror   <- [k \in ScopeKeys |-> MirrorContent(k)],
         owed     <- {k \in ScopeKeys : Owed(k)}

\* The synchroniser implements the level triggered mirror: a source that
\* changes owes its key work until the mirror is right, and mirrors are
\* written only for keys that are owed work (Start, RegisterHandlers and
\* runWorker with everything they call).
ImplementsPromise == Abstract!Promise

-----------------------------------------------------------------------------
(* Inductive strengthening of the invariants, for the proofs.              *)

\* Workers only work while the process runs, on keys the queue counts as
\* being processed, and never two on one key.
Custody ==
    /\ \A w \in Workers : pc[w] # "idle" => key[w] \in processing
    /\ OneWorkerPerKey
    /\ phase # "running" => \A w \in Workers : pc[w] = "idle"

Working(w) == pc[w] \notin {"idle", "read"}

\* What a worker knows at each step of a pass.
PassKnowledge ==
    \A w \in Workers :
        /\ Working(w) => InScope(key[w])
        /\ pc[w] \in {"delget", "delete"} => src[w].spec = NoSpec
        /\ pc[w] \in {"nsload", "nscreate", "upget", "create", "update"}
               => src[w].spec # NoSpec
        /\ pc[w] = "update" => cur[w].owner = "self" /\ cur[w].life = "live"
        /\ pc[w] = "delete" => cur[w].owner = "self"

FreshInv == TypeOK /\ Custody /\ PassKnowledge /\ StaleReadIsRedone

\* Start's order: a kind is swept after it is synced, workers run last.
StartOrder ==
    /\ swept \subseteq synced
    /\ phase = "running" => swept = Kinds

\* Without local actors that reach into mirrors, none of them is held,
\* terminating or in a namespace that goes away.
QuietCluster ==
    /\ \A k \in Keys : local[k].fin = "free" /\ local[k].life = "live"
    /\ \A n \in Namespaces : ns[n] # "terminating"

\* NoLostWork from the first initial list on: sources in the cache are
\* announced by their Add, mirrors without a source by the sweep.
Covered(k) ==
    \/ KindOf[k] \in swept
    \/ KindOf[k] \in synced /\ cache[k].spec # NoSpec

NothingLost ==
    \A k \in Keys :
        InScope(k) /\ Covered(k) /\ ~ Mirrors(k, cache[k].spec) => Queued(k) \/ Held(k)

NoLostInv == FreshInv /\ StartOrder /\ QuietCluster /\ NothingLost

\* The informer store is a past state of the upstream server, and current
\* when it has the version of the server.
CacheFollows ==
    \A k \in Keys :
        /\ cache[k].ver <= up[k].ver
        /\ cache[k].ver = up[k].ver => cache[k].spec = up[k].spec

\* Versions of sources start at one; an unread key has version zero.
VersionsStart == \A k \in Keys : up[k].ver > 0

PromiseInv == NoLostInv /\ CacheFollows /\ VersionsStart

\* What an absence proves: a key seen without a source, on the server or in
\* the informer store, was deleted at that version or later.
DeletionsKnown ==
    \A k \in Keys :
        /\ up[k].gone <= up[k].ver
        /\ up[k].spec = NoSpec => up[k].gone = up[k].ver
        /\ cache[k].spec = NoSpec => cache[k].ver <= up[k].gone

\* A mirror is never ahead of the server nor, once the initial list of its
\* kind is in, of the informer store.
MirrorsBehind ==
    \A k \in Keys :
        local[k].owner = "self" =>
            /\ local[k].ver <= up[k].ver
            /\ InScope(k) /\ KindOf[k] \in synced => local[k].ver <= cache[k].ver

\* The source a worker goes on with lies between the mirror it is about to
\* write and the informer store; if it is an absence, it is a proven one.
ReadsBetween ==
    \A w \in Workers :
        Working(w) =>
            /\ src[w].ver <= cache[key[w]].ver
            /\ local[key[w]].owner = "self" => local[key[w]].ver <= src[w].ver
            /\ src[w].spec = NoSpec => src[w].ver <= up[key[w]].gone

HistoryInv ==
    /\ FreshInv /\ StartOrder
    /\ CacheFollows /\ VersionsStart
    /\ DeletionsKnown /\ MirrorsBehind /\ ReadsBetween
=============================================================================
