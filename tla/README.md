# A TLA+ model of edgecdnx-controller

edgecdnx-controller is a Kubernetes controller manager (Go, controller-runtime) for a CDN. One
binary runs in one of several roles; every role is a set of reconcilers that read objects from
informer caches and write to an API server, plus admission webhooks. This directory holds TLA+
modules for its parts, TLC configurations that check them on small instances, and TLAPS proofs.

## The system

| Part | Source | State it keeps | Operations | Talks to |
| --- | --- | --- | --- | --- |
| Downstream synchronisation (role downstream) | `internal/controller/downstream_controller.go` | informer cache of the upstream cluster, rate limited queue, map of known namespaces | event handlers, start-up (wait for caches, sweep of own mirrors, workers), per key: create, update, delete of the local mirror, creation of namespaces | upstream API (read), local API (write) |
| Zone controller (role controller) | `zone_controller.go` | cleanup finalizer and status on zones | add finalizer, set status, delete the endpoints of a deleted zone, release it | Zones, DNSEndpoints, its own webhooks |
| Service routing controller (role router) | `service_routing_controller.go`, `builder/dnsendpoint_builder.go` | one DNSEndpoint per DNS name and record type | create, update, keep, prune | Services, Zones, DNSEndpoints, garbage collector |
| Service controller, challenge controller (role controller, feature gate) | `service_controller.go`, `challenge_controller.go` | Certificate, ApplicationSet, status | create or update by values hash | cert-manager, Argo CD |
| Service cache controller (role cache-controller) | `service_cache_controller.go` and builders | core Service, gateway Deployment, Secret, Ingress, status | create or update by values hash, delete of the gateway | local API |
| Status controllers | `location_`, `healthcheckprofile_`, `prefixlist_controller.go` | status | set Healthy | |
| Admission | `internal/webhook`, `internal/tenancy` | none; reads the cache, or the API server for tenancy | allow or deny create and update | every writer |
| Prefix consolidation | `internal/consolidation` | none | ConsolidateV4, ConsolidateV6 | no caller yet |
| Set-up | `cmd/main.go`, `internal/featuregate` | flags | wiring of roles, caches and webhooks | |

What is hard here: every decision is taken on a cache that trails the API server, also behind
the controller's own writes; workers, informers, users, other controllers, the garbage collector
and the namespace controller act in any order; calls fail, or succeed and the answer is lost;
processes crash between two calls; several controllers depend on being woken by events they may
not be subscribed to; and the webhooks that guard users also guard the controllers. What makes
the parts correct:

- downstream: nothing that changed upstream is lost or mirrored in the wrong order, nothing
  foreign is touched, and the local cluster converges;
- zones: a deleted zone takes its endpoints with it, goes away in the end, and touches nothing else;
- routing: endpoints converge to what services ask for and go away with them;
- consolidation: exactly the same addresses, with neighbours joined and nothing nested left;
- provisioning: the edges get every service with the certificate in force, and never another's;
- caches: the objects of a service converge to its spec, the controller comes to rest, deletion completes;
- admission: no two records, hosts or zones collide and no reference leaves its project, except
  through the window between a webhook's view and what is stored.

## Modules

| Module | Models | Instances and proofs |
| --- | --- | --- |
| `DownstreamSync` | downstream synchronisation, the core | `MCDownstreamSync`, `DownstreamSync_proofs` |
| `MirrorPromise` | nothing of the code: what a level triggered mirror promises | `DownstreamSync_refinement` proves that `DownstreamSync` implements it |
| `ZoneCleanup` | zone controller, with the admission of its own updates | `MCZoneCleanup`, `ZoneCleanup_proofs` |
| `ServiceRouting` | service routing controller | `MCServiceRouting`, `ServiceRouting_proofs` |
| `ServiceProvisioning` | service controller and challenge controller, cert-manager and the garbage collector between them | `MCServiceProvisioning`, `ServiceProvisioning_proofs` |
| `ServiceCache` | service cache controller and the four builders it uses | `MCServiceCache`, `ServiceCache_proofs` |
| `RecordAdmission` | all admission webhooks and the tenancy rules | `MCRecordAdmission`, `RecordAdmission_proofs` |
| `Consolidation` | both consolidation functions | `MCConsolidation`, `Consolidation_proofs` |

The modules meet in the objects they share, and each models the others' part of such an object as
environment: `RecordAdmission` is the full form of the admission that `ZoneCleanup` and `ServiceRouting`
use in the form their own writes meet; the Certificate data that `ServiceProvisioning` puts into its
ApplicationSet is the `crt` of the specs `ServiceCache` starts from.

### DownstreamSync

A key is a queue key (kind, namespace, name). `up` is the upstream API server, `cache` the
informer store, `events` notifications on their way to the handlers (a set: a handler only adds
its key, so order and repetition do not matter), `dirty`, `processing` and `delayed` the
workqueue, `pc/key/src/cur` the program counter and locals of each worker, `nsCache` the sync.Map of
namespaces, `local` and `ns` the local API server.

- `Deliver` is the handler of `RegisterHandlers` with `downstreamSourceEqual` and `enqueueObject`.
- `Boot`, `SyncKind`, `WaitForCacheSync`, `EnqueueExistingMirrors`, `StartWorkers` are `Start`.
- `Get`, `Succeed`, `Fail`, `Done` are `runWorker`; `ReconcileKey`, `EnsureNamespace`,
  `CreateNamespace`, `UpsertGet`, `UpsertCreate`, `UpsertUpdate`, `DeleteGet`, `DeleteMirror` are
  the API calls of one pass, one action each, since anything may happen between two calls.
- `CallFails` covers failed calls and lost answers, `Crash` the end of the process at any point
  (the graceful drain of `Start` is one way to get there).
- What others do in the local cluster is switched on by `LocalActors`: "foreign" objects under a
  mirror's name, "takeover" (the managed label is removed), "finalizer" (another controller holds
  a mirror and writes its local fields), "nsdelete".

Abstractions: object content is a model value that stands for everything `downstreamSourceEqual`
compares; the resourceVersion check of an update is equality of the stored object with the one read (a
change back to an equal object only costs the code an extra retry); versions are history and read by no
guard. `UpsertGet` may write an object that is already as it should be: a server that records
managedFields returns them, the desired object has none, and `DeepEqual` (line 362) fails. A call that
takes effect while its reply is lost is an outcome of each write (`Reply`, `CreateNamespace`). An API
call is atomic. A relist after a restart is not older than what was seen before. Leader election gives
one instance.

### ZoneCleanup

`zone` and `ep` are the API server, `zoneCache` and `epCache` the manager's cache, updated object by
object. One pass of `Reconcile` is one of `ReconcileNothing`, `ReconcilePending` (then one
`ReconcileDelete` per endpoint and `ReconcileRequeue`), `ReconcileListEmpty` (then `ReconcileRelease`,
since the list of endpoints and the removal of the finalizer are two calls and endpoints come in
between), `ReconcileFinalizer` (then `ReconcileStatus`) or `ReconcileHealthy`. In the other passes the
read of the cached zone and the one write that follows it are one action: the write depends on nothing
else that was read, and is compared with the API server when it is made. A pass takes its key off the
queue when it begins, and what arrives meanwhile stays queued (`Waiting`). `ZoneEvent` brings the cache
up to date and queues the zone; `Resync` queues every zone as the cache has it, however old that is.
`AdmitZone` and `AdmitEndpoint` are the webhooks; they also judge the reconciler's own updates and those
of other finalizers' owners, but not those of the status subresource. `held` is a finalizer of somebody
else on a zone or endpoint.

### ServiceRouting

A service has a list of DNS names (domain, then aliases); the pass walks `work`, the pairs of names
and record types in loop order, then prunes. `Canonical` is the part of a DNS name that enters the
endpoint's name (no case, no trailing dot); `Covering` and `Length` say which zones of the project
match a DNS name and how long they are. The values hash is the pair of DNS name and route
selector it is taken from. `noticed` keeps the watch honest: a version that was written with an
owner and is gone again before the informer caught up is still reported. `CollectGarbage` is the
cluster's garbage collector. Left out: truncation of very long service names; a service that
lingers in foreground deletion; endpoints with finalizers; admission other than the zone reference.

### ServiceProvisioning

One service. `svc`, `cert`, `secret`, `appset`, `chal` and `solver` are the API server; names ending in
`C` are the informers' views; `news` are kinds with versions yet to be delivered; `svcQ` and `chalQ` say
whether the service and the challenge are queued. A pass reads caches only and ends with its one write,
so it is one action, named after the branch it takes: `ReconcileFirst` (status), `CreateCertificate`,
`SkipTerminatingCertificate`, `AdoptCertificate`, `UpdateCertificate`, `AwaitSecret` (the early return
for a secret that is not there), `CreateAppset`, `SkipTerminatingAppset`, `UpdateAppset`, `MarkHealthy`;
for the challenge controller `ChallengeGone`, `ChallengeUnowned` (the owner chain cannot be resolved
yet), `ChallengeNotPresented`, `CreateSolver`, `UpdateSolver` and `KeepSolver`, which go by the cached
solver (`solverC`). A write carries the resourceVersion of the cached object: it is refused when the
stored one differs, and the pass is retried. `Want`, `ServiceAppset` and `ChallengeResources` are the
builders, reduced to what their hashes tell apart. `issued` remembers what every serial number was issued
for, so that a property can tell whose certificate the edges hold. cert-manager (`Order`, `Present`,
`Issue`, `ReportReady`, `ReportNotReady`) is external and modelled from what the controllers read of it.
A new challenge waits until the solver of the last one is gone. Nobody deletes a solver by hand, and
users make only certificates whose secret is named for the certificate's own domain (see the limits below
for what the code does otherwise).

### ServiceCache

One service on a cache cluster. `obj` holds the objects by kind; the `values` of an object are what its
hash annotation is taken from, made by `CoreService`, `Gateway`, `Secret` and `Ingress`. `Reached(k)` says that the
chain of comparisons in `Reconcile` has come to kind `k` (everything before it is settled in the
cache); `CreateObject`, `UpdateObject`, `DeleteGateway` and `CreateIngress` are the writes that end a pass there,
`MarkHealthy` the end of a pass with nothing to do. `Mutable` is the API server's rule that a deployment's
selector cannot change. The certificate and its key are one value, encoded as the service controller
encodes them. Deletion in the foreground (`deleting`) and in the background are both there.

### RecordAdmission

Objects have a kind and a namespace; `obj` is what is stored, `view` the manager's cache, `req` the
request an object has on its way between admission and storing. `Request` takes a request past `Admit`,
which is every check the code registers for the kind (`Handle` of the tenancy webhook,
`ValidateEndpoint`, `ValidateService`, `ValidateZone`, `ValidateProbes`); `Store` writes it, `Refuse` is
a request that ends otherwise, and `Delete`, the informers (`Event`) and changes of projects go on
meanwhile. Projects and references are looked up at the API server, everything else in the cache. Names
are compared through `Canonical` where the code lower-cases and adds the final dot, and spelled as they
are where it does not. `ValidateZone` appends a dot to both zones and trims none, so `SameEnding` asks
that both spellings have the final dot (`Dotted`) or neither has it; otherwise `Overlaps` finds nothing
(the root zone and names that end in two dots are left out). `ValidNames` are the zone names that
`validDNSName` accepts. What another name, an address or record data looks like is a field of the request
(`parses`, `wellFormed`).

Since admission is not atomic with storing, its guarantees hold up to a window, and the history
variables say exactly which pairs fell into it: `stale` (the cache showed the request an old version),
`late` (written or deleted since the admission), `gone` (deleted since the admission), `blind` (pairs stored
without one having been checked against the other as it was), `orphans` (references whose target was
deleted under them, or between their check and their storing). No guard
reads them.

### MirrorPromise

`source`, `mirror` and the set `owed` of keys somebody still has to look at. A change of the source owes its
key work; a mirror is written only for a key in `owed`; a key leaves `owed` only when its mirror is its source.
`DownstreamSync` maps `source` to the upstream server, `mirror` to the local objects with its label, and `owed`
to the keys that are queued, announced, delayed, with a worker, not yet seen by the informer, or all
of them while the process is not up.

### Consolidation

Addresses are functions from bit positions to bits, so the algorithm can be stated, checked and proved
for any width. `Merge` is one turn of the first loop, `Keep` the second loop and the copy. The properties
are about the set of networks: equal entries of a list are not told apart (the code returns a network
twice when it was given twice, or both given and joined), two networks of length 2 are not joined, since
the loop ends there, and so the result is not always the shortest list. Addresses are assumed to parse
and to come back from `String` as they went in, which excludes IPv6 prefixes of IPv4-mapped addresses
(`::ffff:0:0/96` and longer: Go prints them as IPv4); the result is not sorted.

## Runs

| Run | Checks | Result |
| --- | --- | --- |
| `ds_key` | `TypeOK`, `NoLostWork`, `StaleReadIsRedone`, `OneWorkerPerKey`, `MirrorsMoveForward`, `Converges`, `ImplementsPromise` | hold |
| `ds_kinds` | `NoPruneOfLiveSource`, `OutOfScopeUntouched`, `ForeignUntouched`, `LocalFieldsKept`, with every local actor | hold |
| `ds_terminating` | `Converges` with local finalizers | violated |
| `zc_safe` | `TypeOK`, `CleanupOnlyOfDeletedZones`, `RestMeansReconciled` | hold |
| `zc_live` | `ZoneDeletionCompletes`, `ZonesBecomeHealthy` | hold |
| `zc_project` | `ZoneDeletionCompletes` with projects that are deleted | violated |
| `sr` | `RestMeansRouted`, `OtherProjectsNotRewritten`, `RoutesConverge`, `RoutesFollowService` | hold |
| `sp` | `TypeOK`, `RestMeansProvisioned`, `OwnCertificate`, `PresentedMeansSolver`, `EdgesGetCertificate` | hold |
| `sp_secret_order` | `RestMeansProvisioned` when the certificate informer may be ahead of the secret informer | violated |
| `sc` | `RestMeansServed`, `CachesConverge`, `Settles`, `DeletionCompletes`, `NothingLeftBehind` | hold |
| `ra` | `TypeOK`, `RecordsClashOnlyByRace`, `HostsSharedOnlyByRace`, `ZonesOverlapOnlyByRace`, `ReferencesStayInProject`, `RecordsLieInZone` | hold |
| `co_lists` | `TypeOK`, `CoverageKept`, `ResultIsReference` | hold |

Bounds. `Budget` bounds the steps of users, failures and restarts together; everything the
controllers and informers do is unbounded.

- `ds_key`: one key is enough for properties of one key, since keys share only the namespace map and
  the pool; two workers are needed to collide; four environment steps allow change, failure, crash
  and another change. `ds_kinds` adds what one key cannot show: kinds that sync at different times,
  namespaces in and out of scope, and other clients' objects, labels, finalizers and namespaces that
  come and go; contents are only compared, so they are symmetric there (action properties only).
- `zc_*`: two zones (nested in `zc_safe`), one endpoint that moves between them, up to five steps: enough for
  create, delete and create again around an endpoint's life.
- `sr`: one service (endpoint names contain the service's name, services do not share them), two names
  and two routes, one record type (the second only repeats the inner loop), two zones of which one
  covers both names; five steps, among them deleted zones and endpoints of another project.
- `sp`: one service that moves to another domain, cache and alias; three steps of users (a foreign
  certificate, deletions, renewals), failures and restarts. `sp_secret_order` needs two.
- `sc`: four specs (static with certificate and alias, S3, S3 with other keys, S3 with another domain),
  three steps: enough to create, change and delete with a failure in between.
- `ra`: two endpoints, services, zones and other objects in one namespace shared by two projects, names
  with two spellings, and three requests or deletions, the least in which a third party can change
  what two requests were judged by. One request per object is on its way at a time.
- `co_lists`: 4-bit addresses and three prefixes with any host bits reach joins over two levels,
  prefixes given next to their join, and nesting.

Fairness. Informers deliver (`WF`), worker goroutines and started passes go on (`WF`), the rate limiter's
timers expire (`WF`), and a queued key is taken in the end although others are queued again and
again (`SF`: the workqueue is first-in first-out). In `ZoneCleanup` whoever holds a finalizer lets go, in
`ServiceRouting`, `ServiceProvisioning` and `ServiceCache` the garbage collector runs, and in `ServiceProvisioning`
cert-manager does its part. Users, failures and crashes get no fairness, and their
budget makes them stop. No resync is assumed to come: upstream caches have none
(`cmd/main.go:238-244`), and the manager's own default of ten hours is too rare to count as repair.
Where one could do harm it is an action that may happen (`Resync` of `ZoneCleanup`, in `zc_live`).

Deadlock is not checked: all of these systems rest when there is nothing to do; that they do not rest too
early is what `Converges`, `RoutesConverge`, `ZoneDeletionCompletes`, `EdgesGetCertificate` and
`CachesConverge` say, and, for a state the system has come to rest in, the invariants
`RestMeansReconciled`, `RestMeansRouted`, `RestMeansProvisioned` and `RestMeansServed`. `ra` ends when
its budget does.

Every property of a passing run has a mutant: an operator with a suffix (`Done_ForgetsDirty`,
`Joined_Unpaired`, ...) stands before the definition it could replace and shows a bug under which the
property fails.

## What the violated runs show

- `ds_terminating`: a source deleted and created again upstream, while a local finalizer keeps the old
  mirror. `upsert` returns nil for a terminating mirror (line 351) and nobody queues the key when the
  finalizer goes.
- `zc_project`: the tenancy webhook denies the update that removes the finalizer of a zone whose project
  is gone (`validation.go:58`); the zone never goes.
- `sp_secret_order`: a certificate is seen ready before its secret is in the cache. The pass returns
  without error or requeue (`service_controller.go:146`) and secrets are not watched.

## Known limits of the code

Cases the properties leave out or name as exceptions, because the code does not handle them. The
first three are stated as properties of `ZoneCleanup`, which TLC refutes in seconds under the named
constants.

- `FinalizerWaitsForEndpoints` (`UserActions = {"create"}`, three steps): the list that decides is cached, and
  an endpoint may come between it and the removal of the finalizer.
- `UnrelatedEndpointsKept` (`UserActions = {"create", "retarget"}`, five steps): deletion by name from that list.
- `NoOverlappingZones` (`Overlap <- Nested`, two steps): the overlap check reads the cache. Two zones
  admitted this way also deny each other's finalizer updates.
- `CleanupOnlyOfDeletedZones` with `"lost"` or `"resync"`: when the answer to the releasing update is lost, or
  the informer resyncs before it has seen the zone go, the next pass works from the cached
  terminating zone and may sweep a zone created again under its name.
- Downstream: `deleteMirror` deletes by name after a label check, so an object that changed hands in
  between goes (the exception in `ForeignUntouched`). The map of known namespaces is never
  invalidated (line 309): after a local namespace is deleted, creates in it fail for ever, although
  the repository's README says that missing namespaces are created. A mirror that others edit or
  delete is repaired only by the next change upstream or a restart.
- Routing: zones are not watched, so an endpoint stays in a zone that was deleted until its service
  is reconciled again (`Routed` asks for a matching zone, not for one that exists). Two spellings of
  one DNS name in one service share an endpoint name (line 147) but not a values hash
  (`dnsendpoint_builder.go:75`): the two iterations overwrite each other and every write starts the next
  pass. In a cluster that runs the controller role too, the router recreates the endpoints of a
  terminating zone. A service deleted in the foreground has its endpoints recreated while it lingers.
- Provisioning: a terminating certificate that no service controls ends a pass that nothing calls back.
  So does a terminating solver ApplicationSet: the pass of a presented challenge skips it
  (`challenge_controller.go:310-313`), and the controller watches nothing but challenges. A certificate
  found under the wanted name is adopted whatever secret it names; its spec is rewritten, and until
  cert-manager has replaced a secret that does not fit, the edges may be given that one. After a change
  of aliases the ApplicationSet keeps the old certificate as long as Ready is true, is rewritten without
  one when Ready goes false, and gets the new one once it is issued. The status stays Healthy over later
  changes. An annotated object that somebody edits keeps its hash and is not repaired. A pre-existing
  ApplicationSet is taken over without an owner.
- Caches: the domain of an S3 service cannot be changed (`GatewayStuck`): it is the selector of the
  gateway's deployment, so every update is refused and retried; such a service is never at rest, so
  `RestMeansServed` needs no exception for it. Services `a.b` and `a-b` share the names of their objects.
  A certificate or key in a Service that is not base64 fails every pass
  (`service_cache_controller.go:195-205`), before the ingress is reached.
- Admission: `ValidateZoneOverlaps` appends a dot to a zone's name without trimming one that is there
  (`zone_webhook.go:64`), and the schema has no pattern: zones `com` and `com.` are both admitted, with
  no race, and so are `com.` and `x.com`. The exception is part of `ZonesOverlapOnlyByRace`; the endpoint
  webhook is not affected, as it uses `dns.Fqdn`. A domain is not compared with the aliases of other
  services, nor aliases with spellings of themselves. Locations may refer to each other in a circle, and
  a location may have both a parent and fallbacks although its type says "FallbackLocations must be
  empty". Deletions of zones are not validated: `ValidateDelete` is not registered.

## Proofs

`DownstreamSync_proofs` proves, for every set of keys, kinds, namespaces and workers and every budget:

- `TypeCorrect`: `Spec => []TypeOK`.
- `OneWorker`: `Spec => []OneWorkerPerKey`. The invariant is not inductive alone; `Custody` adds that a worker
  with a key has it in `processing` and that workers are idle unless the process runs.
- `StaleReadsRedone`: `Spec => []StaleReadIsRedone`, from `FreshInv` (types, custody, and `PassKnowledge`: what a
  worker knows at each step of a pass). The argument: a cache change announces the key, the
  announcement becomes `dirty`, and `dirty` is only cleared by handing the key to a worker, which
  can't be while it is processed.
- `NoWorkLost`: `Spec => []NoLostWork` under `LocalActors \subseteq {"foreign"}`. `NoLostInv` extends the
  invariant back to start-up (`StartOrder`, `NothingLost`: sources in the cache are announced by their
  Add, mirrors without source by the sweep) and says that mirrors are not held or terminating
  (`QuietCluster`). The assumption is needed: with finalizers the statement is false, as `ds_terminating`
  shows.

- `MirrorsGoForward` (`Spec => MirrorsMoveForward`) and `LiveSourcesKept` (`Spec =>
  NoPruneOfLiveSource`), with every local actor. Both say what a worker may do with a source it read
  several calls ago. `HistoryInv` adds what versions tell: an absence in the informer store is a deletion
  the server has seen (`DeletionsKnown`), a mirror is not ahead of the store once the initial list of its
  kind is in (`MirrorsBehind`), and what a worker has read lies between the mirror it will write and the
  store (`ReadsBetween`). The sweep cannot mistake an empty store for a deletion since `StartOrder` has
  workers start last.
- `ForeignObjectsKept` (`ForeignUntouched`), `LocalPartKept` (`LocalFieldsKept`) and `ScopeKept`
  (`OutOfScopeUntouched`), from `FreshInv`: what a worker has checked (label, terminating, scope) is in
  `PassKnowledge`, and an update is refused when the object differs from the one read.

`DownstreamSync_refinement` proves `Refinement`: `Spec => ImplementsPromise` under the same assumption.
`PromiseInv` adds to `NoLostInv` that the informer store is a past state of the upstream server, and the
present one when versions agree (`CacheFollows`). Then a key that is not owed has the right mirror
(`SettledIsKept`), and every step maps: upstream clients change the source (`UpstreamChanges`), a worker's
step writes the mirror of the key it holds (`WorkerWrites`), everything else, crashes included, is a
`Reassess` (`OthersReassess`).

`ZoneCleanup_proofs` proves, for every set of zones and endpoints:

- `TypeCorrect`.
- `RestReconciled`: `Spec => []RestMeansReconciled`, with every action of users, lost answers and resyncs
  included. The property speaks of an up-to-date cache; `RestKnown` says what holds while it lags: a zone
  the reconciler neither has queued nor in hand is settled in the cache, or the reconciler has already
  written what the cache will tell (`Written`). `WorkerKnows` carries this through a pass: what the
  worker holds is what the cache still shows, unless an event has queued the key again. It is why a
  status update refused after the finalizer was added, or an event in the middle of a pass, is not
  forgotten.
- `CleanupOfDeleted`: `Spec => []CleanupOnlyOfDeletedZones` when neither `"lost"` nor `"resync"` is among
  `UserActions`. A stale view could show a zone under cleanup that is long gone and created again.
  `CleanupsKnown` says why it does not: only the reconciler ends a cleanup (`CleanupEnds`), and after
  that it does not have the key on its queue or in its hands until the informer has news. A lost answer
  or a resync breaks exactly this (see the limits above), hence the assumptions.

`ServiceRouting_proofs` proves, for every set of services, DNS names, zones, specs and record types:

- `TypeCorrect` and `OtherProjectsKept` (`Spec => OtherProjectsNotRewritten`).
- `RestRouted`: `Spec => []RestMeansRouted`. The invariant speaks of a service at rest; `RestInv` says for every
  service what it can still rely on. `Upheld`: whatever a pass has achieved holds, or an event is due
  that brings the service back to the queue. `ServicesUpheld` states it for the passes that are over,
  `PassUpheld` for the one under way, where the pairs still in `work`, and before pruning all endpoints
  in excess, are exempt. `OwnersNoticed` is why events reach the service: an owned endpoint the informer
  does not know yet will be reported. `UidsApart` keeps services from being woken for, or pruning, each
  other's endpoints. The proof first reduces every step to what it does to one endpoint and one
  service, then shows for each kind of change that the event it causes covers what it undoes.

`ServiceProvisioning_proofs` proves, for every set of specs (`SpecsAssumption`):

- `TypeCorrect` and `CertificateOfDomain` (`Spec => []OwnCertificate`). `OwnInv` adds that a secret,
  stored or cached, holds what was issued for its domain (`SecretsOfDomains`). That carries the proof:
  the pass uses the secret of a certificate it has found to be the one the service's spec asks for, so
  the three views may be of different ages.
- `PresentedSolved`: `Spec => []PresentedMeansSolver`. `SolverSeen` adds that a solver in the cache is
  still there as long as its challenge is, so that a pass that keeps or updates it does not go by a
  memory.
- `RestProvisioned`: `Spec => []RestMeansProvisioned` under `SecretsFirst` and `"abandon" \notin
  UserActions`. `RestInv`: a view with nothing left to deliver is current (`ViewsCurrent`), and a service
  that is not queued and has no event due was left by a pass in one of the ways `LeftAlone` lists
  (`PassesOwed`). With current views, all of them but the last are then impossible, or mean that the
  service is provisioned. Without the first assumption the statement is false (`sp_secret_order`); the
  second excludes the terminating certificate that no service controls, named among the limits.

`ServiceCache_proofs` proves `TypeCorrect` and `RestServed` (`Spec => []RestMeansServed`) for every set
of specs. `CacheInv`: views with nothing left to deliver are current, objects have owners, and a service
at rest was found settled by its last pass (`RestSettled`). `GatewayStuck` needs no exception here, since
its refused update is queued again.

`RecordAdmission_proofs` proves, for every set of objects, projects, namespaces, names and requests, the
type invariant and the five safety invariants of `ra` (`TypeCorrect`, `RecordsApart`, `HostsApart`, `ZonesApart`,
`ReferencesInProject`, `RecordsInside`). The invariants speak of stored objects, but a check is made when a
request is judged and used when it is stored; `AdmissionInv` carries it over: a request on its way is
apart from every object it has seen as it still is (`Apart`), its references resolve but for targets
that are gone since (`Resolves`), and a record lies in its zone (`Inside`). `UpdatesKeep` is needed because a
stored object's project, and a zone's domain, must not change under those who refer to it. The
assumption on names (`NamesAssumption`) is what makes names a tree: two names above a third are one above the
other, so that zones which do not contain each other share no name; for zones with different endings
the code makes no comparison and the theorem no claim.

`Consolidation_proofs` proves, for every width of at least 2 and every input:

- `TypeCorrect` and `CoverageIsKept` (`Spec => []CoverageKept`).
  `JoinedFacts`: two different halves of a network differ in exactly the bit after the network's, so an
  address of the network is in one of them. `KeptCovers`: of the prefixes around an address a
  shortest one exists (well-foundedness of `<`) and is not dropped.
- `ResultIsTheReference`: `Spec => []ResultIsReference`, the result is exactly the reference. `LoopInv`
  is the invariant of the first loop: every fully covered network longer than the current length lies in
  a prefix of the list (`FoundSoFar`), and the list has nothing but the input and candidates
  (`CandidatesOnly`). Going down from the full width, the loop does the induction over lengths: the
  halves of a covered network are covered, so each lies in a prefix of the list; either one of these
  contains the whole network, or both are the halves themselves and are joined.

Assumptions on the constants are named in the modules and evaluated by TLC in every run: apart from
types, that a placeholder (`NoService`, `NoZone`, ...) is not a member of the set it stands outside of, that a spec
names a cache, and the tree of names above. The bound `Budget` is any natural number in the theorems.

Only model-checked: liveness (`Converges`, `ZoneDeletionCompletes`, `ZonesBecomeHealthy`,
`RoutesConverge`, `RoutesFollowService`, `EdgesGetCertificate`, `CachesConverge`, `Settles`,
`DeletionCompletes`, `NothingLeftBehind`), since TLAPS does not handle fairness here. `RestReconciled`,
`RestRouted`, `RestProvisioned` and `RestServed` prove the part of it that is safety, that the
controllers do not stop short; that they do come to rest is left to TLC. Every invariant and action
property that a passing run checks is proved.

## Plan

1. Done: the modules and proofs above.
2. Left to prove: the safety half of `RoutesFollowService`.
3. Left to model: `ZoneCleanup` and `ServiceRouting` in one cluster.

## Not modelled

- The status controllers write the status Healthy once and do nothing else.
- `cmd/main.go` runs once and exits on any error; which webhooks it registers is in `RecordAdmission`,
  which caches and roles it sets up in the constants and assumptions of the models.
- Manifests of Deployments, Ingresses and Helm values in `internal/builder` beyond the fields a hash or a
  property tells apart; `app_builder.go` has no caller.
- Generated deep copies, API type declarations, syntax checks of DNS names and record data, metrics.
