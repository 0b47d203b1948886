---------------------------- MODULE ServiceCache ----------------------------
(***************************************************************************)
(* The service cache controller (role cache controller,                    *)
(* internal/controller/service_cache_controller.go) around one Service: it *)
(* keeps a core Service, the deployment of an S3 gateway, a TLS secret and *)
(* an Ingress, and rewrites whichever does not carry the values hash of    *)
(* what it wants, one per pass, in this order.                             *)
(*                                                                         *)
(* A pass reads the informer caches only and ends with its write, or with  *)
(* the two writes that follow the creation of the ingress, which do not    *)
(* depend on one another: it is one step, and the lag of the caches stands *)
(* for the time that passes between its reads and its writes.              *)
(***************************************************************************)
EXTENDS Naturals

CONSTANTS
    Specs,   \* service specs: [origin, upstream, domain, aliases, cache, crt]
    Budget   \* bound on the steps of users and on failures

ASSUME SpecsAssumption ==
    /\ Specs # {}
    /\ \A s \in Specs : DOMAIN s = {"origin", "upstream", "domain", "aliases", "cache", "crt"}
                        /\ s.origin \in {"static", "s3"}
ASSUME BudgetAssumption == Budget \in Nat

VARIABLES
    svc,    \* API server: the service
    obj,    \* API server: the objects made for it, by kind
    svcC, objC,  \* the informers' views
    news,   \* kinds with versions the informers have yet to deliver
    queued, \* is the service queued?
    uids,   \* UIDs handed out
    budget

vars == <<svc, obj, svcC, objC, news, queued, uids, budget>>

-----------------------------------------------------------------------------
(* What the builders make of a spec: the values hash is taken from it.     *)

\* ExternalName of the static upstream, or headless before the S3 gateway.
CoreService(s) ==
    IF s.origin = "static" THEN [type |-> "ExternalName", to |-> s.upstream]
                           ELSE [type |-> "headless", to |-> s.domain]

\* withS3GatewayDomainName: the domain is also the selector.
Gateway(s) == [credentials |-> s.upstream, selector |-> s.domain]

\* Crt and Key are one value, of the controller's own base64 encoding: one
\* written by hand that does not decode fails every pass.
Secret(s) == [crt |-> s.crt]

Hosts(s) == {s.domain} \cup s.aliases

Ingress_FirstHost(s) ==
    [class |-> s.cache, backend |-> s.origin, hosts |-> Hosts(s),
     tls |-> IF s.crt = 0 THEN {} ELSE {s.domain}]
Ingress(s) ==
    [class |-> s.cache, backend |-> s.origin, hosts |-> Hosts(s),
     tls |-> IF s.crt = 0 THEN {} ELSE Hosts(s)]

Kinds == {"core", "deployment", "secret", "ingress"}

Build(k, s) ==
    CASE k = "core" -> CoreService(s) [] k = "deployment" -> Gateway(s)
      [] k = "secret" -> Secret(s) [] k = "ingress" -> Ingress(s)

\* The kinds a spec asks for: a gateway for S3, a secret once there is a
\* certificate.
Asked(s) == {k \in Kinds : (k = "deployment" => s.origin = "s3") /\ (k = "secret" => s.crt # 0)}

-----------------------------------------------------------------------------
ServiceObject == [uid : Nat, spec : Specs, status : {"", "Progressing", "Healthy"}, deleting : BOOLEAN]
NoServiceObject == [uid |-> 0, spec |-> CHOOSE s \in Specs : TRUE, status |-> "", deleting |-> FALSE]

\* values is what the hash annotation stands for.
Objects(k) == [there : BOOLEAN, owner : Nat, values : {Build(k, s) : s \in Specs}]
NoObject(k) == [there |-> FALSE, owner |-> 0, values |-> Build(k, CHOOSE s \in Specs : TRUE)]

ObjectTable ==
    {t \in [Kinds -> [there : BOOLEAN, owner : Nat, values : {Build(k, s) : k \in Kinds, s \in Specs}]] :
        \A k \in Kinds : t[k] \in Objects(k)}

TypeOK ==
    /\ svc \in ServiceObject /\ svcC \in ServiceObject
    /\ obj \in ObjectTable /\ objC \in ObjectTable
    /\ news \subseteq Kinds \cup {"service"}
    /\ queued \in BOOLEAN /\ uids \in Nat /\ budget \in 0 .. Budget

Init ==
    /\ svc = NoServiceObject /\ svcC = svc
    /\ obj = [k \in Kinds |-> NoObject(k)] /\ objC = obj
    /\ news = {} /\ queued = FALSE /\ uids = 0 /\ budget = Budget

Spend == budget > 0 /\ budget' = budget - 1

\* An update that changes nothing makes no new version.
PutService_AlwaysNew(s) == svc' = s /\ news' = news \cup {"service"}
PutService(s) == svc' = s /\ news' = news \cup {k \in {"service"} : s # svc}

PutObject(k, o) == obj' = [obj EXCEPT ![k] = o] /\ news' = news \cup {k}

-----------------------------------------------------------------------------
(* Users, the garbage collector and the informers.                         *)

CreateService(s) ==
    /\ svc.uid = 0
    /\ PutService([uid |-> uids + 1, spec |-> s, status |-> "", deleting |-> FALSE])
    /\ uids' = uids + 1
    /\ Spend
    /\ UNCHANGED <<obj, svcC, objC, queued>>

UpdateService(s) ==
    /\ svc.uid # 0 /\ svc.spec # s
    /\ PutService([svc EXCEPT !.spec = s])
    /\ Spend
    /\ UNCHANGED <<obj, svcC, objC, queued, uids>>

\* In the foreground the service stays until what it owns is gone.
DeleteService(foreground) ==
    /\ svc.uid # 0 /\ ~ svc.deleting
    /\ PutService(IF foreground THEN [svc EXCEPT !.deleting = TRUE] ELSE NoServiceObject)
    /\ Spend
    /\ UNCHANGED <<obj, svcC, objC, queued, uids>>

UserDelete(k) ==
    /\ obj[k].there
    /\ PutObject(k, NoObject(k))
    /\ Spend
    /\ UNCHANGED <<svc, svcC, objC, queued, uids>>

Collect(k) ==
    /\ obj[k].owner # 0
    /\ obj[k].owner # svc.uid \/ svc.deleting
    /\ PutObject(k, NoObject(k))
    /\ UNCHANGED <<svc, svcC, objC, queued, uids, budget>>

Vanish ==
    /\ svc.deleting /\ \A k \in Kinds : obj[k].owner # svc.uid
    /\ PutService(NoServiceObject)
    /\ UNCHANGED <<obj, svcC, objC, queued, uids, budget>>

ServiceEvent ==
    /\ "service" \in news
    /\ svcC' = svc /\ news' = news \ {"service"} /\ queued' = TRUE
    /\ UNCHANGED <<svc, obj, objC, uids, budget>>

\* All four kinds are watched; every object made here has an owner.
ObjectEvent(k) ==
    /\ k \in news
    /\ objC' = [objC EXCEPT ![k] = obj[k]] /\ news' = news \ {k} /\ queued' = TRUE
    /\ UNCHANGED <<svc, obj, svcC, uids, budget>>

-----------------------------------------------------------------------------
(* Reconcile.  An error, a conflict among them, queues the service again.  *)

End(again) == queued' = again /\ UNCHANGED <<svc, obj, news>>

Pass == queued /\ UNCHANGED <<svcC, objC, uids, budget>>

ReconcileGone ==
    /\ Pass /\ svcC.uid = 0
    /\ End(FALSE)

Deleting_Ignored == FALSE
Deleting == svcC.deleting

ReconcileDeleting ==
    /\ Pass /\ svcC.uid # 0 /\ Deleting
    /\ End(FALSE)

ReconcileFirst ==
    /\ Pass /\ svcC.uid # 0 /\ ~ Deleting /\ svcC.status = ""
    /\ IF svc = svcC
       THEN PutService([svcC EXCEPT !.status = "Progressing"]) /\ queued' = FALSE /\ UNCHANGED obj
       ELSE End(TRUE)

Working == Pass /\ svcC.uid # 0 /\ ~ Deleting /\ svcC.status # ""

Desired_Unowned(k) == [there |-> TRUE, owner |-> 0, values |-> Build(k, svcC.spec)]
Desired(k) == [there |-> TRUE, owner |-> svcC.uid, values |-> Build(k, svcC.spec)]

\* The object is there with the wanted hash, or not wanted in the first place.
Settled(k) ==
    IF k \in Asked(svcC.spec) THEN objC[k].there /\ objC[k].values = Build(k, svcC.spec)
    ELSE k = "deployment" => ~ objC[k].there

\* The chain has come to k: everything before it is settled.
Reached(k) ==
    Working /\ ~ Settled(k)
    /\ \A j \in CASE k = "core" -> {} [] k = "deployment" -> {"core"}
                  [] k = "secret" -> {"core", "deployment"}
                  [] k = "ingress" -> {"core", "deployment", "secret"} : Settled(j)

Write_ErrorIgnored(k, o, accepted) ==
    IF accepted THEN PutObject(k, o) /\ queued' = FALSE /\ UNCHANGED svc ELSE End(FALSE)

Write(k, o, accepted) ==
    IF accepted THEN PutObject(k, o) /\ queued' = FALSE /\ UNCHANGED svc ELSE End(TRUE)

CreateObject(k) ==
    /\ Reached(k) /\ k \in Asked(svcC.spec) /\ ~ objC[k].there
    /\ Write(k, Desired(k), ~ obj[k].there)

\* External: the API server refuses to change the selector of a deployment.
Mutable(k) ==
    k = "deployment" => obj[k].values.selector = Build(k, svcC.spec).selector

\* The owner stays what it is.
UpdateObject(k) ==
    /\ Reached(k) /\ k \in Asked(svcC.spec) /\ objC[k].there
    /\ Write(k, [Desired(k) EXCEPT !.owner = objC[k].owner], obj[k] = objC[k] /\ Mutable(k))

\* Static origin: the gateway goes; NotFound is an error.
DeleteGateway ==
    /\ Reached("deployment") /\ "deployment" \notin Asked(svcC.spec)
    /\ Write("deployment", NoObject("deployment"), obj["deployment"].there)

\* The status is written whatever it was.
WriteHealthy(kinds) ==
    IF svc = svcC
    THEN /\ svc' = [svcC EXCEPT !.status = "Healthy"]
         /\ news' = news \cup kinds \cup {k \in {"service"} : svc' # svc}
         /\ queued' = FALSE
    ELSE queued' = TRUE /\ news' = news \cup kinds /\ UNCHANGED svc

\* A created ingress is followed by the status in the same pass.
CreateIngress ==
    /\ Reached("ingress") /\ ~ objC["ingress"].there
    /\ IF obj["ingress"].there THEN End(TRUE)
       ELSE obj' = [obj EXCEPT !["ingress"] = Desired("ingress")] /\ WriteHealthy({"ingress"})

MarkHealthy_Touch ==
    /\ Working /\ \A k \in Kinds : Settled(k)
    /\ IF svc = svcC THEN PutService_AlwaysNew([svcC EXCEPT !.status = "Healthy"]) /\ queued' = FALSE
                     ELSE queued' = TRUE /\ UNCHANGED <<svc, news>>
    /\ UNCHANGED obj

MarkHealthy ==
    /\ Working /\ \A k \in Kinds : Settled(k)
    /\ WriteHealthy({}) /\ UNCHANGED obj

\* A call fails, or its answer is lost after it took effect.
PassFails ==
    /\ ~ queued /\ queued' = TRUE
    /\ Spend
    /\ UNCHANGED <<svc, obj, svcC, objC, news, uids>>

Restart ==
    /\ svcC' = svc /\ objC' = obj /\ news' = {}
    /\ queued' = (svc.uid # 0 \/ \E k \in Kinds : obj[k].there)
    /\ Spend
    /\ UNCHANGED <<svc, obj, uids>>

-----------------------------------------------------------------------------
ReconcileCore    == CreateObject("core") \/ UpdateObject("core")
ReconcileGateway == CreateObject("deployment") \/ UpdateObject("deployment") \/ DeleteGateway
ReconcileSecret  == CreateObject("secret") \/ UpdateObject("secret")
ReconcileIngress == CreateIngress \/ UpdateObject("ingress")

Reconcile ==
    \/ ReconcileGone \/ ReconcileDeleting \/ ReconcileFirst
    \/ ReconcileCore \/ ReconcileGateway \/ ReconcileSecret \/ ReconcileIngress
    \/ MarkHealthy

Next ==
    \/ \E s \in Specs : CreateService(s) \/ UpdateService(s)
    \/ \E foreground \in BOOLEAN : DeleteService(foreground)
    \/ \E k \in Kinds : UserDelete(k) \/ Collect(k) \/ ObjectEvent(k)
    \/ Vanish \/ ServiceEvent
    \/ Reconcile \/ PassFails \/ Restart

\* Informers, garbage collector and worker run on.
Fairness ==
    /\ WF_vars(ServiceEvent) /\ WF_vars(Reconcile) /\ WF_vars(Vanish)
    /\ \A k \in Kinds : WF_vars(ObjectEvent(k)) /\ WF_vars(Collect(k))

Spec == Init /\ [][Next]_vars
FairSpec == Spec /\ Fairness

-----------------------------------------------------------------------------
(* What is promised.                                                       *)

\* Every object the spec asks for is there, made from it; no gateway is left
\* from an S3 origin; every host is served, with TLS once there is a
\* certificate.
Served ==
    /\ \A k \in Asked(svc.spec) :
          obj[k] = [there |-> TRUE, owner |-> svc.uid, values |-> Build(k, svc.spec)]
    /\ "deployment" \notin Asked(svc.spec) => ~ obj["deployment"].there
    /\ obj["ingress"].values.hosts = {svc.spec.domain} \cup svc.spec.aliases
    /\ svc.spec.crt # 0 => obj["ingress"].values.tls = obj["ingress"].values.hosts
    /\ svc.status = "Healthy"

\* The one dead end: the domain of an S3 service was changed, and the update
\* of the gateway, whose selector it is, is refused every time.
GatewayStuck ==
    /\ svc.spec.origin = "s3" /\ obj["deployment"].there
    /\ obj["deployment"].values.selector # svc.spec.domain

\* When nothing is queued, the informers have delivered everything and the
\* garbage collector has nothing to collect, no further pass will come: what
\* is there then stays, so a service must be served, with no dead end
\* excepted and no error given up on.
RestMeansServed ==
    /\ ~ queued /\ news = {} /\ \A k \in Kinds : obj[k].owner \in {0, svc.uid}
    /\ svc.uid # 0 /\ ~ svc.deleting
    => Served

\* Whatever was changed, deleted, recreated or interrupted before, a service
\* that stays is served as its spec says, but for that dead end.
CachesConverge == <>[](svc.uid # 0 /\ ~ svc.deleting => Served \/ GatewayStuck)

\* The controller does not keep itself busy: the status it writes at the end
\* of every pass does not bring about the next one.
Settles == <>[](~ queued \/ GatewayStuck)

\* A deletion in the foreground completes, whatever pass is under way: the
\* controller does not put back what the garbage collector removes.
DeletionCompletes == svc.deleting ~> ~ svc.deleting

\* A service that is gone leaves nothing behind.
NothingLeftBehind == <>[](svc.uid = 0 => \A k \in Kinds : ~ obj[k].there)

-----------------------------------------------------------------------------
(* What the proofs need besides.                                           *)

\* An object made here has an owner.
ObjectsOwned == \A k \in Kinds : obj[k].there => obj[k].owner # 0

\* A view differs from what it shows only while there is news to deliver.
ViewsCurrent ==
    /\ "service" \notin news => svcC = svc
    /\ \A k \in Kinds : k \notin news => objC[k] = obj[k]

\* Nothing queued and nothing to deliver: the last pass found everything
\* settled.
RestSettled ==
    ~ queued /\ news = {} /\ svcC.uid # 0 /\ ~ svcC.deleting =>
        svcC.status = "Healthy" /\ \A k \in Kinds : Settled(k)

CacheInv == TypeOK /\ ObjectsOwned /\ ViewsCurrent /\ RestSettled
=============================================================================
