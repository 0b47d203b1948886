------------------------ MODULE ServiceProvisioning ------------------------
(***************************************************************************)
(* The service controller and the challenge controller (role controller,   *)
(* internal/controller/service_controller.go and challenge_controller.go)  *)
(* around one Service, with cert-manager between them.                     *)
(*                                                                         *)
(* The service controller asks cert-manager for a Certificate and throws   *)
(* the service, with the issued key pair, at the edge clusters as an       *)
(* ApplicationSet.  cert-manager issues once the challenge controller has  *)
(* put up a solver, another ApplicationSet, for its Challenge.             *)
(*                                                                         *)
(* A pass reads the informer caches only and makes at most one write, the  *)
(* last thing it does: it is one step, and the lag of the caches stands    *)
(* for the time that passes between its reads and its write.  The          *)
(* challenge is read as it is: a view of it that lags only delays the      *)
(* pass, since every change of the challenge brings another one.           *)
(***************************************************************************)
EXTENDS Naturals, Sequences

CONSTANTS
    Specs,         \* service specs: [domain, aliases, cache]
    SecretsFirst,  \* does the secret informer keep ahead of the certificate's?
    UserActions,   \* what users do besides creating and editing the service
    Budget         \* bound on the steps of users and on failures

\* "none" stands for no solver: it is the name of no cache.
ASSUME SpecsAssumption ==
    /\ Specs # {}
    /\ \A s \in Specs : DOMAIN s = {"domain", "aliases", "cache"} /\ s.cache # "none"
ASSUME ProvisioningAssumption == SecretsFirst \in BOOLEAN /\ Budget \in Nat

VARIABLES
    svc, cert, secret, appset, chal, solver,        \* the API server
    svcC, certC, secretC, appsetC, solverC,  \* the informers' views
    chainC,   \* are the Order and CertificateRequest of the challenge cached?
    news,     \* kinds with versions the informers have yet to deliver
    svcQ, chalQ,  \* is the service, the challenge queued?
    uids,     \* UIDs handed out
    issued,   \* what each certificate was issued for, by serial number
    budget

apiVars   == <<svc, cert, secret, appset, chal, solver>>
cacheVars == <<svcC, certC, secretC, appsetC, solverC, chainC>>
envVars   == <<uids, issued, budget>>
vars == <<apiVars, cacheVars, news, svcQ, chalQ, envVars>>

Domains == {s.domain : s \in Specs}
Classes == {s.cache : s \in Specs}

\* What a spec asks of cert-manager: the domain names the secret, domain and
\* aliases are the DNS names.
Want(s) == [domain |-> s.domain, names |-> {s.domain} \cup s.aliases]
Wants   == {Want(s) : s \in Specs}

\* uid 0: there is no such service.
ServiceObject == [uid : Nat, spec : Specs, status : {"", "Progressing", "Healthy"}]
\* owner is a UID or 0; hashed: the values hash annotation is there; ready is
\* the serial number behind the Ready condition, 0 while it is not true.
CertificateObject == [life : {"none", "live", "terminating"}, owner : Nat, want : Wants,
                      hashed : BOOLEAN, ready : Nat]
\* crt is the serial number of the certificate in the Helm values, 0 for none.
AppsetObject == [life : {"none", "live", "terminating"}, owner : Nat, spec : Specs, crt : Nat]
ChallengeStates == {"none", "open", "presented"}

AnySpec     == CHOOSE s \in Specs : TRUE
NoServiceObject == [uid |-> 0, spec |-> AnySpec, status |-> ""]
NoCertificate == [life |-> "none", owner |-> 0, want |-> Want(AnySpec), hashed |-> FALSE, ready |-> 0]
NoAppset    == [life |-> "none", owner |-> 0, spec |-> AnySpec, crt |-> 0]
NoSecrets   == [d \in Domains |-> 0]

TypeOK ==
    /\ svc \in ServiceObject /\ svcC \in ServiceObject
    /\ cert \in CertificateObject /\ certC \in CertificateObject
    /\ secret \in [Domains -> 0 .. Len(issued)] /\ secretC \in [Domains -> 0 .. Len(issued)]
    /\ appset \in AppsetObject /\ appsetC \in AppsetObject
    /\ chal \in ChallengeStates /\ chainC \in BOOLEAN
    /\ solver \in Classes \cup {"none"} /\ solverC \in Classes \cup {"none"}
    /\ news \subseteq {"svc", "cert", "certPlain", "secret", "appset"}
    /\ svcQ \in BOOLEAN /\ chalQ \in BOOLEAN
    /\ uids \in Nat /\ issued \in Seq(Wants) /\ budget \in 0 .. Budget

Init ==
    /\ svc = NoServiceObject /\ svcC = svc
    /\ cert = NoCertificate /\ certC = cert
    /\ secret = NoSecrets /\ secretC = secret
    /\ appset = NoAppset /\ appsetC = appset
    /\ chal = "none" /\ chainC = FALSE /\ solver = "none" /\ solverC = "none"
    /\ news = {} /\ svcQ = FALSE /\ chalQ = FALSE
    /\ uids = 0 /\ issued = <<>> /\ budget = Budget

Spend == budget > 0 /\ budget' = budget - 1

\* Every change of an object reaches its informer: one version of c stands
\* for the watch of a certificate a service controls, or controlled.
CertNews(c) == IF cert.owner # 0 \/ c.owner # 0 THEN {"cert"} ELSE {"certPlain"}

PutService(s) == svc' = s /\ news' = news \cup {"svc"}
PutCertificate(c) == cert' = c /\ news' = news \cup CertNews(c)
PutAppset(a) == appset' = a /\ news' = news \cup {"appset"}
PutChallenge(c) == chal' = c /\ chalQ' = (chalQ \/ c # chal)

-----------------------------------------------------------------------------
(* Users and the garbage collector.                                        *)

CreateService(s) ==
    /\ svc.uid = 0
    /\ PutService([uid |-> uids + 1, spec |-> s, status |-> ""])
    /\ uids' = uids + 1
    /\ Spend
    /\ UNCHANGED <<cert, secret, appset, chal, solver, cacheVars, svcQ, chalQ, issued>>

UpdateService(s) ==
    /\ svc.uid # 0 /\ svc.spec # s
    /\ PutService([svc EXCEPT !.spec = s])
    /\ Spend
    /\ UNCHANGED <<cert, secret, appset, chal, solver, cacheVars, svcQ, chalQ, uids, issued>>

DeleteService ==
    /\ svc.uid # 0
    /\ PutService(NoServiceObject)
    /\ Spend
    /\ UNCHANGED <<cert, secret, appset, chal, solver, cacheVars, svcQ, chalQ, uids, issued>>

\* Somebody makes the certificate before the controller does, for names a
\* service asks for and with the secret they are kept in.
UserCreateCertificate(w) ==
    /\ "certificate" \in UserActions
    /\ cert.life = "none"
    /\ PutCertificate([NoCertificate EXCEPT !.life = "live", !.want = w])
    /\ Spend
    /\ UNCHANGED <<svc, secret, appset, chal, solver, cacheVars, svcQ, chalQ, uids, issued>>

\* A deleted object may be seen terminating before it is gone.
UserDeleteCertificate ==
    /\ (IF cert.owner = 0 THEN "abandon" ELSE "delete") \in UserActions
    /\ cert.life = "live"
    /\ PutCertificate([cert EXCEPT !.life = "terminating"])
    /\ Spend
    /\ UNCHANGED <<svc, secret, appset, chal, solver, cacheVars, svcQ, chalQ, uids, issued>>

UserDeleteAppset ==
    /\ "delete" \in UserActions
    /\ appset.life = "live"
    /\ PutAppset([appset EXCEPT !.life = "terminating"])
    /\ Spend
    /\ UNCHANGED <<svc, cert, secret, chal, solver, cacheVars, svcQ, chalQ, uids, issued>>

\* Deleted objects and those of a service that is gone; the challenge goes
\* with the certificate, the solver with the challenge.
CollectCertificate ==
    /\ cert.life = "terminating" \/ cert.owner \notin {0, svc.uid}
    /\ PutCertificate(NoCertificate)
    /\ PutChallenge("none")
    /\ UNCHANGED <<svc, secret, appset, solver, cacheVars, svcQ, envVars>>

CollectAppset ==
    /\ appset.life = "terminating" \/ appset.owner \notin {0, svc.uid}
    /\ PutAppset(NoAppset)
    /\ UNCHANGED <<svc, cert, secret, chal, solver, cacheVars, svcQ, chalQ, envVars>>

CollectSolver ==
    /\ solver # "none" /\ chal = "none"
    /\ solver' = "none"
    /\ UNCHANGED <<svc, cert, secret, appset, chal, cacheVars, news, svcQ, chalQ, envVars>>

-----------------------------------------------------------------------------
(* cert-manager: it issues when the secret does not hold what the          *)
(* certificate asks for, or when it is time to renew.                      *)

Fitting == LET n == secret[cert.want.domain] IN n # 0 /\ issued[n] = cert.want

SetReady(n) ==
    /\ cert.life = "live" /\ cert.ready # n
    /\ PutCertificate([cert EXCEPT !.ready = n])
    /\ UNCHANGED <<svc, secret, appset, chal, solver, cacheVars, svcQ, chalQ, envVars>>

ReportReady == Fitting /\ SetReady(secret[cert.want.domain])
ReportNotReady == ~ Fitting /\ SetReady(0)

\* Bound: a new challenge, whose solver has a name of its own, waits until
\* the last solver is gone.
OpenChallenge ==
    /\ cert.life = "live" /\ chal = "none" /\ solver = "none" /\ solverC = "none"
    /\ PutChallenge("open") /\ chainC' = FALSE
    /\ UNCHANGED <<svc, cert, secret, appset, solver, svcC, certC, secretC, appsetC, solverC,
                   news, svcQ, uids, issued>>

Order == ~ Fitting /\ OpenChallenge /\ UNCHANGED budget
Renew == "renew" \in UserActions /\ Fitting /\ OpenChallenge /\ Spend

\* Presented and Processing.
Present ==
    /\ chal = "open"
    /\ PutChallenge("presented")
    /\ UNCHANGED <<svc, cert, secret, appset, solver, cacheVars, news, svcQ, envVars>>

Issue ==
    /\ chal = "presented" /\ solver # "none"
    /\ issued' = Append(issued, cert.want)
    /\ secret' = [secret EXCEPT ![cert.want.domain] = Len(issued')]
    /\ PutChallenge("none")
    /\ news' = news \cup {"secret"}
    /\ UNCHANGED <<svc, cert, appset, solver, cacheVars, svcQ, uids, budget>>

-----------------------------------------------------------------------------
(* The informers.                                                          *)

ServiceEvent ==
    /\ "svc" \in news
    /\ svcC' = svc /\ news' = news \ {"svc"} /\ svcQ' = TRUE
    /\ UNCHANGED <<apiVars, certC, secretC, appsetC, solverC, chainC, chalQ, envVars>>

CertificateEvent_NotOwned ==
    /\ news \cap {"cert", "certPlain"} # {}
    /\ SecretsFirst => "secret" \notin news
    /\ certC' = cert /\ news' = news \ {"cert", "certPlain"}
    /\ UNCHANGED <<apiVars, svcC, secretC, appsetC, solverC, chainC, svcQ, chalQ, envVars>>

CertificateEvent ==
    /\ news \cap {"cert", "certPlain"} # {}
    /\ SecretsFirst => "secret" \notin news
    /\ certC' = cert /\ news' = news \ {"cert", "certPlain"}
    /\ svcQ' = (svcQ \/ "cert" \in news)
    /\ UNCHANGED <<apiVars, svcC, secretC, appsetC, solverC, chainC, chalQ, envVars>>

\* Secrets, Orders and CertificateRequests are cached, not watched.
SecretEvent ==
    /\ "secret" \in news
    /\ secretC' = secret /\ news' = news \ {"secret"}
    /\ UNCHANGED <<apiVars, svcC, certC, appsetC, solverC, chainC, svcQ, chalQ, envVars>>

ChainEvent ==
    /\ chal # "none" /\ ~ chainC
    /\ chainC' = TRUE
    /\ UNCHANGED <<apiVars, svcC, certC, secretC, appsetC, solverC, news, svcQ, chalQ, envVars>>

\* The ApplicationSets of solvers reach the cache like any other; they are
\* owned by no service and call nobody.
SolverEvent ==
    /\ solverC # solver
    /\ solverC' = solver
    /\ UNCHANGED <<apiVars, svcC, certC, secretC, appsetC, chainC, news, svcQ, chalQ, envVars>>

AppsetEvent ==
    /\ "appset" \in news
    /\ appsetC' = appset /\ news' = news \ {"appset"} /\ svcQ' = TRUE
    /\ UNCHANGED <<apiVars, svcC, certC, secretC, solverC, chainC, chalQ, envVars>>

-----------------------------------------------------------------------------
(* The service controller.  An error, a conflict among them, queues the    *)
(* service again.                                                          *)

\* The pass ends with the write W where the API server accepts it.
Finish(accepted, W, unwritten) ==
    /\ IF accepted THEN W ELSE UNCHANGED <<unwritten, news>>
    /\ svcQ' = ~ accepted

End == svcQ' = FALSE /\ UNCHANGED <<apiVars, news>>

ReconcileGone ==
    /\ svcQ /\ svcC.uid = 0
    /\ End
    /\ UNCHANGED <<cacheVars, chalQ, envVars>>

SetStatus(status) ==
    /\ Finish(svc = svcC, PutService([svcC EXCEPT !.status = status]), svc)
    /\ UNCHANGED <<cert, secret, appset, chal, solver>>

ReconcileFirst ==
    /\ svcQ /\ svcC.uid # 0 /\ svcC.status = ""
    /\ SetStatus("Progressing")
    /\ UNCHANGED <<cacheVars, chalQ, envVars>>

Reconciling == svcQ /\ svcC.uid # 0 /\ svcC.status # ""

\* NewDefaultCertBuilder, WithDNSNames and Build, controlled by the service.
DesiredCertificate_NotAnnotated == [life |-> "live", owner |-> svcC.uid, want |-> Want(svcC.spec), ready |-> 0]
DesiredCertificate == [life |-> "live", owner |-> svcC.uid, want |-> Want(svcC.spec), hashed |-> TRUE, ready |-> 0]

WriteCertificate(c, accepted) ==
    /\ Finish(accepted, PutCertificate(c), cert)
    /\ UNCHANGED <<svc, secret, appset, chal, solver>>

CreateCertificate ==
    /\ Reconciling /\ certC.life = "none"
    /\ WriteCertificate(DesiredCertificate, cert.life = "none")
    /\ UNCHANGED <<cacheVars, chalQ, envVars>>

SkipTerminatingCertificate ==
    /\ Reconciling /\ certC.life = "terminating"
    /\ End
    /\ UNCHANGED <<cacheVars, chalQ, envVars>>

AdoptCertificate ==
    /\ Reconciling /\ certC.life = "live" /\ certC.owner = 0
    /\ WriteCertificate([certC EXCEPT !.owner = svcC.uid], cert = certC)
    /\ UNCHANGED <<cacheVars, chalQ, envVars>>

CertificateCurrent_Any == TRUE
CertificateCurrent == certC.hashed /\ certC.want = Want(svcC.spec)

UpdateCertificate ==
    /\ Reconciling /\ certC.life = "live" /\ certC.owner # 0 /\ ~ CertificateCurrent
    /\ WriteCertificate([certC EXCEPT !.want = Want(svcC.spec), !.hashed = TRUE], cert = certC)
    /\ UNCHANGED <<cacheVars, chalQ, envVars>>

CertificateDone ==
    Reconciling /\ certC.life = "live" /\ certC.owner # 0 /\ CertificateCurrent

\* The serial number in the secret, once the certificate is ready.
Crt == IF certC.ready = 0 THEN 0 ELSE secretC[certC.want.domain]

\* Ready, and no secret in the cache: the pass ends without an error.
AwaitSecret ==
    /\ CertificateDone /\ certC.ready # 0 /\ Crt = 0
    /\ End
    /\ UNCHANGED <<cacheVars, chalQ, envVars>>

ApplyAppset == CertificateDone /\ ~ (certC.ready # 0 /\ Crt = 0)

\* The raw Service in the Helm values of the thrower chart.
ServiceAppset == [life |-> "live", owner |-> svcC.uid, spec |-> svcC.spec, crt |-> Crt]

WriteAppset(a, accepted) ==
    /\ Finish(accepted, PutAppset(a), appset)
    /\ UNCHANGED <<svc, cert, secret, chal, solver>>

CreateAppset ==
    /\ ApplyAppset /\ appsetC.life = "none"
    /\ WriteAppset(ServiceAppset, appset.life = "none")
    /\ UNCHANGED <<cacheVars, chalQ, envVars>>

SkipTerminatingAppset ==
    /\ ApplyAppset /\ appsetC.life = "terminating"
    /\ End
    /\ UNCHANGED <<cacheVars, chalQ, envVars>>

\* The values hash covers the service and the key pair.
AppsetCurrent_SpecOnly == appsetC.spec = svcC.spec
AppsetCurrent == appsetC.spec = svcC.spec /\ appsetC.crt = Crt

UpdateAppset ==
    /\ ApplyAppset /\ appsetC.life = "live" /\ ~ AppsetCurrent
    /\ WriteAppset([ServiceAppset EXCEPT !.owner = appsetC.owner], appset = appsetC)
    /\ UNCHANGED <<cacheVars, chalQ, envVars>>

MarkHealthy ==
    /\ ApplyAppset /\ appsetC.life = "live" /\ AppsetCurrent
    /\ IF svcC.status = "Healthy" THEN End ELSE SetStatus("Healthy")
    /\ UNCHANGED <<cacheVars, chalQ, envVars>>

-----------------------------------------------------------------------------
(* The challenge controller.                                               *)

\* GetOwnerInChain: Challenge, Order, CertificateRequest, Certificate,
\* Service, each from the cache.
ChainResolves ==
    chainC /\ certC.life # "none" /\ certC.owner # 0 /\ svcC.uid # 0

ChallengeEnd(again) == chalQ' = again /\ UNCHANGED <<apiVars, news>>

ChallengeGone ==
    /\ chalQ /\ chal = "none"
    /\ ChallengeEnd(FALSE)
    /\ UNCHANGED <<cacheVars, svcQ, envVars>>

\* An incomplete chain is an error: the challenge is queued again.
ChallengeUnowned_Forgets ==
    /\ chalQ /\ chal # "none" /\ ~ ChainResolves
    /\ ChallengeEnd(FALSE)
    /\ UNCHANGED <<cacheVars, svcQ, envVars>>

ChallengeUnowned ==
    /\ chalQ /\ chal # "none" /\ ~ ChainResolves
    /\ ChallengeEnd(TRUE)
    /\ UNCHANGED <<cacheVars, svcQ, envVars>>

\* Pod, Service and Ingress of the solver; the ingress takes the class of
\* the service's cache.
ChallengeResources == svcC.spec.cache

ChallengeNotPresented ==
    /\ chalQ /\ chal = "open" /\ ChainResolves
    /\ ChallengeEnd(FALSE)
    /\ UNCHANGED <<cacheVars, svcQ, envVars>>

SolverWanted == chalQ /\ chal = "presented" /\ ChainResolves

\* A write that the API server refuses is an error.
WriteSolver(accepted) ==
    /\ solver' = IF accepted THEN ChallengeResources ELSE solver
    /\ chalQ' = ~ accepted
    /\ UNCHANGED <<svc, cert, secret, appset, chal, cacheVars, news, svcQ, envVars>>

\* AlreadyExists while the cache does not show the solver yet.
CreateSolver ==
    /\ SolverWanted /\ solverC = "none"
    /\ WriteSolver(solver = "none")

\* Nobody deletes a solver before its challenge is gone, so that the one the
\* pass finds is not terminating.  Its hash tells the resources it was made of.
UpdateSolver ==
    /\ SolverWanted /\ solverC \notin {"none", ChallengeResources}
    /\ WriteSolver(solver = solverC)

KeepSolver ==
    /\ SolverWanted /\ solverC = ChallengeResources
    /\ ChallengeEnd(FALSE)
    /\ UNCHANGED <<cacheVars, svcQ, envVars>>

-----------------------------------------------------------------------------
(* Failures: a call fails, or its answer is lost after it took effect (the *)
(* next pass sees what it did); the process restarts and lists everything. *)

PassFails ==
    /\ svcQ' = TRUE /\ chalQ' = TRUE
    /\ <<svcQ, chalQ>> # <<TRUE, TRUE>>
    /\ Spend
    /\ UNCHANGED <<apiVars, cacheVars, news, uids, issued>>

Restart ==
    /\ svcC' = svc /\ certC' = cert /\ secretC' = secret /\ appsetC' = appset
    /\ solverC' = solver /\ chainC' = (chal # "none")
    /\ news' = {}
    /\ svcQ' = (svc.uid # 0 \/ cert.owner # 0 \/ appset.owner # 0)
    /\ chalQ' = (chal # "none")
    /\ Spend
    /\ UNCHANGED <<apiVars, uids, issued>>

-----------------------------------------------------------------------------
Users ==
    \/ \E s \in Specs : CreateService(s) \/ UpdateService(s) \/ UserCreateCertificate(Want(s))
    \/ DeleteService \/ UserDeleteCertificate \/ UserDeleteAppset

GarbageCollector == CollectCertificate \/ CollectAppset \/ CollectSolver

CertManager == ReportReady \/ ReportNotReady \/ Order \/ Present \/ Issue

ServicePass ==
    \/ ReconcileGone \/ ReconcileFirst
    \/ CreateCertificate \/ SkipTerminatingCertificate \/ AdoptCertificate \/ UpdateCertificate
    \/ AwaitSecret
    \/ CreateAppset \/ SkipTerminatingAppset \/ UpdateAppset
    \/ MarkHealthy

ChallengeController ==
    \/ ChallengeGone \/ ChallengeUnowned \/ ChallengeNotPresented
    \/ CreateSolver \/ UpdateSolver \/ KeepSolver

Informers ==
    ServiceEvent \/ CertificateEvent \/ SecretEvent \/ AppsetEvent
    \/ SolverEvent \/ ChainEvent

Next ==
    \/ Users \/ Renew \/ GarbageCollector \/ CertManager \/ Informers
    \/ ServicePass \/ ChallengeController
    \/ PassFails \/ Restart

\* Each informer, each controller, the garbage collector and cert-manager
\* run on.
Fairness ==
    /\ WF_vars(ServicePass) /\ WF_vars(ChallengeController)
    /\ WF_vars(ServiceEvent) /\ WF_vars(CertificateEvent) /\ WF_vars(SecretEvent)
    /\ WF_vars(AppsetEvent) /\ WF_vars(SolverEvent) /\ WF_vars(ChainEvent)
    /\ WF_vars(GarbageCollector)
    /\ WF_vars(ReportReady \/ ReportNotReady)
    /\ WF_vars(Order) /\ WF_vars(Present) /\ WF_vars(Issue)

Spec == Init /\ [][Next]_vars
FairSpec == Spec /\ Fairness

-----------------------------------------------------------------------------
(* What is promised.                                                       *)

\* The edges have the service as it is, with the certificate in force, which
\* covers its domain and all its aliases.
Provisioned ==
    LET n == secret[svc.spec.domain] IN
    /\ appset = [life |-> "live", owner |-> svc.uid, spec |-> svc.spec, crt |-> n]
    /\ n # 0 /\ issued[n].names = {svc.spec.domain} \cup svc.spec.aliases
    /\ svc.status = "Healthy"

\* Whatever was changed, deleted, renewed or interrupted before, the edges
\* end up with every service and its certificate: the challenge controller,
\* cert-manager and the service controller never wait on one another for good.
EdgesGetCertificate == <>[](svc.uid # 0 => Provisioned)

\* Everything is delivered, nothing is queued and cert-manager is done.
Quiet ==
    /\ news = {} /\ ~ svcQ /\ ~ chalQ /\ chal = "none"
    /\ cert.owner \in {0, svc.uid} /\ appset.owner \in {0, svc.uid}
    /\ cert.life # "terminating" /\ appset.life # "terminating"
    /\ cert.life = "live" => Fitting /\ cert.ready = secret[cert.want.domain]

\* Passes that end early without asking to be called again (a terminating
\* object, a secret not there yet) leave nothing undone: once all is at rest
\* the service is provisioned.
RestMeansProvisioned == Quiet /\ svc.uid # 0 => Provisioned

\* The edges are never handed the certificate of another domain, although
\* the pass reads service, certificate and secret from three caches.
OwnCertificate == appset.crt # 0 => issued[appset.crt].domain = appset.spec.domain

\* A presented challenge is not forgotten because it was seen before the
\* Order, the request, the certificate or the service it belongs to.
PresentedMeansSolver ==
    ~ chalQ /\ chal = "presented" => solver # "none"

-----------------------------------------------------------------------------
(* Inductive strengthening of the invariants, for the proofs.              *)

\* A secret holds what was issued for its domain, in the store and in the
\* cache, and serial numbers have been handed out.
SecretsOfDomains ==
    \A d \in Domains :
        /\ secret[d] # 0 => issued[secret[d]].domain = d
        /\ secretC[d] # 0 => issued[secretC[d]].domain = d

SerialsIssued ==
    appset.crt <= Len(issued) /\ cert.ready <= Len(issued) /\ certC.ready <= Len(issued)

\* Every application set belongs to a service.
AppsetsControlled ==
    /\ appset.life # "none" => appset.owner # 0
    /\ appsetC.life # "none" => appsetC.owner # 0

OwnInv == TypeOK /\ SecretsOfDomains /\ SerialsIssued /\ AppsetsControlled /\ OwnCertificate

\* A view with nothing left to deliver is current; a change of a certificate
\* that a service controls is always announced to the controller.
ViewsCurrent ==
    /\ "svc" \notin news => svcC = svc
    /\ news \cap {"cert", "certPlain"} = {} => certC = cert
    /\ "cert" \notin news /\ certC.owner # 0 => certC = cert
    /\ "secret" \notin news => secretC = secret
    /\ "appset" \notin news => appsetC = appset

\* Certificates on their way out belong to a service.
DeletionsControlled ==
    /\ cert.life = "terminating" => cert.owner # 0
    /\ certC.life = "terminating" => certC.owner # 0

\* A secret the cache has yet to see is newer than the Ready condition it has.
SecretsAhead ==
    \A d \in Domains : secretC[d] # secret[d] => secret[d] > certC.ready

\* The views a pass leaves alone: no service, an object on its way out, a
\* Ready condition that is not of the secret, or all as it should be.
LeftAlone ==
    \/ svcC.uid = 0
    \/ certC.life = "terminating"
    \/ /\ svcC.status # "" /\ certC.life = "live" /\ certC.owner # 0 /\ CertificateCurrent
       /\ \/ certC.ready # 0 /\ secretC[certC.want.domain] # certC.ready
          \/ appsetC.life = "terminating"
          \/ appsetC.life = "live" /\ AppsetCurrent /\ svcC.status = "Healthy"

\* A service that is not queued, and will not be, is one to leave alone.
PassesOwed == svcQ \/ news \cap {"svc", "cert", "appset"} # {} \/ LeftAlone

\* As long as its challenge is there a solver that was seen stays.
SolverSeen == chal # "none" /\ solverC # "none" => solver # "none"

RestInv == OwnInv /\ ViewsCurrent /\ DeletionsControlled /\ SecretsAhead /\ PassesOwed
=============================================================================
