--------------------- MODULE ServiceProvisioning_proofs ---------------------
(***************************************************************************)
(* Theorems about ServiceProvisioning, for all specs and budgets.          *)
(*                                                                         *)
(* Every step writes one object, delivers one version to a cache, ends a   *)
(* pass or restarts the process (StepKinds); each conjunct of the          *)
(* invariants is then looked at per kind of step, not per action.          *)
(***************************************************************************)
EXTENDS ServiceProvisioning, TLAPS

USE DEF apiVars, cacheVars, envVars, vars

-----------------------------------------------------------------------------
(* The parts of the type invariant.                                        *)

\* What specs and the certificates asked for them are made of.
LEMMA SpecTypes ==
    /\ AnySpec \in Specs
    /\ \A s \in Specs : Want(s) \in Wants /\ s.domain \in Domains /\ s.cache \in Classes
    /\ \A s \in Specs : Want(s).domain = s.domain /\ Want(s).names = {s.domain} \cup s.aliases
    /\ \A s \in Specs : s.cache # "none"
    /\ \A w \in Wants : w.domain \in Domains
<1>1. AnySpec \in Specs
  <2>1. \E s \in Specs : TRUE
    BY SpecsAssumption
  <2> QED BY <2>1 DEF AnySpec
<1>2. \A s \in Specs : Want(s) \in Wants /\ s.domain \in Domains /\ s.cache \in Classes
  BY DEF Wants, Domains, Classes
<1>3. \A s \in Specs : Want(s).domain = s.domain /\ Want(s).names = {s.domain} \cup s.aliases
  BY DEF Want
<1>4. \A s \in Specs : s.cache # "none"
  BY SpecsAssumption
<1>5. \A w \in Wants : w.domain \in Domains
  BY DEF Wants, Want, Domains
<1> QED BY <1>1, <1>2, <1>3, <1>4, <1>5

Objects ==
    /\ svc \in ServiceObject /\ svcC \in ServiceObject
    /\ cert \in CertificateObject /\ certC \in CertificateObject
    /\ appset \in AppsetObject /\ appsetC \in AppsetObject

Secrets ==
    /\ issued \in Seq(Wants)
    /\ secret \in [Domains -> 0 .. Len(issued)] /\ secretC \in [Domains -> 0 .. Len(issued)]

Flags ==
    /\ chal \in ChallengeStates /\ chainC \in BOOLEAN
    /\ solver \in Classes \cup {"none"} /\ solverC \in Classes \cup {"none"}
    /\ news \subseteq {"svc", "cert", "certPlain", "secret", "appset"}
    /\ svcQ \in BOOLEAN /\ chalQ \in BOOLEAN

Counters == uids \in Nat /\ budget \in 0 .. Budget

LEMMA TypeParts == TypeOK <=> Objects /\ Secrets /\ Flags /\ Counters
BY DEF TypeOK, Objects, Secrets, Flags, Counters

LEMMA ObjectTypes ==
    /\ NoServiceObject \in ServiceObject
    /\ NoCertificate \in CertificateObject
    /\ NoAppset \in AppsetObject
BY SpecTypes DEF NoServiceObject, ServiceObject, NoCertificate, CertificateObject, NoAppset,
                 AppsetObject

LEMMA InitTypeOK == Init => TypeOK
<1> SUFFICES ASSUME Init PROVE TypeOK
  OBVIOUS
<1>1. Objects
  BY ObjectTypes DEF Init, Objects
<1>2. Secrets
  BY SpecTypes DEF Init, Secrets, NoSecrets
<1>3. Flags
  BY DEF Init, Flags, ChallengeStates
<1>4. Counters
  BY ProvisioningAssumption DEF Init, Counters
<1> QED BY <1>1, <1>2, <1>3, <1>4, TypeParts

LEMMA CountersStep ==
    ASSUME Counters, [Next]_vars
    PROVE  Counters'
<1> USE DEF Counters
<1>1. ASSUME UNCHANGED uids, UNCHANGED budget \/ Spend PROVE Counters'
  BY <1>1, ProvisioningAssumption DEF Spend
<1>2. ASSUME NEW s \in Specs, CreateService(s) PROVE Counters'
  <2>1. uids' = uids + 1 /\ Spend
    BY <1>2 DEF CreateService
  <2> QED BY <2>1, ProvisioningAssumption DEF Spend
<1> HIDE DEF Counters
<1>3. ASSUME UNCHANGED vars \/ GarbageCollector \/ CertManager \/ Informers \/ ChallengeController
      PROVE  UNCHANGED <<uids, budget>>
  BY <1>3
     DEF GarbageCollector, CollectCertificate, CollectAppset, CollectSolver,
         CertManager, ReportReady, ReportNotReady, SetReady, Order, OpenChallenge, Present, Issue,
         Informers, ServiceEvent, CertificateEvent, SecretEvent, AppsetEvent, SolverEvent,
         ChainEvent,
         ChallengeController, ChallengeGone, ChallengeUnowned, ChallengeNotPresented,
         CreateSolver, UpdateSolver, KeepSolver, WriteSolver
<1>4. ASSUME ServicePass PROVE UNCHANGED <<uids, budget>>
  BY <1>4
     DEF ServicePass, ReconcileGone, ReconcileFirst, CreateCertificate, SkipTerminatingCertificate,
         AdoptCertificate, UpdateCertificate, AwaitSecret, CreateAppset, SkipTerminatingAppset,
         UpdateAppset, MarkHealthy
<1>5. ASSUME \/ \E s \in Specs : UpdateService(s) \/ UserCreateCertificate(Want(s))
             \/ DeleteService \/ UserDeleteCertificate \/ UserDeleteAppset
             \/ Renew \/ PassFails \/ Restart
      PROVE  UNCHANGED uids /\ Spend
  BY <1>5 DEF UpdateService, UserCreateCertificate, DeleteService, UserDeleteCertificate,
              UserDeleteAppset, Renew, OpenChallenge, PassFails, Restart
<1> QED BY <1>1, <1>2, <1>3, <1>4, <1>5 DEF Next, Users

-----------------------------------------------------------------------------
(* What a step writes.                                                     *)

views == <<svcC, certC, secretC, appsetC>>

\* Nothing is written or delivered; a pass over the service may end.
NoWrite ==
    /\ UNCHANGED <<svc, cert, secret, appset, issued, views, news>>
    /\ svcQ' = svcQ \/ svcQ' \/ LeftAlone

ServiceWrite ==
    /\ \E s \in ServiceObject : PutService(s)
    /\ UNCHANGED <<cert, secret, appset, issued, views>>

\* The Ready condition is kept or set to what the secret holds; only users
\* delete, and a controller's write is announced.
CertificateWrite ==
    /\ \E c \in CertificateObject :
          /\ PutCertificate(c)
          /\ c.ready \in {0, cert.ready, secret[cert.want.domain]}
          /\ c.life = "terminating" =>
                c.owner = cert.owner /\ (cert.owner # 0 \/ "abandon" \in UserActions)
    /\ svcQ' = svcQ \/ "cert" \in news'
    /\ UNCHANGED <<svc, secret, appset, issued, views>>

\* The content of an application set is kept, or the key pair is of its
\* domain, or there is none.
AppsetWrite ==
    /\ \E a \in AppsetObject :
          /\ PutAppset(a)
          /\ \/ a.spec = appset.spec /\ a.crt = appset.crt
             \/ a.crt \in {0, secretC[a.spec.domain]}
          /\ a.life # "none" => a.owner # 0 \/ (a.owner = appset.owner /\ appset.life # "none")
    /\ UNCHANGED <<svc, cert, secret, issued, views>>

\* Users write one object.
LEMMA UsersWrite ==
    ASSUME Objects, Counters, Users
    PROVE  ServiceWrite \/ CertificateWrite \/ AppsetWrite
<1> USE SpecTypes, ObjectTypes DEF views
<1>1. ASSUME NEW s \in Specs, CreateService(s) PROVE ServiceWrite
  <2>1. uids + 1 \in Nat
    BY DEF Counters
  <2> DEFINE o == [uid |-> uids + 1, spec |-> s, status |-> ""]
  <2>2. o \in ServiceObject
    BY <2>1 DEF ServiceObject
  <2>3. PutService(o) /\ UNCHANGED <<cert, secret, appset, issued, views>>
    BY <1>1 DEF CreateService
  <2> QED BY <2>2, <2>3 DEF ServiceWrite
<1>2. ASSUME NEW s \in Specs, UpdateService(s) PROVE ServiceWrite
  <2>1. [svc EXCEPT !.spec = s] \in ServiceObject
    BY DEF Objects, ServiceObject
  <2> QED BY <1>2, <2>1 DEF UpdateService, ServiceWrite
<1>3. ASSUME DeleteService PROVE ServiceWrite
  BY <1>3 DEF DeleteService, ServiceWrite
<1>4. ASSUME NEW s \in Specs, UserCreateCertificate(Want(s)) PROVE CertificateWrite
  <2> DEFINE c == [NoCertificate EXCEPT !.life = "live", !.want = Want(s)]
  <2>1. c \in CertificateObject /\ c.ready = 0 /\ c.life = "live"
    BY DEF CertificateObject, NoCertificate
  <2>2. PutCertificate(c) /\ svcQ' = svcQ /\ UNCHANGED <<svc, secret, appset, issued, views>>
    BY <1>4 DEF UserCreateCertificate
  <2> QED BY <2>1, <2>2 DEF CertificateWrite
<1>5. ASSUME UserDeleteCertificate PROVE CertificateWrite
  <2> DEFINE c == [cert EXCEPT !.life = "terminating"]
  <2>1. c \in CertificateObject /\ c.ready = cert.ready /\ c.owner = cert.owner
    BY DEF Objects, CertificateObject
  <2>2. PutCertificate(c) /\ svcQ' = svcQ /\ UNCHANGED <<svc, secret, appset, issued, views>>
    BY <1>5 DEF UserDeleteCertificate
  <2>3. cert.owner # 0 \/ "abandon" \in UserActions
    BY <1>5 DEF UserDeleteCertificate
  <2> QED BY <2>1, <2>2, <2>3 DEF CertificateWrite
<1>6. ASSUME UserDeleteAppset PROVE AppsetWrite
  <2> DEFINE a == [appset EXCEPT !.life = "terminating"]
  <2>1. a \in AppsetObject /\ a.spec = appset.spec /\ a.crt = appset.crt /\ a.owner = appset.owner
    BY DEF Objects, AppsetObject
  <2>2. PutAppset(a) /\ UNCHANGED <<svc, cert, secret, issued, views>> /\ appset.life = "live"
    BY <1>6 DEF UserDeleteAppset
  <2> QED BY <2>1, <2>2 DEF AppsetWrite
<1> QED BY <1>1, <1>2, <1>3, <1>4, <1>5, <1>6 DEF Users

LEMMA CollectorWrites ==
    ASSUME Objects, GarbageCollector
    PROVE  CertificateWrite \/ AppsetWrite \/ NoWrite
<1> USE ObjectTypes DEF views
<1>1. ASSUME CollectCertificate PROVE CertificateWrite
  <2>1. NoCertificate.ready = 0 /\ NoCertificate.life = "none"
    BY DEF NoCertificate
  <2> QED BY <1>1, <2>1 DEF CollectCertificate, CertificateWrite
<1>2. ASSUME CollectAppset PROVE AppsetWrite
  <2>1. NoAppset.crt = 0 /\ NoAppset.life = "none"
    BY DEF NoAppset
  <2> QED BY <1>2, <2>1 DEF CollectAppset, AppsetWrite
<1>3. ASSUME CollectSolver PROVE NoWrite
  BY <1>3 DEF CollectSolver, NoWrite
<1> QED BY <1>1, <1>2, <1>3 DEF GarbageCollector

LEMMA CertManagerWrites ==
    ASSUME Objects, Secrets, CertManager \/ Renew
    PROVE  CertificateWrite \/ NoWrite \/ Issue
<1> USE DEF views
<1>1. ASSUME NEW n \in Nat, n \in {0, secret[cert.want.domain]}, SetReady(n) PROVE CertificateWrite
  <2> DEFINE c == [cert EXCEPT !.ready = n]
  <2>1. c \in CertificateObject /\ c.ready = n /\ c.life = "live"
    BY <1>1 DEF Objects, CertificateObject, SetReady
  <2>2. PutCertificate(c) /\ svcQ' = svcQ /\ UNCHANGED <<svc, secret, appset, issued, views>>
    BY <1>1 DEF SetReady
  <2> QED BY <1>1, <2>1, <2>2 DEF CertificateWrite
<1>2. secret[cert.want.domain] \in Nat
  <2>1. cert.want.domain \in Domains
    BY SpecTypes DEF Objects, CertificateObject
  <2>2. Len(issued) \in Nat
    BY DEF Secrets
  <2> QED BY <2>1, <2>2 DEF Secrets
<1>3. ASSUME Order \/ Renew \/ Present PROVE NoWrite
  BY <1>3 DEF Order, Renew, Present, OpenChallenge, NoWrite
<1> QED BY <1>1, <1>2, <1>3 DEF CertManager, ReportReady, ReportNotReady

LEMMA ChallengeWrites ==
    ASSUME ChallengeController \/ PassFails \/ SolverEvent \/ ChainEvent \/ UNCHANGED vars
    PROVE  NoWrite
BY DEF ChallengeController, ChallengeGone, ChallengeUnowned, ChallengeNotPresented,
       CreateSolver, UpdateSolver, KeepSolver, WriteSolver, ChallengeEnd,
       PassFails, SolverEvent, ChainEvent, NoWrite, views

\* A pass that ends without a write leaves the view alone for a reason; the
\* others write what they have built from the view, or are queued again.
LEMMA ServicePassWrites ==
    ASSUME Objects, Secrets, AppsetsControlled, ServicePass
    PROVE  NoWrite \/ ServiceWrite \/ CertificateWrite \/ AppsetWrite
<1> USE DEF views
<1>0. /\ svcC \in ServiceObject /\ certC \in CertificateObject /\ appsetC \in AppsetObject
      /\ svcC.spec \in Specs /\ Want(svcC.spec) \in Wants
  BY SpecTypes DEF Objects, ServiceObject
<1>1. ASSUME LeftAlone, End, UNCHANGED <<cacheVars, envVars>> PROVE NoWrite
  BY <1>1 DEF End, NoWrite
<1>2. ASSUME UNCHANGED <<svc, cert, secret, appset, news, cacheVars, envVars>>, svcQ' = ~ FALSE
      PROVE  NoWrite
  BY <1>2 DEF NoWrite
<1>3. ASSUME NEW status \in {"Progressing", "Healthy"}, SetStatus(status),
             UNCHANGED <<cacheVars, envVars>>
      PROVE  NoWrite \/ ServiceWrite
  <2>1. [svcC EXCEPT !.status = status] \in ServiceObject
    BY <1>0 DEF ServiceObject
  <2> QED BY <1>2, <1>3, <2>1 DEF SetStatus, Finish, ServiceWrite
<1>4. ASSUME NEW c \in CertificateObject, NEW accepted \in BOOLEAN, WriteCertificate(c, accepted),
             accepted => c.ready \in {0, cert.ready}, c.life = "live", c.owner # 0,
             UNCHANGED <<cacheVars, envVars>>
      PROVE  NoWrite \/ CertificateWrite
  <2>1. CASE accepted
    <3>1. PutCertificate(c) /\ UNCHANGED <<svc, secret, appset, issued, views>>
      BY <1>4, <2>1 DEF WriteCertificate, Finish
    <3>2. "cert" \in news'
      BY <1>4, <3>1 DEF PutCertificate, CertNews
    <3> QED BY <1>4, <2>1, <3>1, <3>2 DEF CertificateWrite
  <2>2. CASE ~ accepted
    BY <1>2, <1>4, <2>2 DEF WriteCertificate, Finish
  <2> QED BY <1>4, <2>1, <2>2
<1>5. ASSUME NEW a \in AppsetObject, NEW accepted \in BOOLEAN, WriteAppset(a, accepted),
             a.crt \in {0, secretC[a.spec.domain]}, a.owner # 0,
             UNCHANGED <<cacheVars, envVars>>
      PROVE  NoWrite \/ AppsetWrite
  <2>1. CASE accepted
    BY <1>5, <2>1 DEF WriteAppset, Finish, AppsetWrite
  <2>2. CASE ~ accepted
    BY <1>2, <1>5, <2>2 DEF WriteAppset, Finish
  <2> QED BY <1>5, <2>1, <2>2
<1>6. ASSUME ReconcileGone \/ SkipTerminatingCertificate PROVE NoWrite
  BY <1>1, <1>6 DEF ReconcileGone, SkipTerminatingCertificate, LeftAlone
<1>7. ASSUME ReconcileFirst PROVE NoWrite \/ ServiceWrite
  BY <1>3, <1>7 DEF ReconcileFirst
<1>8. ASSUME CreateCertificate PROVE NoWrite \/ CertificateWrite
  <2>1. DesiredCertificate \in CertificateObject
    BY <1>0 DEF DesiredCertificate, CertificateObject, ServiceObject
  <2>2. DesiredCertificate.ready = 0 /\ DesiredCertificate.life = "live" /\ DesiredCertificate.owner = svcC.uid
    BY DEF DesiredCertificate
  <2>3. svcC.uid # 0 /\ WriteCertificate(DesiredCertificate, cert.life = "none")
        /\ UNCHANGED <<cacheVars, envVars>>
    BY <1>8 DEF CreateCertificate, Reconciling
  <2> QED BY <1>4, <2>1, <2>2, <2>3
<1>9. ASSUME AdoptCertificate PROVE NoWrite \/ CertificateWrite
  <2> DEFINE c == [certC EXCEPT !.owner = svcC.uid]
  <2>1. svcC.uid # 0 /\ certC.life = "live" /\ WriteCertificate(c, cert = certC)
        /\ UNCHANGED <<cacheVars, envVars>>
    BY <1>9 DEF AdoptCertificate, Reconciling
  <2>2. c \in CertificateObject /\ c.ready = certC.ready /\ c.life = "live" /\ c.owner # 0
    BY <1>0, <2>1 DEF CertificateObject, ServiceObject
  <2> HIDE DEF c
  <2> QED BY <1>4, <2>1, <2>2
<1>10. ASSUME UpdateCertificate PROVE NoWrite \/ CertificateWrite
  <2> DEFINE c == [certC EXCEPT !.want = Want(svcC.spec), !.hashed = TRUE]
  <2>1. certC.owner # 0 /\ certC.life = "live" /\ WriteCertificate(c, cert = certC)
        /\ UNCHANGED <<cacheVars, envVars>>
    BY <1>10 DEF UpdateCertificate
  <2>2. c \in CertificateObject /\ c.ready = certC.ready /\ c.life = "live" /\ c.owner # 0
    BY <1>0, <2>1 DEF CertificateObject
  <2> HIDE DEF c
  <2> QED BY <1>4, <2>1, <2>2
<1>11. ASSUME CertificateDone
       PROVE  /\ certC.want.domain = svcC.spec.domain
              /\ svcC.uid # 0 /\ svcC.status # "" /\ certC.life = "live" /\ certC.owner # 0
              /\ CertificateCurrent
              /\ Crt \in {0, secretC[svcC.spec.domain]} /\ Crt \in Nat
  <2>1. svcC.spec.domain \in Domains /\ Want(svcC.spec).domain = svcC.spec.domain
    BY <1>0, SpecTypes
  <2>2. secretC[svcC.spec.domain] \in Nat
    BY <2>1 DEF Secrets
  <2>3. certC.want.domain = svcC.spec.domain
    BY <1>11, <2>1 DEF CertificateDone, CertificateCurrent
  <2>4. Crt \in {0, secretC[svcC.spec.domain]} /\ Crt \in Nat
    BY <2>2, <2>3 DEF Crt
  <2> QED BY <1>11, <2>3, <2>4 DEF CertificateDone, Reconciling
<1>12. ASSUME AwaitSecret PROVE NoWrite
  <2>1. LeftAlone
    BY <1>11, <1>12 DEF AwaitSecret, Crt, LeftAlone
  <2> QED BY <1>1, <1>12, <2>1 DEF AwaitSecret
<1>13. ASSUME CreateAppset PROVE NoWrite \/ AppsetWrite
  <2>1. CertificateDone /\ WriteAppset(ServiceAppset, appset.life = "none")
        /\ UNCHANGED <<cacheVars, envVars>>
    BY <1>13 DEF CreateAppset, ApplyAppset
  <2>2. /\ ServiceAppset \in AppsetObject /\ ServiceAppset.owner = svcC.uid
        /\ ServiceAppset.crt = Crt /\ ServiceAppset.spec = svcC.spec
    BY <1>0, <1>11, <2>1 DEF ServiceAppset, AppsetObject, ServiceObject
  <2> QED BY <1>5, <1>11, <2>1, <2>2
<1>14. ASSUME SkipTerminatingAppset PROVE NoWrite
  <2>1. LeftAlone
    BY <1>11, <1>14 DEF SkipTerminatingAppset, ApplyAppset, LeftAlone
  <2> QED BY <1>1, <1>14, <2>1 DEF SkipTerminatingAppset
<1>15. ASSUME UpdateAppset PROVE NoWrite \/ AppsetWrite
  <2> DEFINE a == [ServiceAppset EXCEPT !.owner = appsetC.owner]
  <2>1. CertificateDone /\ WriteAppset(a, appset = appsetC) /\ appsetC.life = "live"
        /\ UNCHANGED <<cacheVars, envVars>>
    BY <1>15 DEF UpdateAppset, ApplyAppset
  <2>2. a \in AppsetObject /\ a.owner = appsetC.owner /\ a.crt = Crt /\ a.spec = svcC.spec
    BY <1>0, <1>11, <2>1 DEF ServiceAppset, AppsetObject, ServiceObject
  <2>3. appsetC.owner # 0
    BY <2>1 DEF AppsetsControlled
  <2> HIDE DEF a
  <2> QED BY <1>5, <1>11, <2>1, <2>2, <2>3
<1>16. ASSUME MarkHealthy PROVE NoWrite \/ ServiceWrite
  <2>1. CASE svcC.status = "Healthy"
    <3>1. LeftAlone
      BY <1>11, <1>16, <2>1 DEF MarkHealthy, ApplyAppset, LeftAlone
    <3> QED BY <1>1, <1>16, <2>1, <3>1 DEF MarkHealthy
  <2>2. CASE svcC.status # "Healthy"
    BY <1>3, <1>16, <2>2 DEF MarkHealthy
  <2> QED BY <2>1, <2>2
<1> QED
  BY <1>6, <1>7, <1>8, <1>9, <1>10, <1>12, <1>13, <1>14, <1>15, <1>16 DEF ServicePass

Delivery == ServiceEvent \/ CertificateEvent \/ SecretEvent \/ AppsetEvent

\* The kinds of steps.
LEMMA StepKinds ==
    ASSUME TypeOK, AppsetsControlled, [Next]_vars
    PROVE  \/ NoWrite \/ ServiceWrite \/ CertificateWrite \/ AppsetWrite \/ Issue
           \/ Delivery \/ Restart
<1>1. Objects /\ Secrets /\ Counters
  BY TypeParts
<1> QED
  BY <1>1, UsersWrite, CollectorWrites, CertManagerWrites, ChallengeWrites, ServicePassWrites
     DEF Next, Informers, Delivery

LEMMA ObjectsStep ==
    ASSUME TypeOK, AppsetsControlled, [Next]_vars
    PROVE  Objects'
<1>1. Objects
  BY TypeParts
<1> USE DEF Objects, views
<1>2. CASE NoWrite
  BY <1>1, <1>2 DEF NoWrite
<1>3. CASE ServiceWrite
  BY <1>1, <1>3 DEF ServiceWrite, PutService
<1>4. CASE CertificateWrite
  BY <1>1, <1>4 DEF CertificateWrite, PutCertificate
<1>5. CASE AppsetWrite
  BY <1>1, <1>5 DEF AppsetWrite, PutAppset
<1>6. CASE Issue
  BY <1>1, <1>6 DEF Issue
<1>7. CASE Delivery
  BY <1>1, <1>7 DEF Delivery, ServiceEvent, CertificateEvent, SecretEvent, AppsetEvent
<1>8. CASE Restart
  BY <1>1, <1>8 DEF Restart
<1> QED BY <1>2, <1>3, <1>4, <1>5, <1>6, <1>7, <1>8, StepKinds

\* The store only grows: what was issued stays issued.
LEMMA IssueEffect ==
    ASSUME TypeOK, Issue
    PROVE  /\ issued' \in Seq(Wants)
           /\ Len(issued) \in Nat /\ Len(issued') = Len(issued) + 1
           /\ \A n \in 1 .. Len(issued) : issued'[n] = issued[n]
           /\ cert.want \in Wants /\ cert.want.domain \in Domains
           /\ issued'[Len(issued')] = cert.want
           /\ secret' = [secret EXCEPT ![cert.want.domain] = Len(issued')]
<1>1. cert.want \in Wants /\ issued \in Seq(Wants)
  BY TypeParts DEF Objects, Secrets, CertificateObject
<1>2. cert.want.domain \in Domains
  BY <1>1, SpecTypes
<1>3. issued' = Append(issued, cert.want)
      /\ secret' = [secret EXCEPT ![cert.want.domain] = Len(issued')]
  BY DEF Issue
<1>4. /\ issued' \in Seq(Wants)
      /\ Len(issued) \in Nat /\ Len(issued') = Len(issued) + 1
      /\ \A n \in 1 .. Len(issued) : issued'[n] = issued[n]
      /\ issued'[Len(issued')] = cert.want
  BY <1>1, <1>3
<1> QED BY <1>1, <1>2, <1>3, <1>4

LEMMA SecretsStep ==
    ASSUME TypeOK, AppsetsControlled, [Next]_vars
    PROVE  Secrets'
<1>1. Secrets
  BY TypeParts
<1> USE DEF Secrets
<1>2. ASSUME UNCHANGED <<secret, issued>>, secretC' \in {secretC, secret} PROVE Secrets'
  BY <1>1, <1>2
<1>3. CASE NoWrite \/ ServiceWrite \/ CertificateWrite \/ AppsetWrite
  BY <1>2, <1>3 DEF NoWrite, ServiceWrite, CertificateWrite, AppsetWrite, views
<1>4. CASE Delivery \/ Restart
  BY <1>2, <1>4 DEF Delivery, ServiceEvent, CertificateEvent, SecretEvent, AppsetEvent, Restart
<1>5. CASE Issue
  <2>1. secretC' = secretC
    BY <1>5 DEF Issue
  <2> QED BY <1>1, <1>5, <2>1, IssueEffect
<1> QED BY <1>3, <1>4, <1>5, StepKinds

NewsTyped == news \subseteq {"svc", "cert", "certPlain", "secret", "appset"}

LEMMA NewsStep ==
    ASSUME TypeOK, AppsetsControlled, [Next]_vars
    PROVE  NewsTyped'
<1>1. NewsTyped
  BY TypeParts DEF Flags, NewsTyped
<1> USE DEF NewsTyped
<1>2. CASE NoWrite \/ ServiceWrite \/ CertificateWrite \/ AppsetWrite
  BY <1>1, <1>2 DEF NoWrite, ServiceWrite, CertificateWrite, AppsetWrite, PutService,
                    PutCertificate, CertNews, PutAppset
<1>3. CASE Issue \/ Delivery \/ Restart
  BY <1>1, <1>3 DEF Issue, Delivery, ServiceEvent, CertificateEvent, SecretEvent, AppsetEvent, Restart
<1> QED BY <1>2, <1>3, StepKinds

\* The queues and the chain of the challenge.
Switches == svcQ \in BOOLEAN /\ chalQ \in BOOLEAN /\ chainC \in BOOLEAN

LEMMA SwitchesStep ==
    ASSUME Switches, [Next]_vars
    PROVE  Switches'
<1> USE DEF Switches
<1>1. ASSUME Users \/ GarbageCollector \/ UNCHANGED vars PROVE Switches'
  BY <1>1
     DEF Users, CreateService, UpdateService, DeleteService, UserCreateCertificate,
         UserDeleteCertificate, UserDeleteAppset, GarbageCollector, CollectCertificate,
         CollectAppset, CollectSolver, PutChallenge
<1>2. ASSUME CertManager \/ Renew PROVE Switches'
  BY <1>2
     DEF CertManager, ReportReady, ReportNotReady, SetReady, Order, Renew, OpenChallenge, Present,
         Issue, PutChallenge
<1>3. ASSUME Informers PROVE Switches'
  BY <1>3 DEF Informers, ServiceEvent, CertificateEvent, SecretEvent, AppsetEvent, SolverEvent,
         ChainEvent
<1>4. ASSUME ServicePass PROVE Switches'
  BY <1>4
     DEF ServicePass, ReconcileGone, ReconcileFirst, CreateCertificate, SkipTerminatingCertificate,
         AdoptCertificate, UpdateCertificate, AwaitSecret, CreateAppset, SkipTerminatingAppset,
         UpdateAppset, MarkHealthy, End, SetStatus, WriteCertificate, WriteAppset, Finish
<1>5. ASSUME ChallengeController \/ PassFails \/ Restart PROVE Switches'
  BY <1>5
     DEF ChallengeController, ChallengeGone, ChallengeUnowned, ChallengeNotPresented,
         CreateSolver, UpdateSolver, KeepSolver, WriteSolver, ChallengeEnd,
         PassFails, Restart
<1> QED BY <1>1, <1>2, <1>3, <1>4, <1>5 DEF Next

\* The challenge and its solver.
Solving ==
    /\ chal \in ChallengeStates
    /\ solver \in Classes \cup {"none"} /\ solverC \in Classes \cup {"none"}

LEMMA SolvingStep ==
    ASSUME Objects, Solving, [Next]_vars
    PROVE  Solving'
<1> USE DEF Solving, ChallengeStates
<1>1. ASSUME Users \/ UNCHANGED vars \/ PassFails \/ Restart \/ Informers PROVE Solving'
  BY <1>1
     DEF Users, CreateService, UpdateService, DeleteService, UserCreateCertificate,
         UserDeleteCertificate, UserDeleteAppset, PassFails, Restart, Informers, ServiceEvent,
         CertificateEvent, SecretEvent, AppsetEvent, SolverEvent,
         ChainEvent, PutService, PutCertificate, PutAppset
<1>2. ASSUME GarbageCollector \/ CertManager \/ Renew PROVE Solving'
  BY <1>2
     DEF GarbageCollector, CollectCertificate, CollectAppset, CollectSolver, CertManager,
         ReportReady, ReportNotReady, SetReady, Order, Renew, OpenChallenge, Present, Issue,
         PutChallenge
<1>3. ASSUME ServicePass PROVE Solving'
  BY <1>3
     DEF ServicePass, ReconcileGone, ReconcileFirst, CreateCertificate, SkipTerminatingCertificate,
         AdoptCertificate, UpdateCertificate, AwaitSecret, CreateAppset, SkipTerminatingAppset,
         UpdateAppset, MarkHealthy, End, SetStatus, WriteCertificate, WriteAppset
<1>4. svcC.spec.cache \in Classes
  BY SpecTypes DEF Objects, ServiceObject
<1>5. ASSUME ChallengeController PROVE Solving'
  BY <1>4, <1>5
     DEF ChallengeController, ChallengeGone, ChallengeUnowned, ChallengeNotPresented,
         CreateSolver, UpdateSolver, KeepSolver, WriteSolver, ChallengeEnd,
         ChallengeResources
<1> QED BY <1>1, <1>2, <1>3, <1>5 DEF Next

LEMMA TypeStep ==
    ASSUME TypeOK, AppsetsControlled, [Next]_vars
    PROVE  TypeOK'
<1>1. Objects' /\ Secrets'
  BY ObjectsStep, SecretsStep
<1>2. Counters'
  BY CountersStep, TypeParts
<1>3. Switches'
  <2>1. Switches
    BY TypeParts DEF Flags, Switches
  <2> QED BY <2>1, SwitchesStep
<1>4. Solving'
  <2>1. Solving /\ Objects
    BY TypeParts DEF Flags, Solving
  <2> QED BY <2>1, SolvingStep
<1>5. NewsTyped'
  BY NewsStep
<1>6. Flags'
  BY <1>3, <1>4, <1>5 DEF Flags, Switches, Solving, NewsTyped
<1> QED BY <1>1, <1>2, <1>6 DEF TypeOK, Objects, Secrets, Flags, Counters

-----------------------------------------------------------------------------
(* Certificates of the right domain.                                       *)

LEMMA AppsetsControlledStep ==
    ASSUME TypeOK, AppsetsControlled, [Next]_vars
    PROVE  AppsetsControlled'
<1> USE DEF AppsetsControlled, views
<1>1. CASE NoWrite \/ ServiceWrite \/ CertificateWrite
  BY <1>1 DEF NoWrite, ServiceWrite, CertificateWrite
<1>2. CASE AppsetWrite
  BY <1>2 DEF AppsetWrite, PutAppset
<1>3. CASE Issue \/ Delivery \/ Restart
  BY <1>3 DEF Issue, Delivery, ServiceEvent, CertificateEvent, SecretEvent, AppsetEvent, Restart
<1> QED BY <1>1, <1>2, <1>3, StepKinds

LEMMA SecretsOfDomainsStep ==
    ASSUME TypeOK, AppsetsControlled, SecretsOfDomains, [Next]_vars
    PROVE  SecretsOfDomains'
<1> USE DEF SecretsOfDomains
<1>1. ASSUME UNCHANGED <<secret, issued>>, secretC' \in {secretC, secret} PROVE SecretsOfDomains'
  BY <1>1
<1>2. CASE NoWrite \/ ServiceWrite \/ CertificateWrite \/ AppsetWrite
  BY <1>1, <1>2 DEF NoWrite, ServiceWrite, CertificateWrite, AppsetWrite, views
<1>3. CASE Delivery \/ Restart
  BY <1>1, <1>3 DEF Delivery, ServiceEvent, CertificateEvent, SecretEvent, AppsetEvent, Restart
<1>4. CASE Issue
  <2>1. secretC' = secretC
    BY <1>4 DEF Issue
  <2>2. Secrets
    BY TypeParts
  <2>3. \A d \in Domains : /\ secret[d] # 0 => secret[d] \in 1 .. Len(issued)
                           /\ secretC[d] # 0 => secretC[d] \in 1 .. Len(issued)
    BY <1>4, <2>2, IssueEffect DEF Secrets
  <2>4. ASSUME NEW d \in Domains, secret'[d] # 0 PROVE issued'[secret'[d]].domain = d
    <3>1. CASE d = cert.want.domain
      BY <1>4, <2>2, <3>1, IssueEffect DEF Secrets
    <3>2. CASE d # cert.want.domain
      BY <1>4, <2>2, <2>3, <2>4, <3>2, IssueEffect DEF Secrets
    <3> QED BY <3>1, <3>2
  <2> QED BY <1>4, <2>1, <2>3, <2>4, IssueEffect
<1> QED BY <1>2, <1>3, <1>4, StepKinds

LEMMA SerialsIssuedStep ==
    ASSUME TypeOK, AppsetsControlled, SerialsIssued, [Next]_vars
    PROVE  SerialsIssued'
<1> USE DEF SerialsIssued, views
<1>0. /\ Len(issued) \in Nat /\ appset.crt \in Nat /\ cert.ready \in Nat /\ certC.ready \in Nat
  BY TypeParts DEF Secrets, Objects, AppsetObject, CertificateObject
<1>1. CASE NoWrite \/ ServiceWrite
  BY <1>1 DEF NoWrite, ServiceWrite
<1>2. CASE CertificateWrite
  <2>1. secret[cert.want.domain] <= Len(issued)
    BY <1>0, SpecTypes, TypeParts DEF Secrets, Objects, CertificateObject
  <2> QED BY <1>0, <1>2, <2>1 DEF CertificateWrite, PutCertificate
<1>3. CASE AppsetWrite
  <2>1. PICK a \in AppsetObject : /\ PutAppset(a)
                                 /\ \/ a.spec = appset.spec /\ a.crt = appset.crt
                                    \/ a.crt \in {0, secretC[a.spec.domain]}
    BY <1>3 DEF AppsetWrite
  <2>2. a.spec.domain \in Domains
    BY SpecTypes DEF AppsetObject
  <2>3. secretC[a.spec.domain] <= Len(issued)
    BY <1>0, <2>2, TypeParts DEF Secrets
  <2>4. appset' = a /\ UNCHANGED <<issued, cert, certC>>
    BY <1>3, <2>1 DEF AppsetWrite, PutAppset
  <2> QED BY <1>0, <2>1, <2>3, <2>4
<1>4. CASE Issue
  <2>1. UNCHANGED <<appset, cert, certC>>
    BY <1>4 DEF Issue
  <2>2. Len(issued') = Len(issued) + 1
    BY <1>4, IssueEffect
  <2> QED BY <1>0, <2>1, <2>2
<1>5. CASE Delivery \/ Restart
  BY <1>5 DEF Delivery, ServiceEvent, CertificateEvent, SecretEvent, AppsetEvent, Restart
<1> QED BY <1>1, <1>2, <1>3, <1>4, <1>5, StepKinds

LEMMA OwnCertificateStep ==
    ASSUME OwnInv, [Next]_vars
    PROVE  OwnCertificate'
<1> USE DEF OwnInv, OwnCertificate, views
<1>1. CASE NoWrite \/ ServiceWrite \/ CertificateWrite
  BY <1>1 DEF NoWrite, ServiceWrite, CertificateWrite
<1>2. CASE AppsetWrite
  <2>1. PICK a \in AppsetObject : /\ PutAppset(a)
                                 /\ \/ a.spec = appset.spec /\ a.crt = appset.crt
                                    \/ a.crt \in {0, secretC[a.spec.domain]}
    BY <1>2 DEF AppsetWrite
  <2>2. a.spec.domain \in Domains
    BY SpecTypes DEF AppsetObject
  <2>3. appset' = a /\ UNCHANGED issued
    BY <1>2, <2>1 DEF AppsetWrite, PutAppset
  <2> QED BY <2>1, <2>2, <2>3 DEF SecretsOfDomains
<1>3. CASE Issue
  <2>1. appset' = appset
    BY <1>3 DEF Issue
  <2>2. appset.crt # 0 => appset.crt \in 1 .. Len(issued)
    BY TypeParts DEF SerialsIssued, Objects, AppsetObject, Secrets
  <2> QED BY <1>3, <2>1, <2>2, IssueEffect
<1>4. CASE Delivery \/ Restart
  BY <1>4 DEF Delivery, ServiceEvent, CertificateEvent, SecretEvent, AppsetEvent, Restart
<1> QED BY <1>1, <1>2, <1>3, <1>4, StepKinds

LEMMA OwnInit == Init => OwnInv
<1> SUFFICES ASSUME Init PROVE OwnInv
  OBVIOUS
<1>1. /\ appset = NoAppset /\ appsetC = NoAppset /\ cert.ready = 0 /\ certC.ready = 0
      /\ issued = << >> /\ secret = NoSecrets /\ secretC = NoSecrets
  BY DEF Init, NoCertificate
<1>2. SecretsOfDomains
  BY <1>1 DEF SecretsOfDomains, NoSecrets
<1>3. SerialsIssued /\ AppsetsControlled /\ OwnCertificate
  BY <1>1 DEF SerialsIssued, AppsetsControlled, OwnCertificate, NoAppset
<1> QED BY <1>2, <1>3, InitTypeOK DEF OwnInv

LEMMA OwnStep ==
    ASSUME OwnInv, [Next]_vars
    PROVE  OwnInv'
<1>1. TypeOK' /\ AppsetsControlled'
  BY TypeStep, AppsetsControlledStep DEF OwnInv
<1>2. SecretsOfDomains' /\ SerialsIssued'
  BY SecretsOfDomainsStep, SerialsIssuedStep DEF OwnInv
<1> QED BY <1>1, <1>2, OwnCertificateStep DEF OwnInv

\* Type correctness of the whole specification.
THEOREM TypeCorrect == Spec => []TypeOK
<1>1. OwnInv /\ [Next]_vars => OwnInv'
  BY OwnStep
<1>2. OwnInv => TypeOK
  BY DEF OwnInv
<1> QED BY <1>1, <1>2, OwnInit, PTL DEF Spec

\* An application set never carries a key pair that was issued for another
\* domain than its service's, however far the three caches lag.
THEOREM CertificateOfDomain == Spec => []OwnCertificate
<1>1. OwnInv /\ [Next]_vars => OwnInv'
  BY OwnStep
<1>2. OwnInv => OwnCertificate
  BY DEF OwnInv
<1> QED BY <1>1, <1>2, OwnInit, PTL DEF Spec

-----------------------------------------------------------------------------
(* Presented challenges have a solver or are queued.                       *)

LEMMA PresentedStep ==
    ASSUME Objects, Switches, PresentedMeansSolver, SolverSeen, [Next]_vars
    PROVE  PresentedMeansSolver' /\ SolverSeen'
<1> USE DEF PresentedMeansSolver, SolverSeen, Switches
<1>1. ASSUME UNCHANGED <<chal, solver, solverC, chalQ>> PROVE PresentedMeansSolver' /\ SolverSeen'
  BY <1>1
<1>2. ASSUME Users \/ UNCHANGED vars \/ CollectAppset
             \/ ServiceEvent \/ CertificateEvent \/ SecretEvent \/ AppsetEvent \/ ChainEvent
      PROVE  UNCHANGED <<chal, solver, solverC, chalQ>>
  BY <1>2
     DEF Users, CreateService, UpdateService, DeleteService, UserCreateCertificate,
         UserDeleteCertificate, UserDeleteAppset, ServiceEvent,
         CertificateEvent, SecretEvent, AppsetEvent, ChainEvent, CollectAppset
<1>3. ASSUME ServicePass PROVE UNCHANGED <<chal, solver, solverC, chalQ>>
  BY <1>3
     DEF ServicePass, ReconcileGone, ReconcileFirst, CreateCertificate, SkipTerminatingCertificate,
         AdoptCertificate, UpdateCertificate, AwaitSecret, CreateAppset, SkipTerminatingAppset,
         UpdateAppset, MarkHealthy, End, SetStatus, WriteCertificate, WriteAppset
<1>4. ASSUME CollectCertificate \/ CollectSolver PROVE PresentedMeansSolver' /\ SolverSeen'
  BY <1>4 DEF CollectCertificate, CollectSolver, PutChallenge
<1>5. ASSUME ReportReady \/ ReportNotReady PROVE UNCHANGED <<chal, solver, solverC, chalQ>>
  BY <1>5 DEF ReportReady, ReportNotReady, SetReady
<1>6. ASSUME Order \/ Renew \/ Present \/ Issue PROVE PresentedMeansSolver' /\ SolverSeen'
  BY <1>6 DEF Order, Renew, OpenChallenge, Present, Issue, PutChallenge
<1>7. ASSUME ChallengeGone \/ ChallengeUnowned \/ ChallengeNotPresented
      PROVE  PresentedMeansSolver' /\ SolverSeen'
  BY <1>7 DEF ChallengeGone, ChallengeUnowned, ChallengeNotPresented, ChallengeEnd
<1>8. svcC.spec.cache # "none"
  BY SpecTypes DEF Objects, ServiceObject
<1>9. ASSUME CreateSolver \/ UpdateSolver PROVE PresentedMeansSolver' /\ SolverSeen'
  BY <1>8, <1>9 DEF CreateSolver, UpdateSolver, WriteSolver, ChallengeResources
<1>10. ASSUME KeepSolver PROVE PresentedMeansSolver' /\ SolverSeen'
  BY <1>8, <1>10 DEF KeepSolver, SolverWanted, ChallengeEnd, ChallengeResources
<1>11. ASSUME SolverEvent \/ PassFails \/ Restart PROVE PresentedMeansSolver' /\ SolverSeen'
  BY <1>11 DEF SolverEvent, PassFails, Restart
<1> QED
  BY <1>1, <1>2, <1>3, <1>4, <1>5, <1>6, <1>7, <1>9, <1>10, <1>11
     DEF Next, GarbageCollector, CertManager, Informers, ChallengeController

\* A presented challenge has its solver or another pass ahead, in whatever
\* order the objects of its chain of owners become known.
THEOREM PresentedSolved == Spec => []PresentedMeansSolver
<1>1. OwnInv /\ [Next]_vars => OwnInv'
  BY OwnStep
<1>2. OwnInv => Objects /\ Switches
  BY TypeParts DEF OwnInv, Flags, Switches
<1>3. Objects /\ Switches /\ PresentedMeansSolver /\ SolverSeen /\ [Next]_vars
          => PresentedMeansSolver' /\ SolverSeen'
  BY PresentedStep
<1>4. Init => PresentedMeansSolver /\ SolverSeen
  BY DEF Init, PresentedMeansSolver, SolverSeen
<1> QED BY <1>1, <1>2, <1>3, <1>4, OwnInit, PTL DEF Spec

-----------------------------------------------------------------------------
(* Rest means that the service is provisioned.                             *)

LEMMA ViewsCurrentStep ==
    ASSUME TypeOK, AppsetsControlled, ViewsCurrent, [Next]_vars
    PROVE  ViewsCurrent'
<1> USE DEF ViewsCurrent, views
<1>1. CASE NoWrite
  BY <1>1 DEF NoWrite
<1>2. CASE ServiceWrite
  BY <1>2 DEF ServiceWrite, PutService
<1>3. CASE CertificateWrite
  BY <1>3 DEF CertificateWrite, PutCertificate, CertNews
<1>4. CASE AppsetWrite
  BY <1>4 DEF AppsetWrite, PutAppset
<1>5. CASE Issue
  BY <1>5 DEF Issue
<1>6. CASE ServiceEvent \/ AppsetEvent \/ SecretEvent
  BY <1>6 DEF ServiceEvent, AppsetEvent, SecretEvent
<1>7. CASE CertificateEvent
  BY <1>7 DEF CertificateEvent
<1>8. CASE Restart
  BY <1>8 DEF Restart
<1> QED BY <1>1, <1>2, <1>3, <1>4, <1>5, <1>6, <1>7, <1>8, StepKinds DEF Delivery

LEMMA DeletionsControlledStep ==
    ASSUME "abandon" \notin UserActions,
           TypeOK, AppsetsControlled, DeletionsControlled, [Next]_vars
    PROVE  DeletionsControlled'
<1> USE DEF DeletionsControlled, views
<1>1. CASE NoWrite \/ ServiceWrite \/ AppsetWrite
  BY <1>1 DEF NoWrite, ServiceWrite, AppsetWrite
<1>2. CASE CertificateWrite
  BY <1>2 DEF CertificateWrite, PutCertificate
<1>3. CASE Issue \/ Delivery \/ Restart
  BY <1>3 DEF Issue, Delivery, ServiceEvent, CertificateEvent, SecretEvent, AppsetEvent, Restart
<1> QED BY <1>1, <1>2, <1>3, StepKinds

LEMMA SecretsAheadStep ==
    ASSUME SecretsFirst, OwnInv, ViewsCurrent, SecretsAhead, [Next]_vars
    PROVE  SecretsAhead'
<1> USE DEF SecretsAhead, OwnInv, views
<1>1. CASE NoWrite \/ ServiceWrite \/ AppsetWrite \/ CertificateWrite
  BY <1>1 DEF NoWrite, ServiceWrite, AppsetWrite, CertificateWrite
<1>2. CASE Issue
  <2>1. UNCHANGED <<secretC, certC>>
    BY <1>2 DEF Issue
  <2>2. certC.ready \in Nat /\ secret \in [Domains -> 0 .. Len(issued)]
    BY TypeParts DEF Objects, CertificateObject, Secrets
  <2>3. Len(issued') > certC.ready
    BY <1>2, <2>2, IssueEffect DEF SerialsIssued
  <2> QED BY <1>2, <2>1, <2>2, <2>3, IssueEffect
<1>3. CASE ServiceEvent \/ AppsetEvent
  BY <1>3 DEF ServiceEvent, AppsetEvent
<1>4. CASE SecretEvent \/ Restart
  BY <1>4 DEF SecretEvent, Restart
<1>5. CASE CertificateEvent
  BY <1>5 DEF CertificateEvent, ViewsCurrent
<1> QED BY <1>1, <1>2, <1>3, <1>4, <1>5, StepKinds DEF Delivery

LEMMA PassesOwedStep ==
    ASSUME RestInv, [Next]_vars
    PROVE  PassesOwed'
<1> USE DEF RestInv, OwnInv, views
<1>1. ASSUME UNCHANGED views PROVE LeftAlone' = LeftAlone
  BY <1>1 DEF LeftAlone, CertificateCurrent, AppsetCurrent, Crt
<1>2. CASE NoWrite
  BY <1>1, <1>2 DEF NoWrite, PassesOwed
<1>3. CASE ServiceWrite \/ AppsetWrite
  BY <1>3 DEF ServiceWrite, AppsetWrite, PutService, PutAppset, PassesOwed
<1>4. CASE CertificateWrite
  BY <1>1, <1>4 DEF CertificateWrite, PutCertificate, PassesOwed
<1>5. CASE Issue
  BY <1>1, <1>5 DEF Issue, PassesOwed
<1>6. CASE ServiceEvent \/ AppsetEvent
  BY <1>6 DEF ServiceEvent, AppsetEvent, PassesOwed
<1>7. CASE CertificateEvent
  <2>1. CASE "cert" \in news
    BY <1>7, <2>1 DEF CertificateEvent, PassesOwed
  <2>2. CASE "cert" \notin news /\ ~ LeftAlone
    BY <1>7, <2>2 DEF CertificateEvent, PassesOwed
  <2>3. CASE "cert" \notin news /\ LeftAlone
    <3>1. svcC.uid = 0 \/ certC.owner # 0
      BY <2>3 DEF LeftAlone, DeletionsControlled
    <3>2. CASE svcC.uid = 0
      BY <1>7, <3>2 DEF CertificateEvent, PassesOwed, LeftAlone
    <3>3. CASE certC.owner # 0
      <4>1. UNCHANGED views
        BY <1>7, <2>3, <3>3 DEF CertificateEvent, ViewsCurrent
      <4> QED BY <1>1, <2>3, <4>1 DEF PassesOwed
    <3> QED BY <3>1, <3>2, <3>3
  <2> QED BY <2>1, <2>2, <2>3
<1>8. CASE SecretEvent
  <2>1. UNCHANGED <<svcC, certC, appsetC, svcQ>> /\ secretC' = secret /\ news' = news \ {"secret"}
    BY <1>8 DEF SecretEvent
  <2>2. CASE ~ LeftAlone
    BY <2>1, <2>2 DEF PassesOwed
  <2>3. CASE LeftAlone
    <3>1. LeftAlone'
      <4> DEFINE d == certC.want.domain
      <4>1. d \in Domains /\ certC.ready \in Nat /\ secret[d] \in Nat
        BY SpecTypes, TypeParts DEF Objects, CertificateObject, Secrets
      <4>2. secretC[d] = secret[d] \/ secret[d] > certC.ready
        BY <4>1 DEF SecretsAhead
      <4>3. CertificateCurrent' = CertificateCurrent
        BY <2>1 DEF CertificateCurrent
      <4>4. CASE secretC[d] = secret[d]
        <5>1. Crt' = Crt
          BY <2>1, <4>4 DEF Crt
        <5> QED BY <2>1, <2>3, <4>3, <4>4, <5>1 DEF LeftAlone, AppsetCurrent
      <4>5. CASE secret[d] > certC.ready
        <5>1. secret[d] # certC.ready
          BY <4>1, <4>5
        <5>2. certC.ready = 0 => Crt' = Crt
          BY <2>1 DEF Crt
        <5> QED BY <2>1, <2>3, <4>3, <5>1, <5>2 DEF LeftAlone, AppsetCurrent
      <4> QED BY <4>2, <4>4, <4>5
    <3> QED BY <3>1 DEF PassesOwed
  <2> QED BY <2>2, <2>3
<1>9. CASE Restart
  BY <1>9 DEF Restart, PassesOwed, LeftAlone
<1> QED
  BY <1>2, <1>3, <1>4, <1>5, <1>6, <1>7, <1>8, <1>9, StepKinds DEF Delivery

LEMMA RestInit == Init => RestInv
<1> SUFFICES ASSUME Init PROVE RestInv
  OBVIOUS
<1>1. ViewsCurrent
  BY DEF Init, ViewsCurrent
<1>2. DeletionsControlled /\ PassesOwed
  BY DEF Init, DeletionsControlled, PassesOwed, LeftAlone, NoCertificate, NoServiceObject
<1>3. SecretsAhead
  BY DEF Init, SecretsAhead
<1> QED BY <1>1, <1>2, <1>3, OwnInit DEF RestInv

\* At rest every view is current, so the reasons to leave a service alone
\* come down to one: it is provisioned.
LEMMA RestProvisions == RestInv => RestMeansProvisioned
<1> SUFFICES ASSUME RestInv, Quiet, svc.uid # 0 PROVE Provisioned
  BY DEF RestMeansProvisioned
<1> USE DEF RestInv, OwnInv
<1>1. svcC = svc /\ certC = cert /\ secretC = secret /\ appsetC = appset
  BY DEF Quiet, ViewsCurrent
<1>2. LeftAlone
  BY DEF Quiet, PassesOwed
<1>3. /\ cert.life = "live" /\ CertificateCurrent
      /\ Fitting /\ cert.ready = secret[cert.want.domain]
  BY <1>1, <1>2 DEF LeftAlone, Quiet
<1> DEFINE n == secret[svc.spec.domain]
<1>4. svc.spec \in Specs
  BY TypeParts DEF Objects, ServiceObject
<1>5. cert.want = Want(svc.spec) /\ cert.want.domain = svc.spec.domain
  BY <1>1, <1>3, <1>4, SpecTypes DEF CertificateCurrent
<1>6. n # 0 /\ issued[n] = Want(svc.spec) /\ cert.ready = n
  BY <1>3, <1>5 DEF Fitting
<1>7. issued[n].names = {svc.spec.domain} \cup svc.spec.aliases
  BY <1>4, <1>6, SpecTypes
<1>8. appset.life = "live" /\ AppsetCurrent /\ svc.status = "Healthy"
  BY <1>1, <1>2, <1>3, <1>5, <1>6 DEF LeftAlone, Quiet
<1>9. appset.spec = svc.spec /\ appset.crt = n
  BY <1>1, <1>5, <1>6, <1>8 DEF AppsetCurrent, Crt
<1>10. appset.owner = svc.uid
  BY <1>8 DEF AppsetsControlled, Quiet
<1>11. appset = [life |-> "live", owner |-> svc.uid, spec |-> svc.spec, crt |-> n]
  BY <1>8, <1>9, <1>10, TypeParts DEF Objects, AppsetObject
<1> QED BY <1>6, <1>7, <1>8, <1>11 DEF Provisioned

\* Passes that end early leave nothing undone: at rest, a service has its
\* application set with the certificate in force, if the secret informer is
\* ahead of the certificate's and nobody deletes a certificate that no
\* service controls.
THEOREM RestProvisioned ==
    ASSUME SecretsFirst, "abandon" \notin UserActions
    PROVE  Spec => []RestMeansProvisioned
<1>1. ASSUME RestInv, [Next]_vars PROVE RestInv'
  <2>1. OwnInv'
    BY <1>1, OwnStep DEF RestInv
  <2>2. ViewsCurrent' /\ DeletionsControlled'
    BY <1>1, ViewsCurrentStep, DeletionsControlledStep DEF RestInv, OwnInv
  <2>3. SecretsAhead'
    BY <1>1, SecretsAheadStep DEF RestInv
  <2>4. PassesOwed'
    BY <1>1, PassesOwedStep
  <2> QED BY <2>1, <2>2, <2>3, <2>4 DEF RestInv
<1>2. RestInv /\ [Next]_vars => RestInv'
  BY <1>1
<1> QED BY <1>2, RestInit, RestProvisions, PTL DEF Spec

=============================================================================
