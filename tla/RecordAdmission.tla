-------------------------- MODULE RecordAdmission --------------------------
(***************************************************************************)
(* Admission of tenant resources: the tenancy webhook                      *)
(* (webhook/v1alpha1/tenancy_webhook.go, tenancy/) and the webhooks of DNS *)
(* endpoints, services, zones and health check profiles.                   *)
(*                                                                         *)
(* The webhooks keep no state.  They compare the object of a request with  *)
(* the other objects of its kind as the manager's cache shows them, and    *)
(* look up projects and references at the API server; the API server       *)
(* stores the object later.  Between admission and storing, and behind the *)
(* cache, other requests go on.  What admission guarantees is therefore    *)
(* stated up to that window: stale, late, gone, blind and orphans are      *)
(* history, read by no guard, that says which pairs of objects fell into   *)
(* it.                                                                     *)
(***************************************************************************)
EXTENDS Naturals, FiniteSets, Sequences

CONSTANTS
    Endpoints, Services, Zones,  \* names of objects of the cluster, by kind
    Others,                      \* Locations, PrefixLists, HealthCheckProfiles, APIKeys
    Home,                        \* the namespace of each object
    Projects,                    \* project objects, <<namespace, name>>
    Namespaced, TargetNamespace, \* tenancy.Scope
    CachingReconcilerEnabled,    \* the feature gate
    BlockedUpstreamTLDs,         \* sequences of labels
    DnsNames, Canonical,         \* spellings; one of them for each name
    Dotted,                      \* spellings that have the final dot
    ValidNames,                  \* names that validDNSName lets a zone have
    Below,                       \* pairs <<child, parent>> of canonical names
    Addresses,                   \* targets that are not DNS names
    Records,                     \* DNSEndpoint specs that requests carry ...
    ServiceSpecs,                \* ... Service specs ...
    ZoneSpecs,                   \* ... Zone specs ...
    OtherSpecs,                  \* ... and those of the other kinds
    InitialZones,                \* zones that are there in the beginning
    Nothing,                     \* no object, no request
    Budget                       \* bound on requests and deletions

Objects == Endpoints \cup Services \cup Zones \cup Others

\* parses: every target is data of the record type; wellFormed: name, TTL and
\* record type are in range.
DNSEndpointSpec ==
    [name : DnsNames, type : {"A", "AAAA", "CNAME", "TXT", "MX", "SRV", "NS"},
     policy : {"", "Simple", "Weighted", "Failover", "Geolocation", "RoundRobin"},
     selector : BOOLEAN, targets : SUBSET (DnsNames \cup Addresses), zone : Zones,
     parses : BOOLEAN, wellFormed : BOOLEAN]

\* Every name is below itself, and the names above it are below one another.
ASSUME NamesAssumption ==
    /\ Canonical \in [DnsNames -> DnsNames]
    /\ Dotted \subseteq DnsNames /\ ValidNames \subseteq DnsNames
    /\ \A n \in DnsNames : <<Canonical[n], Canonical[n]>> \in Below
    /\ \A n, a, b \in DnsNames : <<n, a>> \in Below /\ <<n, b>> \in Below
                       => <<a, b>> \in Below \/ <<b, a>> \in Below

ASSUME SpecsAssumption ==
    /\ Records \subseteq DNSEndpointSpec
    /\ ZoneSpecs \subseteq DnsNames
    /\ \A s \in OtherSpecs : s.refs \subseteq Objects

ASSUME KindsAssumption ==
    /\ Endpoints \cap (Services \cup Zones \cup Others) = {}
    /\ Services \cap (Zones \cup Others) = {}
    /\ Zones \cap Others = {}

ASSUME BudgetAssumption == Budget \in Nat

\* The specs of the kind of an object.
SpecsOf(x) ==
    IF x \in Endpoints THEN Records
    ELSE IF x \in Services THEN ServiceSpecs
    ELSE IF x \in Zones THEN ZoneSpecs ELSE OtherSpecs

ProjectNames == {p[2] : p \in Projects}

Contents(x) == [project : ProjectNames, spec : SpecsOf(x)]

ASSUME NothingAssumption == \A x \in Objects : Nothing \notin Contents(x)

ASSUME InitialAssumption ==
    /\ DOMAIN InitialZones \subseteq Zones
    /\ \A x \in DOMAIN InitialZones : InitialZones[x] \in Contents(x)
    /\ \A x, y \in DOMAIN InitialZones : x # y =>
          \A n \in DnsNames : <<n, Canonical[InitialZones[x].spec]>> \in Below
                             => <<n, Canonical[InitialZones[y].spec]>> \notin Below

VARIABLES
    project,  \* API server: life of the project objects
    obj,      \* API server: the stored object, or Nothing
    view,     \* the manager's cache of them
    req,      \* an admitted create or update that is not stored yet
    stale,    \* of such a request: objects the cache showed it in an old version
    late,     \* of such a request: objects written or deleted since its admission
    gone,     \* of such a request: objects deleted since its admission
    blind,    \* pairs of stored objects, the later of which was not checked
              \* against the earlier one as it was
    orphans,  \* references <<x, y>> whose target y was deleted under them
    budget

history == <<stale, late, gone, blind, orphans>>
vars == <<project, obj, view, req, history, budget>>

AnyContent == UNION {Contents(x) : x \in Objects}

\* A content, or nothing, per object.
IsTable(v) ==
    /\ v \in [Objects -> AnyContent \cup {Nothing}]
    /\ \A x \in Objects : v[x] # Nothing => v[x] \in Contents(x)

TypeOK ==
    /\ project \in [Projects -> {"none", "live", "terminating"}]
    /\ IsTable(obj) /\ IsTable(view) /\ IsTable(req)
    /\ stale \in [Objects -> SUBSET Objects]
    /\ late \in [Objects -> SUBSET Objects]
    /\ gone \in [Objects -> SUBSET Objects]
    /\ \A x \in Objects : req[x] = Nothing => stale[x] = {} /\ late[x] = {} /\ gone[x] = {}
    /\ blind \subseteq {{x, y} : x \in Objects, y \in Objects}
    /\ orphans \subseteq Objects \X Objects
    /\ budget \in 0 .. Budget

Init ==
    /\ project = [p \in Projects |-> "live"]
    /\ obj = [x \in Objects |-> IF x \in DOMAIN InitialZones THEN InitialZones[x] ELSE Nothing]
    /\ view = obj
    /\ req = [x \in Objects |-> Nothing]
    /\ stale = [x \in Objects |-> {}]
    /\ late = [x \in Objects |-> {}]
    /\ gone = [x \in Objects |-> {}]
    /\ blind = {}
    /\ orphans = {}
    /\ budget = Budget

Spend == budget > 0 /\ budget' = budget - 1

-----------------------------------------------------------------------------
(* The tenancy webhook: Scope and ValidateResource.                        *)

ValidateNamespace(n) == Namespaced \/ n = TargetNamespace

ValidateProject(n, p) == ValidateNamespace(n) /\ (Namespaced => p = n)

\* What an object refers to: an endpoint to its zone; a prefix list to its
\* destination; a location to parent, fallbacks and health check profiles.
References(x, s) ==
    IF x \in Endpoints THEN {s.zone} ELSE IF x \in Others THEN s.refs ELSE {}

\* Operators named <Definition>_<Slip> are the definition with a plausible
\* programming error, used only to test that the properties notice it.
SameProject_ByNamespace(x, c, y) == Home[x] = Home[y]

\* SameProject of the object of a request and a stored object.
SameProject(x, c, y) == Home[x] = Home[y] /\ c.project = obj[y].project

\* validateReference: the name resolves, in the object's own namespace.
ValidateReference(x, c, y) ==
    /\ y # x
    /\ Home[y] = Home[x]
    /\ obj[y] # Nothing
    /\ SameProject(x, c, y)

\* old: the object that the request replaces, if any.
ValidateResource(x, c, old) ==
    /\ ValidateProject(Home[x], c.project)
    /\ old # Nothing => old.project = c.project
    /\ <<Home[x], c.project>> \in Projects
    /\ project[<<Home[x], c.project>>] = "live"
    /\ \A y \in References(x, c.spec) : ValidateReference(x, c, y)

\* tenancyHandler: an update brings the object it replaces along.
Handle(x, c) == ValidateResource(x, c, obj[x])

-----------------------------------------------------------------------------
(* The DNSEndpoint webhook.                                                *)

SameName(m, n) == Canonical[m] = Canonical[n]

\* dns.IsSubDomain(parent, child), which ignores case.
IsSubDomain(parent, child) == <<Canonical[child], Canonical[parent]>> \in Below

IsSimpleRouting(r) == r.policy \in {"", "Simple"}
IsAddressRecordType(r) == r.type \in {"A", "AAAA"}

\* Simple routing: CNAME has one target, not an address and not its owner;
\* every target parses as data of the record type.
ValidateDNSRecordTargets(r) ==
    IsSimpleRouting(r) =>
        /\ r.targets # {}
        /\ r.parses
        /\ r.type = "CNAME" =>
              /\ Cardinality(r.targets) = 1
              /\ \A t \in r.targets : t \in DnsNames /\ ~ SameName(t, r.name)

\* The part of validateSpec that looks at the spec alone.
ValidSpec(r) ==
    /\ r.policy \in {"Weighted", "Geolocation", "RoundRobin"} => r.selector
    /\ r.wellFormed
    /\ ~ IsSimpleRouting(r) => IsAddressRecordType(r)
    /\ ValidateDNSRecordTargets(r)

\* The names an MX or NS record with simple routing points to.
MxOrNSTargets(r) ==
    IF IsSimpleRouting(r) /\ r.type \in {"MX", "NS"} THEN r.targets ELSE {}

\* validateDNSRecordConflicts of the record of a request with an existing one.
Conflicts_OneWay(r, other) ==
    LET sameOwner == SameName(r.name, other.name) IN
    \/ sameOwner /\ r.zone = other.zone /\ r.type = other.type
    \/ sameOwner /\ "CNAME" \in {r.type, other.type}
    \/ other.type = "CNAME" /\ \E t \in MxOrNSTargets(r) : SameName(t, other.name)

Conflicts(r, other) ==
    LET sameOwner == SameName(r.name, other.name) IN
    \/ sameOwner /\ r.zone = other.zone /\ r.type = other.type
    \/ sameOwner /\ "CNAME" \in {r.type, other.type}
    \/ r.type = "CNAME" /\ \E t \in MxOrNSTargets(other) : SameName(t, r.name)
    \/ other.type = "CNAME" /\ \E t \in MxOrNSTargets(r) : SameName(t, other.name)

\* validateSpec: zone and other endpoints of the namespace from the cache.
ValidateEndpoint_AnyZone(x, r) ==
    /\ ValidSpec(r)
    /\ view[r.zone] # Nothing /\ view[r.zone].spec \in ValidNames
    /\ \A y \in Endpoints \ {x} :
          Home[y] = Home[x] /\ view[y] # Nothing => ~ Conflicts(r, view[y].spec)

ValidateEndpoint(x, r) ==
    /\ ValidSpec(r)
    /\ view[r.zone] # Nothing /\ view[r.zone].spec \in ValidNames
    /\ IsSubDomain(view[r.zone].spec, r.name)
    /\ \A y \in Endpoints \ {x} :
          Home[y] = Home[x] /\ view[y] # Nothing => ~ Conflicts(r, view[y].spec)

-----------------------------------------------------------------------------
(* The Service webhook.                                                    *)

\* isFQDN: labels of letters, digits and inner dashes, at least two of them.
IsFQDN(u) == u.form = "name" /\ Len(u.labels) >= 2

\* validateUpstreamConfiguration: a public IPv4 address, or a host name that
\* ends in no blocked domain.  Other forms are blank, private and IPv6.
ValidateUpstream(u) ==
    \/ u.form = "ipv4"
    \/ /\ IsFQDN(u)
       /\ \A tld \in BlockedUpstreamTLDs :
             ~ /\ Len(tld) < Len(u.labels)
               /\ SubSeq(u.labels, Len(u.labels) - Len(tld) + 1, Len(u.labels)) = tld

ValidateOrigins(s) ==
    s.originType = "static" =>
        /\ s.origins # {}
        /\ \A o \in s.origins :
              /\ ValidateUpstream(o.upstream)
              /\ o.hostHeader # Nothing => ValidateUpstream(o.hostHeader)

\* Domain against domains, aliases against aliases, letter by letter.
Duplicates_Domains(s, other) == s.domain = other.domain
Duplicates(s, other) == s.domain = other.domain \/ s.aliases \cap other.aliases # {}

ValidateService(x, s) ==
    /\ CachingReconcilerEnabled
    /\ \A y \in Services \ {x} : view[y] # Nothing => ~ Duplicates(s, view[y].spec)
    /\ ValidateOrigins(s)

-----------------------------------------------------------------------------
(* The Zone and HealthCheckProfile webhooks.  A zone's spec is its DNS     *)
(* name, which the schema does not let change.                             *)

\* A dot is appended to both names as they are spelled: a spelling that has
\* the final dot already gets a second one, and has then no common ending
\* with a spelling that had none.
SameEnding(a, b) == a \in Dotted <=> b \in Dotted

Overlaps_OneWay(a, b) == SameEnding(a, b) /\ IsSubDomain(b, a)
Overlaps(a, b) == SameEnding(a, b) /\ (IsSubDomain(a, b) \/ IsSubDomain(b, a))

ValidateZone(x, a) ==
    /\ obj[x] # Nothing => obj[x].spec = a
    /\ \A y \in Zones \ {x} : view[y] # Nothing => ~ Overlaps(a, view[y].spec)

\* Probe intervals of at least five seconds, timeouts below the interval.
ValidateProbes(s) ==
    \A probe \in s.probes :
        /\ probe.interval >= 5
        /\ probe.timeout > 0
        /\ probe.timeout < probe.interval

\* All the webhooks that main registers have to agree.
Admit(x, c) ==
    /\ Handle(x, c)
    /\ x \in Endpoints => ValidateEndpoint(x, c.spec)
    /\ x \in Services => ValidateService(x, c.spec)
    /\ x \in Zones => ValidateZone(x, c.spec)
    /\ x \in Others => ValidateProbes(c.spec)

-----------------------------------------------------------------------------
(* Requests.                                                               *)

\* A create or update reaches the webhooks and is admitted.
Request(x, c) ==
    /\ req[x] = Nothing
    /\ obj[x] # c
    /\ Admit(x, c)
    /\ req' = [req EXCEPT ![x] = c]
    /\ stale' = [stale EXCEPT ![x] = {y \in Objects \ {x} : view[y] # obj[y]}]
    /\ Spend
    /\ UNCHANGED <<project, obj, view, late, gone, blind, orphans>>

\* Object x changes: whoever is between admission and storing has missed it.
Missed(x) ==
    /\ late' = [y \in Objects |-> IF y = x \/ req[y] = Nothing THEN {} ELSE late[y] \cup {x}]
    /\ stale' = [stale EXCEPT ![x] = {}]

\* The API server stores an admitted object.
Store(x) ==
    /\ req[x] # Nothing
    /\ obj' = [obj EXCEPT ![x] = req[x]]
    /\ req' = [req EXCEPT ![x] = Nothing]
    /\ blind' = {p \in blind : x \notin p} \cup {{x, y} : y \in stale[x] \cup late[x]}
    /\ orphans' = {r \in orphans : r[1] # x} \cup {<<x, y>> : y \in gone[x]}
    /\ Missed(x)
    /\ gone' = [gone EXCEPT ![x] = {}]
    /\ UNCHANGED <<project, view, budget>>

\* The request ends otherwise: a conflict, the schema, another webhook.
Refuse_KeepsMarks(x) ==
    /\ req[x] # Nothing
    /\ req' = [req EXCEPT ![x] = Nothing]
    /\ UNCHANGED <<project, obj, view, history, budget>>

Refuse(x) ==
    /\ req[x] # Nothing
    /\ req' = [req EXCEPT ![x] = Nothing]
    /\ stale' = [stale EXCEPT ![x] = {}]
    /\ late' = [late EXCEPT ![x] = {}]
    /\ gone' = [gone EXCEPT ![x] = {}]
    /\ UNCHANGED <<project, obj, view, blind, orphans, budget>>

\* Deletions are not admitted by anybody; an update on its way is refused.
Delete(x) ==
    /\ obj[x] # Nothing
    /\ obj' = [obj EXCEPT ![x] = Nothing]
    /\ req' = [req EXCEPT ![x] = Nothing]
    /\ orphans' = {r \in orphans : r[1] # x} \cup
                  {<<y, x>> : y \in {z \in Objects \ {x} :
                                        obj[z] # Nothing /\ x \in References(z, obj[z].spec)}}
    /\ blind' = {p \in blind : x \notin p}
    /\ Missed(x)
    /\ gone' = [y \in Objects |-> IF y = x \/ req[y] = Nothing THEN {} ELSE gone[y] \cup {x}]
    /\ Spend
    /\ UNCHANGED <<project, view>>

\* CacheObjects: in a shared namespace the cache holds that namespace only.
InCache(x) == Namespaced \/ Home[x] = TargetNamespace

\* The informer catches up with an object.
Event(x) ==
    /\ InCache(x)
    /\ view[x] # obj[x]
    /\ view' = [view EXCEPT ![x] = obj[x]]
    /\ UNCHANGED <<project, obj, req, history, budget>>

\* Projects come and go; with a finalizer of somebody they linger.
CreateProject(p) ==
    /\ project[p] = "none"
    /\ ValidateProject(p[1], p[2])
    /\ project' = [project EXCEPT ![p] = "live"]
    /\ Spend
    /\ UNCHANGED <<obj, view, req, history>>

DeleteProject(p) ==
    /\ project[p] = "live"
    /\ \E life \in {"none", "terminating"} : project' = [project EXCEPT ![p] = life]
    /\ Spend
    /\ UNCHANGED <<obj, view, req, history>>

ProjectGone(p) ==
    /\ project[p] = "terminating"
    /\ project' = [project EXCEPT ![p] = "none"]
    /\ UNCHANGED <<obj, view, req, history, budget>>

Next ==
    \/ \E x \in Objects :
          \/ \E c \in Contents(x) : Request(x, c)
          \/ Store(x) \/ Refuse(x) \/ Delete(x) \/ Event(x)
    \/ \E p \in Projects : CreateProject(p) \/ DeleteProject(p) \/ ProjectGone(p)

Spec == Init /\ [][Next]_vars

-----------------------------------------------------------------------------
(* What is promised.                                                       *)

\* Two records that a DNS server cannot serve side by side: the same record
\* twice, a CNAME next to anything else, an MX or NS that leads to a CNAME.
LeadsToAlias(m, c) ==
    /\ c.type = "CNAME"
    /\ m.type \in {"MX", "NS"} /\ IsSimpleRouting(m)
    /\ \E t \in m.targets : SameName(t, c.name)

Clash(r, s) ==
    \/ SameName(r.name, s.name) /\ r.zone = s.zone /\ r.type = s.type
    \/ SameName(r.name, s.name) /\ "CNAME" \in {r.type, s.type}
    \/ LeadsToAlias(r, s) \/ LeadsToAlias(s, r)

\* Records of a namespace clash only if the later one was admitted before the
\* cache showed the earlier one: in whatever order and spelling they come,
\* validateDNSRecordConflicts catches every other pair.
RecordsClashOnlyByRace ==
    \A x, y \in Endpoints :
        x # y /\ Home[x] = Home[y] /\ obj[x] # Nothing /\ obj[y] # Nothing
            /\ Clash(obj[x].spec, obj[y].spec) => {x, y} \in blind

\* No two services have a domain, or an alias, in common but by that race
\* (ValidateService compares with the cached services of all namespaces).
HostsSharedOnlyByRace ==
    \A x, y \in Services :
        x # y /\ obj[x] # Nothing /\ obj[y] # Nothing
            /\ (\/ obj[x].spec.domain = obj[y].spec.domain
                \/ obj[x].spec.aliases \cap obj[y].spec.aliases # {})
        => {x, y} \in blind

\* No name belongs to two zones but by that race, or because one of them is
\* spelled with the final dot and the other without it, which
\* ValidateZoneOverlaps takes for unrelated names.
ZonesOverlapOnlyByRace ==
    \A x, y \in Zones :
        x # y /\ obj[x] # Nothing /\ obj[y] # Nothing
            /\ (\E n \in DnsNames : IsSubDomain(obj[x].spec, n) /\ IsSubDomain(obj[y].spec, n))
        => {x, y} \in blind \/ ~ SameEnding(obj[x].spec, obj[y].spec)

\* Nothing refers to an object of another project or namespace, unless the
\* target was deleted, after the reference was checked, and its name taken by
\* another project (ValidateResource checks the one that refers, never its
\* target).
ReferencesStayInProject ==
    \A x \in Objects :
        obj[x] # Nothing =>
            \A y \in References(x, obj[x].spec) :
                /\ Home[y] = Home[x]
                /\ obj[y] # Nothing /\ obj[y].project # obj[x].project
                       => <<x, y>> \in orphans

\* A record lies in its zone, unless the zone was deleted after the record's
\* admission and its name taken again, or the record was admitted when the
\* cache showed another zone of that name.
RecordsLieInZone ==
    \A x \in Endpoints :
        LET z == obj[x].spec.zone IN
        obj[x] # Nothing /\ obj[z] # Nothing
            => \/ IsSubDomain(obj[z].spec, obj[x].spec.name)
               \/ <<x, z>> \in orphans
               \/ {x, z} \in blind

-----------------------------------------------------------------------------
(* Inductive strengthening of the invariants, for the proofs.              *)

Unseen(x) == stale[x] \cup late[x]

\* An update keeps what may not change; of a zone nothing may, so a zone on
\* its way is a new one.
UpdatesKeep ==
    \A x \in Objects :
        req[x] # Nothing /\ obj[x] # Nothing =>
            x \notin Zones /\ req[x].project = obj[x].project

\* What admission has established of a request: it is apart from the objects
\* it has seen as they still are ...
Apart(x) ==
    \A y \in Objects \ (Unseen(x) \cup {x}) :
        obj[y] # Nothing =>
            /\ x \in Endpoints /\ y \in Endpoints /\ Home[x] = Home[y]
                   => ~ Clash(req[x].spec, obj[y].spec)
            /\ x \in Services /\ y \in Services => ~ Duplicates(req[x].spec, obj[y].spec)
            /\ x \in Zones /\ y \in Zones => ~ Overlaps(req[x].spec, obj[y].spec)

\* ... its references resolve, but for targets that were deleted since ...
Resolves(x) ==
    \A y \in References(x, req[x].spec) :
        /\ y \in Objects \ {x} /\ Home[y] = Home[x]
        /\ y \notin gone[x] => obj[y] # Nothing /\ obj[y].project = req[x].project

\* ... and a record lies in its zone.
Inside(x) ==
    LET z == req[x].spec.zone IN
    x \in Endpoints /\ z \notin Unseen(x) => IsSubDomain(obj[z].spec, req[x].spec.name)

RequestsChecked ==
    \A x \in Objects : req[x] # Nothing => Apart(x) /\ Resolves(x) /\ Inside(x)

\* A stored reference that was never orphaned leads to an object of the
\* project.
ReferencesHold ==
    \A x \in Objects :
        obj[x] # Nothing =>
            \A y \in References(x, obj[x].spec) :
                /\ y \in Objects \ {x} /\ Home[y] = Home[x]
                /\ <<x, y>> \notin orphans =>
                       obj[y] # Nothing /\ obj[y].project = obj[x].project

AdmissionInv ==
    /\ TypeOK
    /\ UpdatesKeep
    /\ RequestsChecked
    /\ ReferencesHold
    /\ RecordsClashOnlyByRace
    /\ HostsSharedOnlyByRace
    /\ ZonesOverlapOnlyByRace
    /\ RecordsLieInZone
=============================================================================
