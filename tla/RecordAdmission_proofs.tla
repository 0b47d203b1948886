----------------------- MODULE RecordAdmission_proofs -----------------------
(* Theorems about RecordAdmission, for any objects, specs and projects.    *)
EXTENDS RecordAdmission, TLAPS

-----------------------------------------------------------------------------
(* Facts about the checks.                                                 *)

\* The four directed comparisons of validateDNSRecordConflicts find every
\* clash of two records.
LEMMA ConflictsFindClashes ==
    ASSUME NEW r, NEW s, ~ Conflicts(r, s)
    PROVE  ~ Clash(r, s)
  BY DEF Conflicts, Clash, LeadsToAlias, MxOrNSTargets, SameName

\* A clash has no direction.
LEMMA ClashSymmetric ==
    ASSUME NEW r, NEW s, Clash(r, s)
    PROVE  Clash(s, r)
  BY DEF Clash, LeadsToAlias, SameName

\* Zones of one way of spelling neither of which is below the other have no
\* name in common (ValidateZoneOverlaps compares apexes only).
LEMMA ApartZones ==
    ASSUME NEW a \in DnsNames, NEW b \in DnsNames, ~ Overlaps(a, b), SameEnding(a, b),
           NEW n \in DnsNames
    PROVE  ~ (IsSubDomain(a, n) /\ IsSubDomain(b, n))
  BY NamesAssumption DEF Overlaps, IsSubDomain

\* The kinds of objects by their specs.
LEMMA SpecKinds ==
    ASSUME NEW x \in Objects, NEW c \in Contents(x)
    PROVE  /\ x \in Endpoints => c.spec \in DNSEndpointSpec
           /\ x \in Zones => c.spec \in DnsNames
           /\ References(x, c.spec) \subseteq Objects
  <1>1. c.spec \in SpecsOf(x)
    BY DEF Contents
  <1>2. CASE x \in Endpoints
    <2>1. c.spec \in DNSEndpointSpec
      BY <1>1, <1>2, SpecsAssumption DEF SpecsOf
    <2>2. c.spec.zone \in Zones
      BY <2>1 DEF DNSEndpointSpec
    <2> QED
      BY <1>2, <2>1, <2>2, KindsAssumption DEF References, Objects
  <1>3. CASE x \in Zones
    BY <1>1, <1>3, SpecsAssumption, KindsAssumption DEF SpecsOf, References
  <1>4. CASE x \in Services
    BY <1>1, <1>4, KindsAssumption DEF References
  <1>5. CASE x \in Others
    <2>1. c.spec \in OtherSpecs
      BY <1>1, <1>5, KindsAssumption DEF SpecsOf
    <2> QED
      BY <2>1, <1>5, SpecsAssumption, KindsAssumption DEF References
  <1> QED
    BY <1>2, <1>3, <1>4, <1>5 DEF Objects

-----------------------------------------------------------------------------
(* Type correctness.                                                       *)

LEMMA TypeInit == Init => TypeOK
  <1> SUFFICES ASSUME Init PROVE TypeOK
    OBVIOUS
  <1>1. IsTable(obj)
    <2>1. \A x \in DOMAIN InitialZones : x \in Objects /\ InitialZones[x] \in AnyContent
      BY InitialAssumption DEF AnyContent, Objects
    <2> QED
      BY <2>1, InitialAssumption DEF Init, IsTable
  <1>2. IsTable(req)
    BY DEF Init, IsTable
  <1> QED
    BY <1>1, <1>2, BudgetAssumption DEF Init, TypeOK

LEMMA TypeNext == TypeOK /\ [Next]_vars => TypeOK'
  <1> SUFFICES ASSUME TypeOK, [Next]_vars PROVE TypeOK'
    OBVIOUS
  <1>1. ASSUME NEW x \in Objects, NEW c \in Contents(x), Request(x, c)
        PROVE  TypeOK'
    <2>0. c \in AnyContent
      BY DEF AnyContent
    <2>1. IsTable(req')
      BY <1>1, <2>0 DEF Request, TypeOK, IsTable
    <2>2. IsTable(obj') /\ IsTable(view')
      BY <1>1 DEF Request, TypeOK
    <2>3. \A y \in Objects : req'[y] = Nothing => stale'[y] = {} /\ late'[y] = {} /\ gone'[y] = {}
      BY <1>1, NothingAssumption DEF Request, TypeOK, IsTable
    <2>4. stale' \in [Objects -> SUBSET Objects] /\ late' \in [Objects -> SUBSET Objects]
          /\ gone' \in [Objects -> SUBSET Objects]
      BY <1>1 DEF Request, TypeOK
    <2> QED
      BY <1>1, <2>1, <2>2, <2>3, <2>4, BudgetAssumption DEF Request, TypeOK, Spend
  <1>2. ASSUME NEW x \in Objects, Store(x)
        PROVE  TypeOK'
    <2>1. IsTable(req') /\ IsTable(obj')
      BY <1>2 DEF Store, TypeOK, IsTable
    <2> QED
      BY <1>2, <2>1 DEF Store, TypeOK, Missed, IsTable
  <1>3. ASSUME NEW x \in Objects, Refuse(x)
        PROVE  TypeOK'
    <2>1. IsTable(req')
      BY <1>3 DEF Refuse, TypeOK, IsTable
    <2> QED
      BY <1>3, <2>1 DEF Refuse, TypeOK, IsTable
  <1>4. ASSUME NEW x \in Objects, Delete(x)
        PROVE  TypeOK'
    <2>1. IsTable(req') /\ IsTable(obj')
      BY <1>4 DEF Delete, TypeOK, IsTable
    <2> QED
      BY <1>4, <2>1, BudgetAssumption DEF Delete, TypeOK, Missed, Spend, IsTable
  <1>5. ASSUME NEW x \in Objects, Event(x)
        PROVE  TypeOK'
    <2>1. IsTable(view')
      BY <1>5 DEF Event, TypeOK, IsTable
    <2> QED
      BY <1>5, <2>1 DEF Event, TypeOK, history, IsTable
  <1>6. ASSUME NEW p \in Projects, CreateProject(p) \/ DeleteProject(p) \/ ProjectGone(p)
        PROVE  TypeOK'
    BY <1>6, BudgetAssumption
    DEF CreateProject, DeleteProject, ProjectGone, TypeOK, Spend, history, IsTable
  <1>7. CASE UNCHANGED vars
    BY <1>7 DEF TypeOK, vars, history, IsTable
  <1> QED
    BY <1>1, <1>2, <1>3, <1>4, <1>5, <1>6, <1>7 DEF Next

\* Requests, deletions, cache and projects stay within their types, and only
\* a request under way has marks of what it missed.
THEOREM TypeCorrect == Spec => []TypeOK
  <1>1. Init => TypeOK
    BY TypeInit
  <1>2. TypeOK /\ [Next]_vars => TypeOK'
    BY TypeNext
  <1> QED
    BY <1>1, <1>2, PTL DEF Spec

-----------------------------------------------------------------------------
(* What admission establishes, and what later steps leave of it.           *)

LEMMA InvInit == Init => AdmissionInv
  <1> SUFFICES ASSUME Init PROVE AdmissionInv
    OBVIOUS
  <1>1. TypeOK
    BY TypeInit
  <1>2. \A x \in Objects : obj[x] # Nothing => x \in DOMAIN InitialZones /\ obj[x] = InitialZones[x]
    BY DEF Init
  <1>3. \A x \in Objects : obj[x] # Nothing => x \in Zones /\ x \notin Endpoints /\ x \notin Services
                                                /\ x \notin Others
    BY <1>2, InitialAssumption, KindsAssumption
  <1>4. UpdatesKeep /\ RequestsChecked
    BY DEF Init, UpdatesKeep, RequestsChecked
  <1>5. ReferencesHold
    BY <1>3 DEF ReferencesHold, References
  <1>6. RecordsClashOnlyByRace /\ HostsSharedOnlyByRace /\ RecordsLieInZone
    BY <1>3 DEF RecordsClashOnlyByRace, HostsSharedOnlyByRace, RecordsLieInZone, Objects
  <1>7. ZonesOverlapOnlyByRace
    <2> SUFFICES ASSUME NEW x \in Zones, NEW y \in Zones, x # y,
                        obj[x] # Nothing, obj[y] # Nothing,
                        NEW n \in DnsNames, IsSubDomain(obj[x].spec, n), IsSubDomain(obj[y].spec, n)
                 PROVE  FALSE
      BY DEF ZonesOverlapOnlyByRace
    <2>1. x \in DOMAIN InitialZones /\ y \in DOMAIN InitialZones
          /\ obj[x] = InitialZones[x] /\ obj[y] = InitialZones[y]
      BY <1>2 DEF Objects
    <2>2. Canonical[n] \in DnsNames
      BY NamesAssumption
    <2> QED
      BY <2>1, <2>2, InitialAssumption DEF IsSubDomain
  <1> QED
    BY <1>1, <1>4, <1>5, <1>6, <1>7 DEF AdmissionInv

\* An admitted request has been compared with everything it saw.
LEMMA RequestStep ==
    ASSUME AdmissionInv, TypeOK', NEW x \in Objects, NEW c \in Contents(x), Request(x, c)
    PROVE  AdmissionInv'
  <1>1. /\ req[x] = Nothing /\ obj[x] # c /\ Admit(x, c)
        /\ req' = [req EXCEPT ![x] = c]
        /\ stale' = [stale EXCEPT ![x] = {y \in Objects \ {x} : view[y] # obj[y]}]
        /\ UNCHANGED <<obj, view, late, gone, blind, orphans>>
    BY DEF Request
  <1>2. TypeOK
    BY DEF AdmissionInv
  <1>3. /\ DOMAIN req = Objects /\ DOMAIN stale = Objects /\ DOMAIN late = Objects
        /\ req'[x] = c /\ late'[x] = {} /\ gone'[x] = {}
        /\ \A y \in Objects : y # x => req'[y] = req[y] /\ stale'[y] = stale[y] /\ late'[y] = late[y]
        /\ \A y \in Objects \ (stale'[x] \cup {x}) : view[y] = obj[y]
    BY <1>1, <1>2 DEF TypeOK, IsTable
  <1>4. Handle(x, c)
    BY <1>1 DEF Admit
  <1>5. UpdatesKeep'
    <2>1. ASSUME obj[x] # Nothing
          PROVE  x \notin Zones /\ c.project = obj[x].project
      <3>1. c.project = obj[x].project
        BY <1>4, <2>1 DEF Handle, ValidateResource
      <3>2. ASSUME x \in Zones PROVE FALSE
        <4>1. c.spec = obj[x].spec
          BY <1>1, <2>1, <3>2 DEF Admit, ValidateZone
        <4>2. obj[x] \in Contents(x)
          BY <1>2, <2>1 DEF TypeOK, IsTable
        <4> QED
          BY <1>1, <3>1, <4>1, <4>2 DEF Contents
      <3> QED
        BY <3>1, <3>2
    <2> QED
      BY <1>1, <1>3, <2>1 DEF UpdatesKeep, AdmissionInv
  <1>6. RequestsChecked'
    <2>1. ASSUME NEW y \in Objects, y # x, req'[y] # Nothing
          PROVE  (Apart(y) /\ Resolves(y) /\ Inside(y))'
      <3>1. Apart(y) /\ Resolves(y) /\ Inside(y)
        BY <1>3, <2>1 DEF AdmissionInv, RequestsChecked
      <3>2. req'[y] = req[y] /\ stale'[y] = stale[y] /\ late'[y] = late[y] /\ gone'[y] = gone[y]
            /\ obj' = obj
        BY <1>1, <1>3, <2>1
      <3> QED
        BY <3>1, <3>2 DEF Apart, Resolves, Inside, Unseen
    <2>2. Apart(x)'
      <3> SUFFICES ASSUME NEW y \in Objects \ (stale'[x] \cup {x}), obj[y] # Nothing
                   PROVE  /\ x \in Endpoints /\ y \in Endpoints /\ Home[x] = Home[y]
                                 => ~ Clash(c.spec, obj[y].spec)
                          /\ x \in Services /\ y \in Services => ~ Duplicates(c.spec, obj[y].spec)
                          /\ x \in Zones /\ y \in Zones => ~ Overlaps(c.spec, obj[y].spec)
        BY <1>1, <1>3 DEF Apart, Unseen
      <3>1. view[y] = obj[y] /\ y # x
        BY <1>3
      <3>2. ASSUME x \in Endpoints, y \in Endpoints, Home[x] = Home[y]
            PROVE  ~ Clash(c.spec, obj[y].spec)
        <4>1. ~ Conflicts(c.spec, obj[y].spec)
          BY <1>1, <3>1, <3>2 DEF Admit, ValidateEndpoint
        <4> QED
          BY <4>1, ConflictsFindClashes
      <3> QED
        BY <1>1, <3>1, <3>2 DEF Admit, ValidateService, ValidateZone
    <2>3. Resolves(x)'
      <3>1. \A y \in References(x, c.spec) : ValidateReference(x, c, y)
        BY <1>4 DEF Handle, ValidateResource
      <3>2. References(x, c.spec) \subseteq Objects
        BY SpecKinds
      <3> QED
        BY <1>1, <1>3, <3>1, <3>2 DEF Resolves, ValidateReference, SameProject
    <2>4. Inside(x)'
      <3> SUFFICES ASSUME x \in Endpoints, c.spec.zone \notin stale'[x]
                   PROVE  IsSubDomain(obj[c.spec.zone].spec, c.spec.name)
        BY <1>1, <1>3 DEF Inside, Unseen
      <3>1. IsSubDomain(view[c.spec.zone].spec, c.spec.name)
        BY <1>1 DEF Admit, ValidateEndpoint
      <3>2. c.spec.zone \in Objects \ {x}
        <4>1. References(x, c.spec) = {c.spec.zone}
          BY DEF References
        <4>2. ValidateReference(x, c, c.spec.zone)
          BY <1>4, <4>1 DEF Handle, ValidateResource
        <4> QED
          BY <4>1, <4>2, SpecKinds DEF ValidateReference
      <3>3. view[c.spec.zone] = obj[c.spec.zone]
        BY <1>3, <3>2
      <3> QED
        BY <3>1, <3>3
    <2> QED
      BY <2>1, <2>2, <2>3, <2>4 DEF RequestsChecked
  <1>7. ReferencesHold' /\ RecordsClashOnlyByRace' /\ HostsSharedOnlyByRace'
        /\ ZonesOverlapOnlyByRace' /\ RecordsLieInZone'
    BY <1>1
    DEF AdmissionInv, ReferencesHold, RecordsClashOnlyByRace, HostsSharedOnlyByRace,
        ZonesOverlapOnlyByRace, RecordsLieInZone
  <1> QED
    BY <1>5, <1>6, <1>7 DEF AdmissionInv

\* What happens to the other requests when object x changes.
LEMMA OthersMiss ==
    ASSUME AdmissionInv, NEW x \in Objects, Missed(x),
           NEW y \in Objects, y # x, req[y] # Nothing, req'[y] = req[y],
           \A z \in Objects : z # x => obj'[z] = obj[z],
           gone[y] \subseteq gone'[y],
           x \in gone'[y] \/ (obj[x] # Nothing => obj'[x] # Nothing
                                                 /\ obj'[x].project = obj[x].project)
    PROVE  (Apart(y) /\ Resolves(y) /\ Inside(y))'
  <1>1. Apart(y) /\ Resolves(y) /\ Inside(y)
    BY DEF AdmissionInv, RequestsChecked
  <1>2. late'[y] = late[y] \cup {x} /\ stale'[y] = stale[y]
    BY DEF Missed, AdmissionInv, TypeOK
  <1>3. References(y, req[y].spec) \subseteq Objects
    BY SpecKinds DEF AdmissionInv, TypeOK, IsTable
  <1>4. Apart(y)'
    BY <1>1, <1>2 DEF Apart, Unseen
  <1>5. Resolves(y)'
    BY <1>1, <1>3 DEF Resolves
  <1>6. Inside(y)'
    <2>1. y \in Endpoints => req[y].spec.zone \in Objects
      BY <1>3 DEF References
    <2> QED
      BY <1>1, <1>2, <2>1 DEF Inside, Unseen
  <1> QED
    BY <1>4, <1>5, <1>6

\* Storing a request puts every pair it has not seen among the blind ones,
\* and the others are apart.
LEMMA StoreStep ==
    ASSUME AdmissionInv, TypeOK', NEW x \in Objects, Store(x)
    PROVE  AdmissionInv'
  <1> DEFINE c == req[x]
  <1>1. /\ c # Nothing
        /\ obj' = [obj EXCEPT ![x] = c] /\ req' = [req EXCEPT ![x] = Nothing]
        /\ blind' = {p \in blind : x \notin p} \cup {{x, y} : y \in Unseen(x)}
        /\ orphans' = {r \in orphans : r[1] # x} \cup {<<x, y>> : y \in gone[x]}
        /\ Missed(x) /\ gone' = [gone EXCEPT ![x] = {}]
    BY DEF Store, Unseen
  <1>2. TypeOK /\ c \in Contents(x)
    BY <1>1 DEF AdmissionInv, TypeOK, IsTable
  <1>3. /\ obj'[x] = c /\ req'[x] = Nothing
        /\ \A y \in Objects : y # x => obj'[y] = obj[y] /\ req'[y] = req[y]
    BY <1>1, <1>2 DEF TypeOK, IsTable
  <1>4. Apart(x) /\ Resolves(x) /\ Inside(x)
    BY <1>1 DEF AdmissionInv, RequestsChecked
  <1>5. UpdatesKeep'
    BY <1>3 DEF AdmissionInv, UpdatesKeep
  <1>6. RequestsChecked'
    <2>1. obj[x] # Nothing => obj'[x] # Nothing /\ obj'[x].project = obj[x].project
      BY <1>1, <1>3 DEF AdmissionInv, UpdatesKeep
    <2>2. \A y \in Objects : y # x => gone'[y] = gone[y]
      BY <1>1, <1>2 DEF TypeOK
    <2> QED
      BY <1>1, <1>3, <2>1, <2>2, OthersMiss DEF RequestsChecked
  <1>7. ReferencesHold'
    <2>1. ASSUME NEW y \in References(x, c.spec)
          PROVE  /\ y \in Objects \ {x} /\ Home[y] = Home[x]
                 /\ <<x, y>> \notin orphans' =>
                        obj'[y] # Nothing /\ obj'[y].project = c.project
      BY <1>1, <1>3, <1>4, <2>1 DEF Resolves
    <2>2. ASSUME NEW z \in Objects, z # x, obj[z] # Nothing, NEW y \in References(z, obj[z].spec)
          PROVE  /\ y \in Objects \ {z} /\ Home[y] = Home[z]
                 /\ <<z, y>> \notin orphans' =>
                        obj'[y] # Nothing /\ obj'[y].project = obj[z].project
      <3>1. /\ y \in Objects \ {z} /\ Home[y] = Home[z]
            /\ <<z, y>> \notin orphans =>
                   obj[y] # Nothing /\ obj[y].project = obj[z].project
        BY <2>2 DEF AdmissionInv, ReferencesHold
      <3>2. <<z, y>> \in orphans => <<z, y>> \in orphans'
        BY <1>1, <2>2
      <3>3. obj[y] # Nothing => obj'[y] # Nothing /\ obj'[y].project = obj[y].project
        BY <1>1, <1>3, <3>1 DEF AdmissionInv, UpdatesKeep
      <3> QED
        BY <3>1, <3>2, <3>3
    <2> QED
      BY <1>3, <2>1, <2>2 DEF ReferencesHold
  <1>8. \A y, z \in Objects : y # x /\ z # x /\ {y, z} \in blind => {y, z} \in blind'
    BY <1>1
  <1>9. \A y \in Unseen(x) : {x, y} \in blind' /\ {y, x} \in blind'
    <2>1. \A y : {x, y} = {y, x}
      OBVIOUS
    <2> QED
      BY <1>1, <2>1
  <1>10. RecordsClashOnlyByRace'
    <2> SUFFICES ASSUME NEW y \in Endpoints, NEW z \in Endpoints, y # z, Home[y] = Home[z],
                        obj'[y] # Nothing, obj'[z] # Nothing,
                        Clash(obj'[y].spec, obj'[z].spec)
                 PROVE  {y, z} \in blind'
      BY DEF RecordsClashOnlyByRace
    <2>1. y \in Objects /\ z \in Objects
      BY DEF Objects
    <2>2. CASE y # x /\ z # x
      <3>1. {y, z} \in blind
        BY <1>3, <2>1, <2>2 DEF AdmissionInv, RecordsClashOnlyByRace
      <3> QED
        BY <1>8, <2>1, <2>2, <3>1
    <2>3. CASE y = x
      <3>1. z \in Unseen(x)
        BY <1>3, <1>4, <2>1, <2>3 DEF Apart
      <3> QED
        BY <1>9, <2>3, <3>1
    <2>4. CASE z = x
      <3>1. Clash(c.spec, obj[y].spec)
        BY <1>3, <2>1, <2>4, ClashSymmetric
      <3>2. y \in Unseen(x)
        BY <1>3, <1>4, <2>1, <2>4, <3>1 DEF Apart
      <3> QED
        BY <1>9, <2>4, <3>2
    <2> QED
      BY <2>2, <2>3, <2>4
  <1>11. HostsSharedOnlyByRace'
    <2> SUFFICES ASSUME NEW y \in Services, NEW z \in Services, y # z,
                        obj'[y] # Nothing, obj'[z] # Nothing,
                        Duplicates(obj'[y].spec, obj'[z].spec)
                 PROVE  {y, z} \in blind'
      BY DEF HostsSharedOnlyByRace, Duplicates
    <2>1. y \in Objects /\ z \in Objects
      BY DEF Objects
    <2>2. CASE y # x /\ z # x
      <3>1. {y, z} \in blind
        BY <1>3, <2>1, <2>2 DEF AdmissionInv, HostsSharedOnlyByRace, Duplicates
      <3> QED
        BY <1>8, <2>1, <2>2, <3>1
    <2>3. CASE y = x
      <3>1. z \in Unseen(x)
        BY <1>3, <1>4, <2>1, <2>3 DEF Apart
      <3> QED
        BY <1>9, <2>3, <3>1
    <2>4. CASE z = x
      <3>1. Duplicates(c.spec, obj[y].spec)
        BY <1>3, <2>1, <2>4 DEF Duplicates
      <3>2. y \in Unseen(x)
        BY <1>3, <1>4, <2>1, <2>4, <3>1 DEF Apart
      <3> QED
        BY <1>9, <2>4, <3>2
    <2> QED
      BY <2>2, <2>3, <2>4
  <1>12. ZonesOverlapOnlyByRace'
    <2> SUFFICES ASSUME NEW y \in Zones, NEW z \in Zones, y # z,
                        obj'[y] # Nothing, obj'[z] # Nothing, NEW n \in DnsNames,
                        IsSubDomain(obj'[y].spec, n), IsSubDomain(obj'[z].spec, n),
                        SameEnding(obj'[y].spec, obj'[z].spec)
                 PROVE  {y, z} \in blind'
      BY DEF ZonesOverlapOnlyByRace
    <2>1. y \in Objects /\ z \in Objects
      BY DEF Objects
    <2>2. obj'[y].spec \in DnsNames /\ obj'[z].spec \in DnsNames
      BY <2>1, SpecKinds DEF TypeOK, IsTable
    <2>3. Overlaps(obj'[y].spec, obj'[z].spec) /\ Overlaps(obj'[z].spec, obj'[y].spec)
      BY <2>2, ApartZones DEF SameEnding
    <2>4. CASE y # x /\ z # x
      <3>1. {y, z} \in blind
        BY <1>3, <2>1, <2>4 DEF AdmissionInv, ZonesOverlapOnlyByRace
      <3> QED
        BY <1>8, <2>1, <2>4, <3>1
    <2>5. CASE y = x
      <3>1. z \in Unseen(x)
        BY <1>3, <1>4, <2>1, <2>3, <2>5 DEF Apart
      <3> QED
        BY <1>9, <2>5, <3>1
    <2>6. CASE z = x
      <3>1. y \in Unseen(x)
        BY <1>3, <1>4, <2>1, <2>3, <2>6 DEF Apart
      <3> QED
        BY <1>9, <2>6, <3>1
    <2> QED
      BY <2>4, <2>5, <2>6
  <1>13. RecordsLieInZone'
    <2> SUFFICES ASSUME NEW y \in Endpoints, NEW z, z = obj'[y].spec.zone,
                        obj'[y] # Nothing, obj'[z] # Nothing,
                        <<y, z>> \notin orphans', {y, z} \notin blind'
                 PROVE  IsSubDomain(obj'[z].spec, obj'[y].spec.name)
      BY DEF RecordsLieInZone
    <2>1. y \in Objects /\ z \in References(y, obj'[y].spec)
      BY DEF Objects, References
    <2>2. CASE y = x
      <3>1. z \notin Unseen(x)
        BY <1>9, <2>2
      <3>2. z \in Objects /\ z # x
        BY <1>3, <1>4, <2>1, <2>2 DEF Resolves
      <3> QED
        BY <1>3, <1>4, <2>2, <3>1, <3>2 DEF Inside
    <2>3. CASE y # x
      <3>1. /\ z \in Objects \ {y}
            /\ <<y, z>> \notin orphans => obj[z] # Nothing
        BY <1>3, <2>1, <2>3 DEF AdmissionInv, ReferencesHold
      <3>2. <<y, z>> \notin orphans
        BY <1>1, <2>3
      <3>3. z # x
        <4>1. z \in Zones
          <5>1. obj'[y] \in Contents(y)
            BY <2>1 DEF TypeOK, IsTable
          <5>2. obj'[y].spec \in DNSEndpointSpec
            BY <2>1, <5>1, SpecKinds
          <5> QED
            BY <5>2 DEF DNSEndpointSpec
        <4> QED
          BY <1>1, <3>1, <3>2, <4>1 DEF AdmissionInv, UpdatesKeep
      <3>4. {y, z} \notin blind
        BY <1>8, <2>1, <2>3, <3>1, <3>3
      <3> QED
        BY <1>3, <2>1, <2>3, <3>1, <3>2, <3>3, <3>4 DEF AdmissionInv, RecordsLieInZone
    <2> QED
      BY <2>2, <2>3
  <1> QED
    BY <1>5, <1>6, <1>7, <1>10, <1>11, <1>12, <1>13 DEF AdmissionInv

LEMMA RefuseStep ==
    ASSUME AdmissionInv, TypeOK', NEW x \in Objects, Refuse(x)
    PROVE  AdmissionInv'
  <1>1. /\ req' = [req EXCEPT ![x] = Nothing]
        /\ stale' = [stale EXCEPT ![x] = {}] /\ late' = [late EXCEPT ![x] = {}]
        /\ gone' = [gone EXCEPT ![x] = {}]
        /\ UNCHANGED <<obj, blind, orphans>>
    BY DEF Refuse
  <1>2. /\ req'[x] = Nothing
        /\ \A y \in Objects : y # x => /\ req'[y] = req[y] /\ stale'[y] = stale[y]
                                      /\ late'[y] = late[y] /\ gone'[y] = gone[y]
    BY <1>1 DEF AdmissionInv, TypeOK, IsTable
  <1>3. UpdatesKeep'
    BY <1>1, <1>2 DEF AdmissionInv, UpdatesKeep
  <1>4. RequestsChecked'
    <2> SUFFICES ASSUME NEW y \in Objects, req'[y] # Nothing
                 PROVE  (Apart(y) /\ Resolves(y) /\ Inside(y))'
      BY DEF RequestsChecked
    <2>1. /\ y # x /\ req'[y] = req[y] /\ stale'[y] = stale[y]
          /\ late'[y] = late[y] /\ gone'[y] = gone[y]
      BY <1>2
    <2>2. Apart(y) /\ Resolves(y) /\ Inside(y)
      BY <2>1 DEF AdmissionInv, RequestsChecked
    <2> QED
      BY <1>1, <2>1, <2>2 DEF Apart, Resolves, Inside, Unseen
  <1> QED
    BY <1>1, <1>3, <1>4
    DEF AdmissionInv, ReferencesHold, RecordsClashOnlyByRace, HostsSharedOnlyByRace,
        ZonesOverlapOnlyByRace, RecordsLieInZone

\* A deletion orphans the references to the object and clashes with nothing.
LEMMA DeleteStep ==
    ASSUME AdmissionInv, TypeOK', NEW x \in Objects, Delete(x)
    PROVE  AdmissionInv'
  <1>1. /\ obj[x] # Nothing
        /\ obj' = [obj EXCEPT ![x] = Nothing] /\ req' = [req EXCEPT ![x] = Nothing]
        /\ orphans' = {r \in orphans : r[1] # x} \cup
                      {<<y, x>> : y \in {z \in Objects \ {x} :
                                            obj[z] # Nothing /\ x \in References(z, obj[z].spec)}}
        /\ blind' = {p \in blind : x \notin p}
        /\ Missed(x)
        /\ gone' = [y \in Objects |-> IF y = x \/ req[y] = Nothing THEN {} ELSE gone[y] \cup {x}]
    BY DEF Delete
  <1>2. /\ obj'[x] = Nothing /\ req'[x] = Nothing
        /\ \A y \in Objects : y # x => obj'[y] = obj[y] /\ req'[y] = req[y]
    BY <1>1 DEF AdmissionInv, TypeOK, IsTable
  <1>3. UpdatesKeep'
    BY <1>2 DEF AdmissionInv, UpdatesKeep
  <1>4. RequestsChecked'
    BY <1>1, <1>2, OthersMiss DEF RequestsChecked
  <1>5. \A y, z \in Objects : y # x /\ z # x /\ {y, z} \in blind => {y, z} \in blind'
    BY <1>1
  <1>6. ReferencesHold'
    <2> SUFFICES ASSUME NEW z \in Objects, obj'[z] # Nothing, NEW y \in References(z, obj'[z].spec)
                 PROVE  /\ y \in Objects \ {z} /\ Home[y] = Home[z]
                        /\ <<z, y>> \notin orphans' =>
                               obj'[y] # Nothing /\ obj'[y].project = obj'[z].project
      BY DEF ReferencesHold
    <2>1. z # x /\ obj'[z] = obj[z]
      BY <1>2
    <2>2. /\ y \in Objects \ {z} /\ Home[y] = Home[z]
          /\ <<z, y>> \notin orphans =>
                 obj[y] # Nothing /\ obj[y].project = obj[z].project
      BY <2>1 DEF AdmissionInv, ReferencesHold
    <2>3. y = x => <<z, y>> \in orphans'
      BY <1>1, <2>1
    <2>4. <<z, y>> \in orphans => <<z, y>> \in orphans'
      BY <1>1, <2>1
    <2> QED
      BY <1>2, <2>1, <2>2, <2>3, <2>4
  <1>7. RecordsClashOnlyByRace' /\ HostsSharedOnlyByRace' /\ ZonesOverlapOnlyByRace'
    <2>1. Endpoints \cup Services \cup Zones \subseteq Objects
      BY DEF Objects
    <2>2. RecordsClashOnlyByRace'
      BY <1>2, <1>5, <2>1 DEF AdmissionInv, RecordsClashOnlyByRace
    <2>3. HostsSharedOnlyByRace'
      BY <1>2, <1>5, <2>1 DEF AdmissionInv, HostsSharedOnlyByRace
    <2>4. ZonesOverlapOnlyByRace'
      BY <1>2, <1>5, <2>1 DEF AdmissionInv, ZonesOverlapOnlyByRace
    <2> QED
      BY <2>2, <2>3, <2>4
  <1>8. RecordsLieInZone'
    <2> SUFFICES ASSUME NEW y \in Endpoints, NEW z, z = obj'[y].spec.zone,
                        obj'[y] # Nothing, obj'[z] # Nothing,
                        <<y, z>> \notin orphans', {y, z} \notin blind'
                 PROVE  IsSubDomain(obj'[z].spec, obj'[y].spec.name)
      BY DEF RecordsLieInZone
    <2>1. y \in Objects /\ z \in References(y, obj'[y].spec)
      BY DEF Objects, References
    <2>2. y # x /\ obj'[y] = obj[y]
      BY <1>2, <2>1
    <2>3. z \in Objects
      BY <2>1, <2>2 DEF AdmissionInv, ReferencesHold
    <2>4. z # x /\ obj'[z] = obj[z]
      BY <1>2, <2>3
    <2>5. <<y, z>> \notin orphans /\ {y, z} \notin blind
      BY <1>1, <1>5, <2>1, <2>2, <2>3, <2>4
    <2> QED
      BY <2>2, <2>4, <2>5 DEF AdmissionInv, RecordsLieInZone
  <1> QED
    BY <1>3, <1>4, <1>6, <1>7, <1>8 DEF AdmissionInv

\* The cache and the projects do not matter to what is stored or admitted.
LEMMA QuietStep ==
    ASSUME AdmissionInv, TypeOK', UNCHANGED <<obj, req, stale, late, gone, blind, orphans>>
    PROVE  AdmissionInv'
  <1>1. UpdatesKeep' /\ RequestsChecked'
    BY DEF AdmissionInv, UpdatesKeep, RequestsChecked, Apart, Resolves, Inside, Unseen
  <1>2. ReferencesHold' /\ RecordsClashOnlyByRace' /\ HostsSharedOnlyByRace'
        /\ ZonesOverlapOnlyByRace' /\ RecordsLieInZone'
    BY DEF AdmissionInv, ReferencesHold, RecordsClashOnlyByRace, HostsSharedOnlyByRace,
           ZonesOverlapOnlyByRace, RecordsLieInZone
  <1> QED
    BY <1>1, <1>2 DEF AdmissionInv

LEMMA InvNext == AdmissionInv /\ [Next]_vars => AdmissionInv'
  <1> SUFFICES ASSUME AdmissionInv, [Next]_vars PROVE AdmissionInv'
    OBVIOUS
  <1>1. TypeOK'
    BY TypeNext DEF AdmissionInv
  <1>2. ASSUME NEW x \in Objects, NEW c \in Contents(x), Request(x, c)
        PROVE  AdmissionInv'
    BY <1>1, <1>2, RequestStep
  <1>3. ASSUME NEW x \in Objects, Store(x)
        PROVE  AdmissionInv'
    BY <1>1, <1>3, StoreStep
  <1>4. ASSUME NEW x \in Objects, Refuse(x)
        PROVE  AdmissionInv'
    BY <1>1, <1>4, RefuseStep
  <1>5. ASSUME NEW x \in Objects, Delete(x)
        PROVE  AdmissionInv'
    BY <1>1, <1>5, DeleteStep
  <1>6. ASSUME NEW x \in Objects, Event(x)
        PROVE  AdmissionInv'
    BY <1>1, <1>6, QuietStep DEF Event, history
  <1>7. ASSUME NEW p \in Projects, CreateProject(p) \/ DeleteProject(p) \/ ProjectGone(p)
        PROVE  AdmissionInv'
    BY <1>1, <1>7, QuietStep DEF CreateProject, DeleteProject, ProjectGone, history
  <1>8. CASE UNCHANGED vars
    BY <1>1, <1>8, QuietStep DEF vars, history
  <1> QED
    BY <1>2, <1>3, <1>4, <1>5, <1>6, <1>7, <1>8 DEF Next

LEMMA InvHolds == Spec => []AdmissionInv
  <1>1. Init => AdmissionInv
    BY InvInit
  <1>2. AdmissionInv /\ [Next]_vars => AdmissionInv'
    BY InvNext
  <1> QED
    BY <1>1, <1>2, PTL DEF Spec

\* validateDNSRecordConflicts, validateSpec: whatever the order, the spelling
\* and the zones, two records of a namespace clash only if the later one was
\* admitted before it could see the earlier one.
THEOREM RecordsApart == Spec => []RecordsClashOnlyByRace
  <1>1. AdmissionInv => RecordsClashOnlyByRace
    BY DEF AdmissionInv
  <1> QED
    BY <1>1, InvHolds, PTL

\* ValidateService: the same of domains and of aliases.
THEOREM HostsApart == Spec => []HostsSharedOnlyByRace
  <1>1. AdmissionInv => HostsSharedOnlyByRace
    BY DEF AdmissionInv
  <1> QED
    BY <1>1, InvHolds, PTL

\* ValidateZoneOverlaps: comparing apexes keeps all names of two zones apart,
\* but for zones admitted blind to each other and for a pair of which one is
\* spelled with the final dot and the other without it.
THEOREM ZonesApart == Spec => []ZonesOverlapOnlyByRace
  <1>1. AdmissionInv => ZonesOverlapOnlyByRace
    BY DEF AdmissionInv
  <1> QED
    BY <1>1, InvHolds, PTL

\* ValidateResource: a reference leaves its project only by way of a target
\* that was deleted after the check, under the stored reference or between
\* its admission and its storing.
THEOREM ReferencesInProject == Spec => []ReferencesStayInProject
  <1>1. AdmissionInv => ReferencesStayInProject
    BY DEF AdmissionInv, ReferencesHold, ReferencesStayInProject
  <1> QED
    BY <1>1, InvHolds, PTL

\* validateSpec: a record lies in its zone, but for one whose zone was deleted
\* after the check and its name taken again, and one that was admitted when
\* the cache showed another zone than was stored.
THEOREM RecordsInside == Spec => []RecordsLieInZone
  <1>1. AdmissionInv => RecordsLieInZone
    BY DEF AdmissionInv
  <1> QED
    BY <1>1, InvHolds, PTL
=============================================================================
