------------------------ MODULE Consolidation_proofs ------------------------
(***************************************************************************)
(* Proofs about Consolidation, for every address width and every input.    *)
(***************************************************************************)
EXTENDS Consolidation, TLAPS, WellFoundedInduction

\* A network made by cutting an address is a prefix, of the length asked for,
\* and contains what agrees with the address on that many bits.
LEMMA NetworkFacts ==
    ASSUME NEW a \in Address, NEW len \in 0 .. Width
    PROVE  /\ Network(a, len) \in Prefix
           /\ Network(a, len).size = len
           /\ \A b \in Address : Contains(Network(a, len), b) => SameNetwork(a, b, len)
<1>1. [i \in Bits |-> IF i <= len THEN a[i] ELSE 0] \in Address
  BY WidthAssumption DEF Address, Bits
<1>2. \A i \in 1 .. len : Network(a, len).addr[i] = a[i]
  BY WidthAssumption DEF Network, Bits
<1> QED
  BY <1>1, <1>2 DEF Network, Prefix, Contains, SameNetwork

\* What ConsolidateV4 and ConsolidateV6 add to the list is a network whose
\* addresses are all in one of its two halves, which the list has.
LEMMA JoinedFacts ==
    ASSUME prefixes \subseteq Prefix, NEW len \in 1 .. Width - 1, NEW n \in Joined(len)
    PROVE  /\ n \in Prefix
           /\ \A a \in Address : Contains(n, a) => Covers(prefixes, a)
<1>1. PICK q \in prefixes :
          /\ n = Network(q.addr, len)
          /\ q.size = len + 1
          /\ \E r \in prefixes : /\ r.size = len + 1
                                 /\ SameNetwork(q.addr, r.addr, len)
                                 /\ ~ SameNetwork(q.addr, r.addr, len + 1)
  BY DEF Joined
<1>2. PICK r \in prefixes : /\ r.size = len + 1
                            /\ SameNetwork(q.addr, r.addr, len)
                            /\ ~ SameNetwork(q.addr, r.addr, len + 1)
  BY <1>1
<1>3. q.addr \in Address /\ r.addr \in Address /\ len \in 0 .. Width /\ len + 1 \in Bits
  BY WidthAssumption DEF Prefix, Bits
<1>4. q.addr[len + 1] # r.addr[len + 1]
  <2>1. PICK i \in 1 .. len + 1 : q.addr[i] # r.addr[i]
    BY <1>2 DEF SameNetwork
  <2>2. i \notin 1 .. len
    BY <1>2, <2>1 DEF SameNetwork
  <2> QED
    BY <2>1, <2>2
<1>5. n \in Prefix
  BY <1>1, <1>3, NetworkFacts
<1>6. ASSUME NEW a \in Address, Contains(n, a) PROVE Covers(prefixes, a)
  <2>1. \A i \in 1 .. len : q.addr[i] = a[i] /\ r.addr[i] = a[i]
    BY <1>1, <1>2, <1>3, <1>6, NetworkFacts DEF SameNetwork
  <2>2. a[len + 1] = q.addr[len + 1] \/ a[len + 1] = r.addr[len + 1]
    BY <1>3, <1>4 DEF Address
  <2>3. CASE a[len + 1] = q.addr[len + 1]
    <3>1. \A i \in 1 .. len + 1 : q.addr[i] = a[i]
      BY <2>1, <2>3
    <3> QED
      BY <3>1, <1>1 DEF Covers, Contains, SameNetwork
  <2>4. CASE a[len + 1] = r.addr[len + 1]
    <3>1. \A i \in 1 .. len + 1 : r.addr[i] = a[i]
      BY <2>1, <2>4
    <3> QED
      BY <3>1, <1>2 DEF Covers, Contains, SameNetwork
  <2> QED
    BY <2>2, <2>3, <2>4
<1> QED
  BY <1>5, <1>6

\* Among the prefixes that contain an address there is a shortest one.
LEMMA ShortestCover ==
    ASSUME prefixes \subseteq Prefix, NEW a \in Address, Covers(prefixes, a)
    PROVE  \E p \in prefixes : /\ Contains(p, a)
                               /\ \A q \in prefixes : Contains(q, a) => ~ (q.size < p.size)
<1> DEFINE Sizes == {p.size : p \in {q \in prefixes : Contains(q, a)}}
<1>1. Sizes \subseteq Nat /\ Sizes # {}
  BY WidthAssumption DEF Prefix, Covers
<1>2. PICK m \in Sizes : \A k \in Sizes : ~ (<<k, m>> \in OpToRel(<, Nat))
  BY <1>1, NatLessThanWellFounded, WFMin
<1>3. \A k \in Sizes : ~ (k < m)
  BY <1>1, <1>2 DEF OpToRel
<1>4. PICK p \in prefixes : Contains(p, a) /\ p.size = m
  OBVIOUS
<1>5. ASSUME NEW q \in prefixes, Contains(q, a) PROVE ~ (q.size < p.size)
  BY <1>3, <1>4, <1>5
<1> QED
  BY <1>4, <1>5

\* Dropping the prefixes inside shorter ones loses no address: the shortest
\* prefix around an address is kept.
LEMMA KeptCovers ==
    ASSUME prefixes \subseteq Prefix, NEW a \in Address, Covers(prefixes, a)
    PROVE  Covers({p \in prefixes : ~ ToBeDeleted(p)}, a)
<1>1. PICK p \in prefixes : /\ Contains(p, a)
                            /\ \A q \in prefixes : Contains(q, a) => ~ (q.size < p.size)
  BY ShortestCover
<1>2. ~ ToBeDeleted(p)
  <2>1. ASSUME NEW q \in prefixes, q.size < p.size, Contains(q, p.addr) PROVE FALSE
    <3>1. q.size \in Nat /\ p.size \in Nat
      BY WidthAssumption DEF Prefix
    <3>2. \A i \in 1 .. q.size : i \in 1 .. p.size
      BY <3>1, <2>1
    <3>3. \A i \in 1 .. q.size : q.addr[i] = a[i]
      BY <3>2, <1>1, <2>1 DEF Contains, SameNetwork
    <3>4. Contains(q, a)
      BY <3>3 DEF Contains, SameNetwork
    <3> QED
      BY <3>4, <1>1, <2>1
  <2> QED
    BY <2>1 DEF ToBeDeleted
<1> QED
  BY <1>1, <1>2 DEF Covers

\* The working list is always a list of prefixes and the loop variable stays
\* in the range of the first loop.
THEOREM TypeCorrect == Spec => []TypeOK
<1>1. Init => TypeOK
  BY InputsAssumption, WidthAssumption DEF Init, TypeOK
<1>2. TypeOK /\ [Next]_vars => TypeOK'
  <2> SUFFICES ASSUME TypeOK, [Next]_vars PROVE TypeOK'
    OBVIOUS
  <2>1. CASE Merge
    <3>1. Joined(prefixlen) \subseteq Prefix
      BY JoinedFacts DEF TypeOK
    <3> QED
      BY <2>1, <3>1, WidthAssumption DEF Merge, TypeOK
  <2>2. CASE Keep
    BY <2>2 DEF Keep, TypeOK
  <2>3. CASE UNCHANGED vars
    BY <2>3 DEF vars, TypeOK
  <2> QED
    BY <2>1, <2>2, <2>3 DEF Next
<1> QED
  BY <1>1, <1>2, PTL DEF Spec

\* Consolidation neither adds nor loses an address.
THEOREM CoverageIsKept == Spec => []CoverageKept
<1>1. Init => CoverageKept
  BY DEF Init, CoverageKept
<1>2. TypeOK /\ CoverageKept /\ [Next]_vars => CoverageKept'
  <2> SUFFICES ASSUME TypeOK, CoverageKept, [Next]_vars,
                      NEW a \in Address
               PROVE  Covers(prefixes', a) <=> Covers(input', a)
    BY DEF CoverageKept, Covers, Contains, SameNetwork
  <2>1. CASE Merge
    <3>1. ASSUME NEW n \in Joined(prefixlen), Contains(n, a) PROVE Covers(prefixes, a)
      BY <3>1, JoinedFacts DEF TypeOK
    <3>2. Covers(prefixes', a) <=> Covers(prefixes, a)
      BY <2>1, <3>1 DEF Merge, Covers
    <3> QED
      BY <2>1, <3>2 DEF Merge, CoverageKept
  <2>2. CASE Keep
    <3>1. Covers(prefixes, a) => Covers(prefixes', a)
      BY <2>2, KeptCovers DEF Keep, TypeOK
    <3>2. Covers(prefixes', a) => Covers(prefixes, a)
      BY <2>2 DEF Keep, Covers
    <3> QED
      BY <2>2, <3>1, <3>2 DEF Keep, CoverageKept
  <2>3. CASE UNCHANGED vars
    BY <2>3 DEF vars, CoverageKept
  <2> QED
    BY <2>1, <2>2, <2>3 DEF Next
<1> QED
  BY <1>1, <1>2, TypeCorrect, PTL DEF Spec

-----------------------------------------------------------------------------
(* The result is the reference.                                            *)

\* A prefix contains what a network inside it contains.
LEMMA ContainsTransitive ==
    ASSUME NEW p \in Prefix, NEW q \in Prefix, NEW a \in Address,
           p.size <= q.size, Contains(p, q.addr), Contains(q, a)
    PROVE  Contains(p, a)
<1>1. p.size \in Nat /\ q.size \in Nat  BY WidthAssumption DEF Prefix
<1>2. \A i \in 1 .. p.size : i \in 1 .. q.size  BY <1>1
<1> QED BY <1>2 DEF Contains, SameNetwork

\* Prefixes around the same address, of which the first is not longer, lie
\* inside one another.
LEMMA ContainsNested ==
    ASSUME NEW p \in Prefix, NEW q \in Prefix, NEW a \in Address,
           p.size <= q.size, Contains(p, a), Contains(q, a)
    PROVE  Contains(p, q.addr)
<1>1. p.size \in Nat /\ q.size \in Nat  BY WidthAssumption DEF Prefix
<1>2. \A i \in 1 .. p.size : i \in 1 .. q.size  BY <1>1
<1> QED BY <1>2 DEF Contains, SameNetwork

\* The network of a prefix contains the same addresses.
LEMMA NetworkOfPrefix ==
    ASSUME NEW p \in Prefix
    PROVE  /\ Network(p.addr, p.size) \in Prefix
           /\ Network(p.addr, p.size).size = p.size
           /\ \A a \in Address : Contains(Network(p.addr, p.size), a) <=> Contains(p, a)
           /\ Contains(Network(p.addr, p.size), p.addr)
           /\ Contains(p, Network(p.addr, p.size).addr)
<1>1. p.addr \in Address /\ p.size \in 0 .. Width  BY DEF Prefix
<1>2. Network(p.addr, p.size) \in Prefix /\ Network(p.addr, p.size).size = p.size
  BY <1>1, NetworkFacts
<1>3. \A i \in 1 .. p.size : Network(p.addr, p.size).addr[i] = p.addr[i]
  BY <1>1, WidthAssumption DEF Network, Bits
<1> QED BY <1>1, <1>2, <1>3 DEF Contains, SameNetwork

\* Equal bits up to the length give the same network.
LEMMA NetworkCut ==
    ASSUME NEW a \in Address, NEW b \in Address, NEW len \in 0 .. Width, SameNetwork(a, b, len)
    PROVE  Network(a, len) = Network(b, len)
<1>1. \A i \in Bits : (IF i <= len THEN a[i] ELSE 0) = (IF i <= len THEN b[i] ELSE 0)
  BY WidthAssumption DEF SameNetwork, Bits
<1>2. [i \in Bits |-> IF i <= len THEN a[i] ELSE 0] = [i \in Bits |-> IF i <= len THEN b[i] ELSE 0]
  BY <1>1
<1> QED BY <1>2 DEF Network

\* The candidates are networks, and cutting one changes nothing.
LEMMA CandidateFacts ==
    ASSUME input \subseteq Prefix, NEW n \in Candidates
    PROVE  n \in Prefix /\ Network(n.addr, n.size) = n
<1>1. PICK a \in Address, len \in 0 .. Width : n = Network(a, len)
  <2>1. CASE n \in {Network(p.addr, p.size) : p \in input}
    BY <2>1 DEF Prefix
  <2>2. CASE n \in {Network(a, len) : a \in Address, len \in 2 .. Width}
    BY <2>2, WidthAssumption
  <2> QED BY <2>1, <2>2 DEF Candidates
<1>2. n \in Prefix /\ n.size = len  BY <1>1, NetworkFacts
<1>3. SameNetwork(n.addr, a, len)
  BY <1>1, WidthAssumption DEF Network, SameNetwork, Bits
<1>4. n.addr \in Address  BY <1>2 DEF Prefix
<1> QED BY <1>1, <1>2, <1>3, <1>4, NetworkCut

\* A fully covered network, one bit shorter than those already found, is
\* found by the turn of the loop: each of its halves lies in a prefix of the
\* list, and either one of these is large enough or the two are joined.
LEMMA HalvesJoin ==
    ASSUME prefixes \subseteq Prefix, NEW len \in 1 .. Width - 1, NEW n \in Prefix, n.size = len,
           \A h \in Prefix : h.size = len + 1 /\ Contains(n, h.addr) =>
               \E p \in prefixes : p.size <= len + 1 /\ Contains(p, h.addr)
    PROVE  \E p \in prefixes \cup Joined(len) : p.size <= len /\ Contains(p, n.addr)
<1> DEFINE half(b) == [addr |-> [n.addr EXCEPT ![len + 1] = b], size |-> len + 1]
<1>1. len \in Nat /\ len + 1 \in Bits /\ n.addr \in Address /\ len \in 0 .. Width
  BY WidthAssumption DEF Bits, Prefix
<1>2. \A b \in {0, 1} : /\ half(b) \in Prefix /\ half(b).size = len + 1
                        /\ half(b).addr \in Address
                        /\ half(b).addr[len + 1] = b
                        /\ \A i \in 1 .. len : half(b).addr[i] = n.addr[i]
  BY <1>1, WidthAssumption DEF Prefix, Address, Bits
<1> HIDE DEF half
<1>3. \A b \in {0, 1} : Contains(n, half(b).addr)
  BY <1>2 DEF Contains, SameNetwork
<1>4. PICK p \in prefixes : p.size <= len + 1 /\ Contains(p, half(0).addr)  BY <1>2, <1>3
<1>5. PICK q \in prefixes : q.size <= len + 1 /\ Contains(q, half(1).addr)  BY <1>2, <1>3
<1>6. p.size \in 0 .. Width /\ q.size \in 0 .. Width /\ p.addr \in Address /\ q.addr \in Address
  BY DEF Prefix
<1>7. CASE p.size <= len
  <2>1. \A i \in 1 .. p.size : i \in 1 .. len  BY <1>1, <1>6, <1>7
  <2>2. Contains(p, n.addr)  BY <1>2, <1>4, <2>1 DEF Contains, SameNetwork
  <2> QED BY <1>7, <2>2
<1>8. CASE q.size <= len
  <2>1. \A i \in 1 .. q.size : i \in 1 .. len  BY <1>1, <1>6, <1>8
  <2>2. Contains(q, n.addr)  BY <1>2, <1>5, <2>1 DEF Contains, SameNetwork
  <2> QED BY <1>8, <2>2
<1>9. CASE p.size = len + 1 /\ q.size = len + 1
  <2>1. \A i \in 1 .. len : i \in 1 .. len + 1  BY <1>1
  <2>2. len + 1 \in 1 .. len + 1  BY <1>1
  <2>3. \A i \in 1 .. len : p.addr[i] = n.addr[i] /\ q.addr[i] = n.addr[i]
    BY <1>2, <1>4, <1>5, <1>9, <2>1 DEF Contains, SameNetwork
  <2>4. p.addr[len + 1] = 0 /\ q.addr[len + 1] = 1
    BY <1>2, <1>4, <1>5, <1>9, <2>2 DEF Contains, SameNetwork
  <2>5. SameNetwork(p.addr, q.addr, len) /\ ~ SameNetwork(p.addr, q.addr, len + 1)
    BY <2>2, <2>3, <2>4 DEF SameNetwork
  <2>6. Network(p.addr, len) \in Joined(len)  BY <1>9, <2>5 DEF Joined
  <2>7. Network(p.addr, len).size = len  BY <1>1, <1>6, NetworkFacts
  <2>8. \A i \in 1 .. len : Network(p.addr, len).addr[i] = p.addr[i]
    BY <1>1, <1>6, WidthAssumption DEF Network, Bits
  <2>9. Contains(Network(p.addr, len), n.addr)
    BY <2>3, <2>7, <2>8 DEF Contains, SameNetwork
  <2> QED BY <2>6, <2>7, <2>9, <1>1
<1> QED BY <1>1, <1>4, <1>5, <1>6, <1>7, <1>8, <1>9

\* The reference depends on the input alone.
LEMMA CandidatesFixed ==
    ASSUME input' = input
    PROVE  Candidates' = Candidates
BY DEF Candidates, FullyCovered, Covers, Contains, SameNetwork, Network, Address, Bits

\* Before the first turn: a network of full length is one address, and what
\* covers the address contains the network.
LEMMA LoopInit == Init => LoopInv
<1> SUFFICES ASSUME Init PROVE LoopInv  OBVIOUS
<1>1. TypeOK  BY InputsAssumption, WidthAssumption DEF Init, TypeOK
<1>2. CoverageKept  BY DEF Init, CoverageKept
<1>3. FoundSoFar
  <2>1. SUFFICES ASSUME NEW n \in Prefix, prefixlen < n.size, FullyCovered(n)
                 PROVE  \E p \in prefixes : p.size <= n.size /\ Contains(p, n.addr)
    BY DEF FoundSoFar
  <2>2. n.size = Width /\ n.addr \in Address
    BY <2>1, WidthAssumption DEF Init, Prefix
  <2>3. Contains(n, n.addr)  BY DEF Contains, SameNetwork
  <2>4. PICK p \in input : Contains(p, n.addr)  BY <2>1, <2>2, <2>3 DEF FullyCovered, Covers
  <2>5. p \in prefixes /\ p.size <= n.size
    BY <2>2, <2>4, <1>1, WidthAssumption DEF Init, TypeOK, Prefix
  <2> QED BY <2>4, <2>5
<1>4. CandidatesOnly  BY DEF Init, CandidatesOnly, Candidates
<1> QED BY <1>1, <1>2, <1>3, <1>4 DEF LoopInv

LEMMA LoopMerge ==
    ASSUME LoopInv, Merge
    PROVE  FoundSoFar' /\ CandidatesOnly'
<1>1. /\ prefixes \subseteq Prefix /\ input \subseteq Prefix
      /\ prefixlen \in 2 .. Width - 1 /\ prefixlen \in 1 .. Width - 1
      /\ prefixes' = prefixes \cup Joined(prefixlen) /\ prefixlen' = prefixlen - 1
      /\ input' = input /\ pc = "merge"
  BY DEF LoopInv, TypeOK, Merge
<1>2. \A n : FullyCovered(n)' <=> FullyCovered(n)
  BY <1>1 DEF FullyCovered, Covers, Contains, SameNetwork
<1>3. Candidates' = Candidates  BY <1>1, CandidatesFixed
<1>4. FoundSoFar'
  <2>1. SUFFICES ASSUME NEW n \in Prefix, prefixlen - 1 < n.size, FullyCovered(n)
                 PROVE  \E p \in prefixes' : p.size <= n.size /\ Contains(p, n.addr)
    BY <1>1, <1>2 DEF FoundSoFar, Contains, SameNetwork, Prefix, Address, Bits
  <2>2. n.size \in 0 .. Width  BY DEF Prefix
  <2>3. CASE prefixlen < n.size
    BY <1>1, <2>1, <2>3 DEF LoopInv, FoundSoFar
  <2>4. CASE n.size = prefixlen
    <3>1. ASSUME NEW h \in Prefix, h.size = prefixlen + 1, Contains(n, h.addr)
          PROVE  \E p \in prefixes : p.size <= prefixlen + 1 /\ Contains(p, h.addr)
      <4>1. n.size <= h.size /\ prefixlen < h.size  BY <1>1, <2>4, <3>1
      <4>2. FullyCovered(h)
        BY <2>1, <3>1, <4>1, ContainsTransitive DEF FullyCovered
      <4> QED BY <1>1, <3>1, <4>1, <4>2 DEF LoopInv, FoundSoFar
    <3> QED BY <1>1, <2>4, <3>1, HalvesJoin
  <2> QED BY <1>1, <2>1, <2>2, <2>3, <2>4
<1>5. CandidatesOnly'
  <2>1. SUFFICES ASSUME NEW p \in Joined(prefixlen) PROVE Network(p.addr, p.size) \in Candidates
    BY <1>1, <1>3 DEF LoopInv, CandidatesOnly, Network, Bits
  <2>2. p \in Prefix /\ \A a \in Address : Contains(p, a) => Covers(prefixes, a)
    BY <1>1, <2>1, JoinedFacts
  <2>3. \A a \in Address : Contains(p, a) => Covers(input, a)
    BY <2>2 DEF LoopInv, CoverageKept
  <2>4. FullyCovered(Network(p.addr, p.size))
    BY <2>2, <2>3, NetworkOfPrefix DEF FullyCovered
  <2>5. p.size = prefixlen
    <3>1. PICK q \in prefixes : p = Network(q.addr, prefixlen)  BY <2>1 DEF Joined
    <3> QED BY <3>1 DEF Network
  <2>6. p.addr \in Address /\ p.size \in 2 .. Width
    BY <1>1, <2>2, <2>5, WidthAssumption DEF Prefix
  <2> QED BY <2>4, <2>6 DEF Candidates
<1> QED BY <1>4, <1>5

\* At the end of the loop every candidate lies in a prefix of the list.
LEMMA CandidatesFound ==
    ASSUME LoopInv, pc = "merge", prefixlen <= 1, NEW n \in Candidates
    PROVE  \E p \in prefixes : p.size <= n.size /\ Contains(p, n.addr)
<1>1. input \subseteq Prefix /\ prefixlen \in 1 .. Width - 1  BY DEF LoopInv, TypeOK
<1>2. n \in Prefix  BY <1>1, CandidateFacts
<1>3. CASE n \in {Network(p.addr, p.size) : p \in input}
  <2>1. PICK p \in input : n = Network(p.addr, p.size)  BY <1>3
  <2>2. n.size = p.size /\ Contains(p, n.addr) /\ p \in Prefix  BY <1>1, <2>1, NetworkOfPrefix
  <2>3. p \in prefixes  BY <2>1 DEF LoopInv, CandidatesOnly
  <2>4. p.size <= n.size  BY <2>2, WidthAssumption DEF Prefix
  <2> QED BY <2>2, <2>3, <2>4
<1>4. ASSUME NEW a \in Address, NEW len \in 2 .. Width, n = Network(a, len), FullyCovered(n)
      PROVE  \E p \in prefixes : p.size <= n.size /\ Contains(p, n.addr)
  <2>1. n.size = len  BY <1>4 DEF Network
  <2>2. prefixlen < n.size  BY <1>1, <2>1, WidthAssumption
  <2> QED BY <1>2, <1>4, <2>2 DEF LoopInv, FoundSoFar
<1> QED BY <1>3, <1>4 DEF Candidates

\* What is kept are the largest candidates, and all of them.
LEMMA KeptAreLargest ==
    ASSUME LoopInv, pc = "merge", prefixlen <= 1
    PROVE  {Network(p.addr, p.size) : p \in {q \in prefixes : ~ ToBeDeleted(q)}}
             = {n \in Candidates : \A m \in Candidates : m.size < n.size => ~ Contains(m, n.addr)}
<1>1. input \subseteq Prefix /\ prefixes \subseteq Prefix  BY DEF LoopInv, TypeOK
<1>2. \A p \in prefixes : Network(p.addr, p.size) \in Candidates
  BY DEF LoopInv, CandidatesOnly
<1>3. \A p \in Prefix : p.size \in Nat /\ p.addr \in Address  BY WidthAssumption DEF Prefix
<1>4. ASSUME NEW p \in prefixes, ~ ToBeDeleted(p), NEW m \in Candidates,
             m.size < p.size, Contains(m, Network(p.addr, p.size).addr)
      PROVE  FALSE
  <2>1. m \in Prefix /\ p \in Prefix  BY <1>1, CandidateFacts
  <2>2. PICK q \in prefixes : q.size <= m.size /\ Contains(q, m.addr)  BY CandidatesFound
  <2>3. q \in Prefix  BY <1>1
  <2> DEFINE n == Network(p.addr, p.size)
  <2>4. n \in Prefix /\ n.size = p.size /\ Contains(n, p.addr)  BY <2>1, NetworkOfPrefix
  <2>5. Contains(m, n.addr)  BY <1>4
  <2> HIDE DEF n
  <2>6. Contains(m, p.addr)
    <3>1. m.size <= n.size  BY <1>3, <1>4, <2>1, <2>4
    <3> QED BY <1>3, <2>1, <2>4, <2>5, <3>1, ContainsTransitive
  <2>7. Contains(q, p.addr)  BY <1>3, <2>1, <2>2, <2>3, <2>6, ContainsTransitive
  <2>8. q.size < p.size  BY <1>3, <1>4, <2>1, <2>2, <2>3
  <2> QED BY <1>4, <2>7, <2>8 DEF ToBeDeleted
<1>5. ASSUME NEW n \in Candidates, \A m \in Candidates : m.size < n.size => ~ Contains(m, n.addr)
      PROVE  \E p \in prefixes : n = Network(p.addr, p.size) /\ ~ ToBeDeleted(p)
  <2>1. n \in Prefix /\ Network(n.addr, n.size) = n  BY <1>1, CandidateFacts
  <2>2. PICK p \in prefixes : p.size <= n.size /\ Contains(p, n.addr)  BY CandidatesFound
  <2>3. p \in Prefix  BY <1>1
  <2>4. p.size = n.size
    <3>1. SUFFICES ASSUME p.size < n.size PROVE FALSE  BY <1>3, <2>1, <2>2, <2>3
    <3>2. /\ Network(p.addr, p.size).size = p.size
          /\ Contains(Network(p.addr, p.size), n.addr)
      BY <1>3, <2>1, <2>2, <2>3, NetworkOfPrefix
    <3> QED BY <1>2, <1>5, <3>1, <3>2
  <2>5. Network(p.addr, p.size) = n
    <3>1. SameNetwork(p.addr, n.addr, n.size)  BY <2>2, <2>4 DEF Contains
    <3>2. n.size \in 0 .. Width  BY <2>1 DEF Prefix
    <3> QED BY <1>3, <2>1, <2>3, <2>4, <3>1, <3>2, NetworkCut
  <2>6. ASSUME NEW q \in prefixes, q.size < p.size, Contains(q, p.addr) PROVE FALSE
    <3>1. q \in Prefix /\ q.size <= p.size  BY <1>1, <1>3, <2>3, <2>6
    <3>2. Contains(q, n.addr)  BY <1>3, <2>1, <2>2, <2>3, <2>6, <3>1, ContainsTransitive
    <3>3. /\ Network(q.addr, q.size).size = q.size
          /\ Contains(Network(q.addr, q.size), n.addr)
      BY <1>3, <2>1, <3>1, <3>2, NetworkOfPrefix
    <3> QED BY <1>2, <1>5, <2>4, <2>6, <3>3
  <2> QED BY <2>5, <2>6 DEF ToBeDeleted
<1>6. \A p \in prefixes : Network(p.addr, p.size).size = p.size  BY <1>1, NetworkOfPrefix
<1>7. ASSUME NEW p \in prefixes, ~ ToBeDeleted(p)
      PROVE  Network(p.addr, p.size) \in
                {n \in Candidates : \A m \in Candidates : m.size < n.size => ~ Contains(m, n.addr)}
  BY <1>2, <1>4, <1>6, <1>7
<1> QED BY <1>5, <1>7

\* Whatever list of prefixes is given, of whatever width, the result is the
\* list of the largest networks among those given and those of length 2 or
\* more that the list covers fully: no pair of halves is left unjoined, at
\* any level, however many joins led to them.
THEOREM ResultIsTheReference == Spec => []ResultIsReference
<1>1. Init => LoopInv /\ ResultIsReference  BY LoopInit DEF Init, ResultIsReference
<1>2. ASSUME LoopInv, TypeOK', CoverageKept', [Next]_vars PROVE LoopInv'
  <2>1. CASE Merge  BY <1>2, <2>1, LoopMerge DEF LoopInv
  <2>2. CASE Keep  BY <1>2, <2>2 DEF LoopInv, Keep, FoundSoFar, CandidatesOnly
  <2>3. CASE UNCHANGED vars
    <3>1. FoundSoFar'
      BY <1>2, <2>3 DEF LoopInv, vars, FoundSoFar, FullyCovered, Covers, Contains, SameNetwork,
                        Prefix, Address, Bits
    <3>2. CandidatesOnly'
      BY <1>2, <2>3, CandidatesFixed DEF LoopInv, vars, CandidatesOnly, Network, Bits
    <3> QED BY <1>2, <3>1, <3>2 DEF LoopInv
  <2> QED BY <1>2, <2>1, <2>2, <2>3 DEF Next
<1>3. ASSUME LoopInv, ResultIsReference, [Next]_vars PROVE ResultIsReference'
  <2>1. CASE Merge  BY <2>1 DEF Merge, ResultIsReference
  <2>2. CASE Keep
    <3>1. Candidates' = Candidates  BY <2>2, CandidatesFixed DEF Keep
    <3>2. prefixes' = {q \in prefixes : ~ ToBeDeleted(q)}  BY <2>2 DEF Keep
    <3>3. pc = "merge" /\ prefixlen <= 1  BY <2>2 DEF Keep
    <3> QED BY <1>3, <3>1, <3>2, <3>3, KeptAreLargest
            DEF ResultIsReference, Contains, SameNetwork, Network, Bits
  <2>3. CASE UNCHANGED vars
    <3>1. Candidates' = Candidates /\ prefixes' = prefixes /\ pc' = pc
      BY <2>3, CandidatesFixed DEF vars
    <3> QED BY <1>3, <3>1 DEF ResultIsReference, Contains, SameNetwork, Network, Bits
  <2> QED BY <1>3, <2>1, <2>2, <2>3 DEF Next
<1> QED BY <1>1, <1>2, <1>3, TypeCorrect, CoverageIsKept, PTL DEF Spec
=============================================================================
