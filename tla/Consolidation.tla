--------------------------- MODULE Consolidation ---------------------------
(***************************************************************************)
(* ConsolidateV4 and ConsolidateV6 (internal/consolidation): one algorithm *)
(* for two address widths.  From the longest prefixes down, two halves of  *)
(* a network add the network itself; at the end every prefix inside a      *)
(* shorter one is dropped.  An address is a function from bit positions to *)
(* bits, so that networks are compared bit by bit, for every width.  Equal *)
(* entries of a list are not told apart, and the final sorting is left out.*)
(* Networks are printed and parsed again on the way, which gives them back *)
(* as they were, except for IPv4-mapped IPv6 addresses (::ffff:0:0/96):    *)
(* these are printed as IPv4 networks, and are no inputs of the model.     *)
(***************************************************************************)
EXTENDS Naturals

CONSTANTS
    Width,   \* 32 or 128 in the code
    Inputs   \* the prefix lists considered, each as a set

Bits    == 1 .. Width
Address == [Bits -> {0, 1}]
Prefix  == [addr : Address, size : 0 .. Width]

ASSUME WidthAssumption == Width \in Nat /\ Width >= 2
ASSUME InputsAssumption == Inputs \subseteq SUBSET Prefix

VARIABLES
    input,      \* the list given
    prefixes,   \* the working list
    prefixlen,  \* the loop variable
    pc          \* "merge", "done"

vars == <<input, prefixes, prefixlen, pc>>

\* The network ParseCIDR makes of an address and a length.
Network(a, len) == [addr |-> [i \in Bits |-> IF i <= len THEN a[i] ELSE 0], size |-> len]

\* Two addresses lie in the same network of that length.
SameNetwork(a, b, len) == \A i \in 1 .. len : a[i] = b[i]

\* IPNet.Contains
Contains(p, a) == SameNetwork(p.addr, a, p.size)

TypeOK ==
    /\ input \subseteq Prefix
    /\ prefixes \subseteq Prefix
    /\ prefixlen \in 1 .. Width - 1
    /\ pc \in {"merge", "done"}

Init ==
    /\ input \in Inputs
    /\ prefixes = input
    /\ prefixlen = Width - 1
    /\ pc = "merge"

\* The networks of length len of which two different halves are in the list.
Joined_Unpaired(len) == {Network(p.addr, len) : p \in {q \in prefixes : q.size = len + 1}}

Joined_InputOnly(len) ==
    {Network(p.addr, len) : p \in
        {q \in input : q.size = len + 1 /\ \E r \in input :
            /\ r.size = len + 1
            /\ SameNetwork(q.addr, r.addr, len)
            /\ ~ SameNetwork(q.addr, r.addr, len + 1)}}

Joined(len) ==
    {Network(p.addr, len) : p \in
        {q \in prefixes : q.size = len + 1 /\ \E r \in prefixes :
            /\ r.size = len + 1
            /\ SameNetwork(q.addr, r.addr, len)
            /\ ~ SameNetwork(q.addr, r.addr, len + 1)}}

\* One turn of the first loop.
Merge_ToZero ==
    /\ pc = "merge" /\ prefixlen > 0
    /\ prefixes' = prefixes \cup Joined(prefixlen)
    /\ prefixlen' = prefixlen - 1
    /\ UNCHANGED <<input, pc>>

Merge ==
    /\ pc = "merge" /\ prefixlen > 1
    /\ prefixes' = prefixes \cup Joined(prefixlen)
    /\ prefixlen' = prefixlen - 1
    /\ UNCHANGED <<input, pc>>

\* toBeDeleted: some shorter prefix of the list contains it.
ToBeDeleted(p) == \E q \in prefixes : q.size < p.size /\ Contains(q, p.addr)

\* The second loop and the copy of what is kept.
Keep ==
    /\ pc = "merge" /\ prefixlen <= 1
    /\ prefixes' = {p \in prefixes : ~ ToBeDeleted(p)}
    /\ pc' = "done"
    /\ UNCHANGED <<input, prefixlen>>

Next == Merge \/ Keep

Spec == Init /\ [][Next]_vars

-----------------------------------------------------------------------------
(* What is promised.                                                       *)

Covers(P, a) == \E p \in P : Contains(p, a)

\* At every point of the computation the list covers exactly the addresses
\* of the input: joining adds none, dropping loses none.
CoverageKept == \A a \in Address : Covers(prefixes, a) <=> Covers(input, a)

\* The input covers a network fully.
FullyCovered(n) == \A a \in Address : Contains(n, a) => Covers(input, a)

\* The networks the result should consist of, without reference to the
\* algorithm: the largest of the networks given and of the networks of
\* length 2 or more that the input covers fully.
Candidates ==
    {Network(p.addr, p.size) : p \in input}
        \cup {n \in {Network(a, len) : a \in Address, len \in 2 .. Width} : FullyCovered(n)}

\* As a set of networks the result is what it should be: it has all the
\* largest candidates and nothing else.  (Equal entries stay in the list, and
\* two halves of a network of length 0 or 1 are not joined.)
ResultIsReference ==
    pc = "done" =>
        LET all == Candidates
        IN  {Network(p.addr, p.size) : p \in prefixes}
                = {n \in all : \A m \in all : m.size < n.size => ~ Contains(m, n.addr)}

-----------------------------------------------------------------------------
(* What the proof of ResultIsReference needs: the first loop's invariant.  *)

\* Every fully covered network of a length the loop has passed lies in a
\* prefix of the list.
FoundSoFar ==
    pc = "merge" => \A n \in Prefix : prefixlen < n.size /\ FullyCovered(n) =>
                        \E p \in prefixes : p.size <= n.size /\ Contains(p, n.addr)

\* The list has the input and, besides it, candidates only.
CandidatesOnly ==
    pc = "merge" => input \subseteq prefixes
                    /\ \A p \in prefixes : Network(p.addr, p.size) \in Candidates

LoopInv == TypeOK /\ CoverageKept /\ FoundSoFar /\ CandidatesOnly
=============================================================================
