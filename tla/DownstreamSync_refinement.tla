--------------------- MODULE DownstreamSync_refinement ---------------------
(***************************************************************************)
(* Proof that DownstreamSync implements MirrorPromise.                     *)
(***************************************************************************)
EXTENDS DownstreamSync_proofs

USE DEF upstreamVars, informerVars, queueVars, workerVars, localVars, vars

LEMMA PromiseInit == Init => PromiseInv
<1> SUFFICES ASSUME Init PROVE PromiseInv
  OBVIOUS
<1>1. \A k \in Keys : up[k].ver = 1 /\ cache[k].ver = 0
  BY DEF Init, InitialUpstream, NotRead
<1> QED BY <1>1, NoLostInit DEF PromiseInv, CacheFollows, VersionsStart

LEMMA PromiseStep ==
    ASSUME LocalActors \subseteq {"foreign"}, PromiseInv, [Next]_vars
    PROVE  PromiseInv'
BY NoLostStep, CacheFollowsStep DEF PromiseInv, NoLostInv, FreshInv

\* A key that nobody has to look at any more has the right mirror.
SettledKeysKept ==
    \A k \in ScopeKeys : ~ Owed(k) => MirrorContent(k) = up[k].spec

LEMMA SettledIsKept == PromiseInv => SettledKeysKept
<1> SUFFICES ASSUME PromiseInv, NEW k \in ScopeKeys, ~ Owed(k)
             PROVE  MirrorContent(k) = up[k].spec
  BY DEF SettledKeysKept
<1>1. k \in Keys /\ InScope(k)
  BY DEF ScopeKeys
<1>2. Mirrors(k, cache[k].spec)
  BY <1>1, KeysAssumption DEF Owed, PromiseInv, NoLostInv, StartOrder, NothingLost, Covered
<1>3. cache[k].spec = up[k].spec
  BY <1>1 DEF Owed, PromiseInv, CacheFollows
<1> QED
  BY <1>1, <1>2, <1>3 DEF Mirrors, MirrorContent, PromiseInv, NoLostInv, QuietCluster

LEMMA MirrorContents ==
    ASSUME TypeOK, NEW k \in Keys
    PROVE  MirrorContent(k) \in Content /\ up[k].spec \in Content
BY DEF TypeOK, MirrorContent, LocalObject, Upstream, Content

\* A step of an upstream client is a change of the abstract source.
LEMMA UpstreamChanges ==
    ASSUME TypeOK, CacheFollows, NEW k \in Keys,
           (\E s \in Specs : UpstreamWrite(k, s)) \/ UpstreamDelete(k)
    PROVE  IF InScope(k) THEN Abstract!Change(k) ELSE UNCHANGED Abstract!promiseVars
<1>1. PICK c \in Content : /\ up'[k].ver = up[k].ver + 1 /\ up'[k].spec = c
                          /\ \A x \in Keys \ {k} : up'[x] = up[x]
  BY DEF UpstreamWrite, UpstreamDelete, Upstream, Content, TypeOK
<1>2. UNCHANGED <<informerVars, queueVars, workerVars, localVars>>
  BY DEF UpstreamWrite, UpstreamDelete
<1>3. \A x \in Keys : MirrorContent(x)' = MirrorContent(x)
  BY <1>2 DEF MirrorContent
<1>4. \A x \in Keys : Queued(x)' = Queued(x) /\ Held(x)' = Held(x)
  BY <1>2 DEF Queued, Announced, DownstreamSourceEqual, Held
<1>5. cache[k].ver # up'[k].ver
  BY <1>1 DEF CacheFollows, TypeOK, Observed, Upstream
<1>6. \A x \in Keys : Owed(x)' = (x = k \/ Owed(x))
  BY <1>1, <1>2, <1>4, <1>5 DEF Owed
<1>7. ScopeKeys' = ScopeKeys /\ ScopeKeys \subseteq Keys
  BY DEF ScopeKeys, InScope
<1>8. CASE InScope(k)
  <2>1. k \in ScopeKeys
    BY <1>8 DEF ScopeKeys
  <2>2. [x \in ScopeKeys |-> up[x].spec]'
            = [[x \in ScopeKeys |-> up[x].spec] EXCEPT ![k] = c]
    BY <1>1, <1>7, <2>1
  <2>3. {x \in ScopeKeys : Owed(x)}' = {x \in ScopeKeys : Owed(x)} \cup {k}
    BY <1>6, <1>7, <2>1
  <2>4. [x \in ScopeKeys |-> MirrorContent(x)]' = [x \in ScopeKeys |-> MirrorContent(x)]
    BY <1>3, <1>7
  <2> QED BY <1>1, <1>8, <2>2, <2>3, <2>4 DEF Abstract!Change
<1>9. CASE ~ InScope(k)
  <2>1. k \notin ScopeKeys
    BY <1>9 DEF ScopeKeys
  <2> QED BY <1>1, <1>3, <1>6, <1>7, <1>9, <2>1 DEF Abstract!promiseVars
<1> QED BY <1>8, <1>9

\* A step of a worker is a write of the abstract mirror of its key, or leaves
\* the mirrors alone.
LEMMA WorkerWrites ==
    ASSUME PromiseInv, SettledKeysKept', NEW w \in Workers, WorkerStep(w) \/ CallFails(w)
    PROVE  \/ \E k \in ScopeKeys : Abstract!Write(k)
           \/ UNCHANGED up /\ \A x \in Keys : MirrorContent(x)' = MirrorContent(x)
<1> USE DEF PromiseInv, NoLostInv
<1>0. PICK k \in Keys : k = key[w]
  BY PassStep DEF FreshInv, Custody, TypeOK
<1>1. /\ pc[w] # "idle" /\ k = key[w]
      /\ UNCHANGED <<up, informerVars>>
      /\ Done(w) \/ \E step \in Steps \ {"idle", "read"} : Goto(w, step)
  BY <1>0, PassStep DEF FreshInv
<1>2. /\ \A x \in Keys \ {k} : local'[x] = local[x]
      /\ delayed \subseteq delayed'
  BY <1>0, EndOfPass
<1>3. CASE InScope(k)
  <2>1. k \in ScopeKeys /\ ScopeKeys' = ScopeKeys /\ ScopeKeys \subseteq Keys
    BY <1>1, <1>3 DEF ScopeKeys, InScope
  <2>2. Held(k)
    BY <1>1 DEF Held
  <2>3. \A x \in Keys \ {k} : MirrorContent(x)' = MirrorContent(x)
    BY <1>2 DEF MirrorContent
  <2>4. \A x \in Keys \ {k} : Held(x)' = Held(x)
    BY <1>1 DEF Held, Done, Goto, FreshInv, TypeOK
  <2>5. \A x \in Keys \ {k} : Queued(x)' = Queued(x)
    <3>1. dirty' = dirty
      BY <1>1 DEF Done, Goto
    <3>2. delayed' \subseteq delayed \cup {k}
      BY <1>1 DEF WorkerStep, CallFails, ReconcileKey, EnsureNamespace, CreateNamespace,
                  UpsertGet, UpsertCreate, UpsertUpdate, DeleteGet, DeleteMirror, Reply,
                  Succeed, Fail, Goto
    <3> QED BY <1>1, <1>2, <3>1, <3>2 DEF Queued, Announced, DownstreamSourceEqual
  <2>6. \A x \in Keys \ {k} : Owed(x)' = Owed(x)
    BY <1>1, <2>4, <2>5 DEF Owed
  <2>7. MirrorContent(k)' \in Content
    <3>1. TypeOK'
      BY <1>1, WorkerTypeOK DEF FreshInv
    <3> QED BY <1>1, <3>1 DEF MirrorContent, TypeOK, LocalObject, Content
  <2> DEFINE mirror == [x \in ScopeKeys |-> MirrorContent(x)]
             owed   == {x \in ScopeKeys : Owed(x)}
  <2>8. k \in owed
    BY <2>1, <2>2 DEF Owed
  <2>9. mirror' = [mirror EXCEPT ![k] = MirrorContent(k)']
    BY <2>1, <2>3
  <2>10. owed' = owed \/ owed' = owed \ {k}
    BY <2>1, <2>6, <2>8
  <2>11. k \notin owed' => mirror'[k] = up[k].spec
    BY <1>1, <2>1 DEF SettledKeysKept
  <2>12. [x \in ScopeKeys |-> up[x].spec]' = [x \in ScopeKeys |-> up[x].spec]
    BY <1>1, <2>1
  <2> HIDE DEF mirror, owed
  <2>13. Abstract!Write(k)
    BY <2>1, <2>7, <2>8, <2>9, <2>10, <2>11, <2>12 DEF Abstract!Write, mirror, owed
  <2> QED BY <2>1, <2>13
<1>4. CASE ~ InScope(k)
  <2>1. local' = local
    BY <1>1, <1>4 DEF FreshInv, PassKnowledge, Working, WorkerStep, CallFails, ReconcileKey,
                      EnsureNamespace, CreateNamespace, UpsertGet, UpsertCreate, UpsertUpdate,
                      DeleteGet, DeleteMirror
  <2> QED BY <1>1, <2>1 DEF MirrorContent
<1> QED BY <1>3, <1>4

\* Sources and mirrors as they are: the abstract step is a new look at what
\* is owed.
LEMMA OthersReassess ==
    ASSUME SettledKeysKept', UNCHANGED up,
           \A x \in Keys : MirrorContent(x)' = MirrorContent(x)
    PROVE  Abstract!Reassess
<1>1. ScopeKeys' = ScopeKeys /\ ScopeKeys \subseteq Keys
  BY DEF ScopeKeys, InScope
<1>2. [x \in ScopeKeys |-> up[x].spec]' = [x \in ScopeKeys |-> up[x].spec]
  BY <1>1
<1>3. [x \in ScopeKeys |-> MirrorContent(x)]' = [x \in ScopeKeys |-> MirrorContent(x)]
  BY <1>1
<1>4. \A x \in ScopeKeys : x \notin {y \in ScopeKeys : Owed(y)}' => MirrorContent(x) = up[x].spec
  BY <1>1 DEF SettledKeysKept
<1> QED BY <1>1, <1>2, <1>3, <1>4 DEF Abstract!Reassess, Abstract!Kept

\* Whatever the upstream clients, the informers, the workers, crashes and
\* other clients of the local cluster (that create and delete objects of
\* their own) do, the synchroniser behaves as the level triggered mirror.
THEOREM Refinement ==
    ASSUME LocalActors \subseteq {"foreign"}
    PROVE  Spec => ImplementsPromise
<1>1. Init => Abstract!PromiseInit
  <2> SUFFICES ASSUME Init PROVE Abstract!PromiseInit
    OBVIOUS
  <2>1. TypeOK /\ \A k \in Keys : Owed(k)
    BY InitTypeOK DEF Init, Owed
  <2> QED BY <2>1, MirrorContents DEF Abstract!PromiseInit, Abstract!Kept, ScopeKeys
<1>2. ASSUME PromiseInv, SettledKeysKept', [Next]_vars
      PROVE  [Abstract!PromiseNext]_(Abstract!promiseVars)
  <2> USE DEF PromiseInv, NoLostInv, FreshInv
  <2>1. ASSUME UNCHANGED up, \A x \in Keys : MirrorContent(x)' = MirrorContent(x)
        PROVE  Abstract!PromiseNext
    BY <1>2, <2>1, OthersReassess DEF Abstract!PromiseNext
  <2>2. ASSUME NEW k \in Keys, (\E s \in Specs : UpstreamWrite(k, s)) \/ UpstreamDelete(k)
        PROVE  [Abstract!PromiseNext]_(Abstract!promiseVars)
    BY <1>2, <2>2, UpstreamChanges DEF Abstract!PromiseNext, ScopeKeys
  <2>3. ASSUME NEW w \in Workers, WorkerStep(w) \/ CallFails(w) PROVE Abstract!PromiseNext
    BY <1>2, <2>1, <2>3, WorkerWrites DEF Abstract!PromiseNext
  <2>4. ASSUME LocalStep PROVE Abstract!PromiseNext
    <3>1. PICK k \in Keys : ForeignDelete(k) \/ \E s \in Specs : ForeignCreate(k, s)
      BY <2>4 DEF LocalStep, Takeover, Hold, Release, NamespaceDelete
    <3>2. UNCHANGED up /\ \A x \in Keys \ {k} : local'[x] = local[x]
      BY <1>2, <3>1 DEF ForeignDelete, ForeignCreate, SetLocal, TypeOK
    <3>3. local[k].owner # "self" /\ local'[k].owner # "self"
      BY <1>2, <3>1 DEF ForeignDelete, ForeignCreate, SetLocal, Deleted, NoObject, QuietCluster,
                        ForeignObject, TypeOK
    <3> QED BY <2>1, <3>2, <3>3 DEF MirrorContent
  <2>5. ASSUME NEW n \in Namespaces, NamespaceGone(n) PROVE FALSE
    BY <1>2, <2>5 DEF NamespaceGone, QuietCluster
  <2>6. ASSUME UNCHANGED <<up, local>> PROVE Abstract!PromiseNext
    BY <2>1, <2>6 DEF MirrorContent
  <2> QED
    BY <1>2, <2>2, <2>3, <2>4, <2>5, <2>6
       DEF Next, InformerUpdate, MetadataUpdate, Deliver, Boot, SyncKind,
           EnqueueExistingMirrors, StartWorkers, Crash, Get, DelayExpires
<1>3. PromiseInv /\ [Next]_vars => PromiseInv'
  BY PromiseStep
<1>4. PromiseInv /\ SettledKeysKept' /\ [Next]_vars
          => [Abstract!PromiseNext]_(Abstract!promiseVars)
  BY <1>2
<1> QED
  BY <1>1, <1>3, <1>4, PromiseInit, SettledIsKept, PTL DEF Spec, ImplementsPromise, Abstract!Promise
=============================================================================
