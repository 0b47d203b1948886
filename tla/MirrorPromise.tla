--------------------------- MODULE MirrorPromise ---------------------------
(***************************************************************************)
(* What a level triggered mirror promises, without informers, notifications*)
(* or a queue: a key is owed work from the moment its source changes until *)
(* the mirror is right again, and its mirror is written only while work is *)
(* owed.                                                                   *)
(***************************************************************************)
CONSTANTS
    Keys,
    Contents   \* contents of a source or a mirror, "no object" included

VARIABLES
    source,    \* per key, what is to be mirrored
    mirror,    \* per key, what is there
    owed       \* the keys somebody still has to look at

promiseVars == <<source, mirror, owed>>

Kept(k) == mirror[k] = source[k]

PromiseInit ==
    /\ source \in [Keys -> Contents]
    /\ mirror \in [Keys -> Contents]
    /\ owed \subseteq Keys
    /\ \A k \in Keys \ owed : Kept(k)

\* The source of a key changes: work is owed.
Change(k) ==
    /\ \E c \in Contents : source' = [source EXCEPT ![k] = c]
    /\ owed' = owed \cup {k}
    /\ UNCHANGED mirror

\* The mirror of a key is written, which may be all that was owed.
Write(k) ==
    /\ k \in owed
    /\ \E c \in Contents : mirror' = [mirror EXCEPT ![k] = c]
    /\ owed' \in {owed, owed \ {k}}
    /\ k \notin owed' => mirror'[k] = source[k]
    /\ UNCHANGED source

\* Work is found to be done, or looked for anew (a retry, a restart).
Reassess ==
    /\ owed' \subseteq Keys
    /\ \A k \in Keys \ owed' : Kept(k)
    /\ UNCHANGED <<source, mirror>>

PromiseNext == (\E k \in Keys : Change(k) \/ Write(k)) \/ Reassess

Promise == PromiseInit /\ [][PromiseNext]_promiseVars
=============================================================================
