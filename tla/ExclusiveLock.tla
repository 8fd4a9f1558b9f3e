---------------------------- MODULE ExclusiveLock ----------------------------
(***************************************************************************)
(* What the store expects of a named lock: at most one process inside, as  *)
(* long as nobody has been robbed of it.  An owner is robbed when another  *)
(* process removes its lock file; from then on the lock promises nothing.  *)
(* ContentStore uses a lock of this kind, StoreLock implements it.         *)
(***************************************************************************)
CONSTANT Procs

VARIABLES holders,   \* the processes that own the lock
          robbed     \* has a live owner lost its lock file to another process?

vars == <<holders, robbed>>

TypeOK ==
    /\ holders \subseteq Procs
    /\ robbed \in BOOLEAN

Init ==
    /\ holders = {}
    /\ robbed = FALSE

\* p becomes an owner: alone, unless an owner has been robbed before.
Acquire(p) ==
    /\ p \notin holders
    /\ holders = {} \/ robbed
    /\ holders' = holders \cup {p}
    /\ UNCHANGED robbed

\* p stops being an owner: it releases the lock, or it dies.
Leave(p) ==
    /\ p \in holders
    /\ holders' = holders \ {p}
    /\ UNCHANGED robbed

\* The lock file of an owner is removed by another process.
Rob ==
    /\ holders # {}
    /\ robbed' = TRUE
    /\ UNCHANGED holders

Next == Rob \/ \E p \in Procs : Acquire(p) \/ Leave(p)

Spec == Init /\ [][Next]_vars
==============================================================================
