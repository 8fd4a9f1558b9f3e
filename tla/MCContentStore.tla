---------------------------- MODULE MCContentStore ----------------------------
(* ContentStore for TLC: three calls, the first two of one process. *)
EXTENDS ContentStore, TLC

CONSTANTS a, b, c1, c2, c3, i1, p1, p2

MCOwner == c1 :> a @@ c2 :> a @@ c3 :> b

Put(good) == [op |-> "put", id |-> i1, good |-> good]
Ask(what) == [op |-> what, id |-> i1]
Register(p, S) == [op |-> "register", project |-> p, objects |-> S]
Gc(olderThan, dryRun) == [op |-> "gc", olderThan |-> olderThan, dryRun |-> dryRun]
Clear == [op |-> "clearOrphans"]

\* Three calls in a store where f gives the objects of the indexed projects.
Calling(f, r1, r2, r3) ==
    [calls |-> c1 :> r1 @@ c2 :> r2 @@ c3 :> r3,
     index |-> [p \in Projects |-> IF p \in DOMAIN f THEN f[p] ELSE {}],
     indexed |-> DOMAIN f]

NoIndex == <<>>

\* Puts, of bad bytes too, in one process and in two; puts and reads beside gc and
\* clearOrphans; index updates beside gc, one of which moves an object from the
\* index of one project to that of another.
StoreScenarios ==
    {Calling(NoIndex, Put(g), Put(TRUE), Put(TRUE)) : g \in BOOLEAN}
      \cup {Calling(NoIndex, Put(TRUE), Ask("read"), Gc(TRUE, FALSE)),
            Calling(p1 :> {i1}, Put(TRUE), Clear, Ask("verify")),
            Calling(p1 :> {i1}, Register(p1, {i1}), Register(p1, {}), Gc(FALSE, FALSE)),
            Calling(p1 :> {} @@ p2 :> {i1}, Register(p1, {i1}), Register(p2, {}),
                    Gc(FALSE, FALSE)),
            Calling(p2 :> {i1}, Clear, Gc(FALSE, TRUE), Gc(FALSE, FALSE))}

\* A project registers what gc is about to find unlisted.
RegisterBesideGc == {Calling(NoIndex, Put(TRUE), Register(p1, {i1}), Gc(FALSE, FALSE))}

\* Two puts of the same bytes, one of which expects other ones.
MismatchBesidePut == {Calling(NoIndex, Put(TRUE), Put(FALSE), Ask("read"))}
===============================================================================
