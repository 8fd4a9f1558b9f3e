--------------------------- MODULE MCProjectSession ---------------------------
(* Constants for TLC: three processes on a new project and on an established one. *)
EXTENDS ProjectSession

MCPackages == {"p", "q"}
MCSessions == {"s1", "s2", "s3"}

Cmd(o) == [op |-> o]
On(o, p) == [op |-> o, pkg |-> p]
Child == [op |-> "child", parent |-> "s1"]
Three(a, b, c) == [s \in MCSessions |-> CASE s = "s1" -> a [] s = "s2" -> b [] s = "s3" -> c]

\* A program and its child beside a command that changes the project or the store, and such
\* commands alone.
MCRequests ==
    {Three(Cmd("run"), Child, On("add", "q")),
     Three(Cmd("run"), Child, Cmd("gc")),
     Three(Cmd("prefetch"), Child, On("remove", "p")),
     Three(On("add", "q"), On("remove", "p"), Cmd("gc")),
     Three(On("add", "q"), On("remove", "q"), Cmd("snapshot")),
     Three(On("add", "q"), Cmd("snapshot"), Cmd("gc"))}

\* package.json declares p; nothing is locked, or p is, and the store has q
\* from another project.
World(q, old) ==
    [req |-> q,
     file |-> [f \in Files |-> IF f = "json" \/ (f = "lock" /\ old) THEN {"p"} ELSE {}],
     state |-> [f \in Files |-> IF f = "json" \/ old THEN "whole" ELSE "empty"],
     index |-> IF old THEN {"p"} ELSE {}, objects |-> IF old THEN MCPackages ELSE {}]

MCWorlds == {World(q, old) : q \in MCRequests, old \in BOOLEAN}

ASSUME MCWorldsAreConsistent == Consistent

\* For the two counterexamples: a program that runs while another command does its work.
AddWhileRunning == {World(Three(Cmd("run"), Child, On("add", "q")), TRUE)}
GcWhileRunning == {World(Three(Cmd("run"), Child, Cmd("gc")), FALSE)}
=============================================================================
