----------------------------- MODULE ObjectStore -----------------------------
(***************************************************************************)
(* What the content store promises to the rest of Knot, without locks,     *)
(* temporary files or calls: an object appears whole, in one step; it      *)
(* disappears only when a collector takes it; and a collector never takes  *)
(* what one project has listed ever since the collector looked, unless it  *)
(* cannot read what that project lists.                                    *)
(***************************************************************************)
CONSTANTS Ids, Projects, Collectors

VARIABLES content,   \* "none", the "good" bytes of the id, or "bad" ones
          listed,    \* the objects each project lists
          pinned,    \* what a collector must spare, by the project that lists it
          collecting \* the collectors that have looked and not stopped

vars == <<content, listed, pinned, collecting>>

Init ==
    /\ content \in [Ids -> {"none", "good"}]
    /\ listed \in [Projects -> SUBSET Ids]
    /\ pinned = [c \in Collectors |-> {}]
    /\ collecting = {}

\* An object appears, or is replaced, with all of its bytes.
Insert(i) ==
    /\ content' = [content EXCEPT ![i] = "good"]
    /\ UNCHANGED <<listed, pinned, collecting>>

\* A project lists S instead of what it listed.
List(p, S) ==
    /\ listed' = [listed EXCEPT ![p] = S]
    /\ pinned' = [c \in Collectors |-> {s \in pinned[c] : s[1] = p => s[2] \in S}]
    /\ UNCHANGED <<content, collecting>>

\* A collector looks: all that is listed now is pinned.
Look(c) ==
    /\ pinned' = [pinned EXCEPT ![c] = {s \in Projects \X Ids : s[2] \in listed[s[1]]}]
    /\ collecting' = collecting \cup {c}
    /\ UNCHANGED <<content, listed>>

\* A collector cannot read what p lists: nothing is pinned on its account.
Skip(c, p) ==
    /\ pinned' = [pinned EXCEPT ![c] = {s \in @ : s[1] # p}]
    /\ UNCHANGED <<content, listed, collecting>>

\* Collectors stop: they have finished, have failed, or their process has died.
Stop(C) ==
    /\ collecting' = collecting \ C
    /\ UNCHANGED <<content, listed, pinned>>

\* A collector that has looked removes an object that is not pinned for it.
Collect(c, i) ==
    /\ c \in collecting
    /\ \A s \in pinned[c] : s[2] # i
    /\ content' = [content EXCEPT ![i] = "none"]
    /\ UNCHANGED <<listed, pinned, collecting>>

\* The disk corrupts an object.
Rot(i) ==
    /\ content[i] = "good"
    /\ content' = [content EXCEPT ![i] = "bad"]
    /\ UNCHANGED <<listed, pinned, collecting>>

Next ==
    \/ \E i \in Ids : Insert(i) \/ Rot(i)
    \/ \E p \in Projects, S \in SUBSET Ids : List(p, S)
    \/ \E c \in Collectors : Look(c)
    \/ \E c \in Collectors, p \in Projects : Skip(c, p)
    \/ \E c \in Collectors, i \in Ids : Collect(c, i)
    \/ \E C \in SUBSET Collectors : Stop(C)

Spec == Init /\ [][Next]_vars
==============================================================================
