----------------------------- MODULE MCResolver -----------------------------
(* Constants for TLC: an ordinary package "a" and a workspace member "w". *)
EXTENDS Resolver

MCNames == {"a", "w"}
MCVersions == {1, 2}
MCRanges == {Any, Latest, Work, "^1", "2"}
MCSat == [r \in MCRanges |-> CASE r = Any -> {1, 2} [] r = "^1" -> {1, 2}
                               [] r = "2" -> {2} [] OTHER -> {}]
MCMembers == {"w"}
MCDenied == {<<"w", 2>>}
MCCalls == {"c1", "c2", "c3"}

Import(n, r) == [via |-> "import", name |-> n, range |-> r]
Prefetch(n, r) == [via |-> "prefetch", name |-> n, range |-> r]
Three(x, y, z) == [c \in MCCalls |-> CASE c = "c1" -> x [] c = "c2" -> y [] c = "c3" -> z]

\* Requests of one name with two ranges that share a version; of tags, beside an import of
\* a member; of the member from the inside and from the outside; of one that does not exist.
MCRequests ==
    {Three(Import("a", "^1"), Import("a", "^1"), Prefetch("a", "2")),
     Three(Import("a", Any), Prefetch("a", Latest), Import("w", "2")),
     Three(Import("w", "^1"), Prefetch("w", "^1"), Prefetch("w", Work)),
     Three(Prefetch("a", Work), Import("a", Work), Import("a", "2"))}

Only(n, f) == [p \in Packages |-> IF p[1] = n THEN f[p[2]] ELSE "absent"]
Named(q) == q["c1"].name

\* Locks are filled by earlier sessions, or by migrate ("bare").  Version 2 is published
\* by Publish, at once or later.
MCLocks(n) ==
    {f \in [MCVersions -> Entries] :
        /\ f[2] # "bare"
        /\ \A v \in MCVersions :
              /\ f[v] = "workspace" => n \in MCMembers /\ v = 1
              /\ <<n, v>> \in MCDenied => f[v] = "absent"}

WorldOf(q, fz, off, f, stored, cached) ==
    [req |-> q, frozen |-> fz, offline |-> off, lock |-> Only(Named(q), f),
     store |-> IF stored THEN {<<Named(q), v>> : v \in {x \in MCVersions : f[x] = "object"}}
               ELSE {},
     published |-> [n \in MCNames |-> IF n # Named(q) THEN {}
                                     ELSE {1} \cup {v \in MCVersions : f[v] = "object"}],
     disk |-> [n \in MCNames |-> IF n = Named(q) /\ cached THEN {1} ELSE {}]]

MCWorlds ==
    UNION {{WorldOf(q, fz, off, f, stored, off /\ cached) :
              fz \in BOOLEAN, off \in BOOLEAN, stored \in BOOLEAN, cached \in BOOLEAN,
              f \in MCLocks(Named(q))} : q \in MCRequests}
=============================================================================
