----------------------------- MODULE MCLockTrust -----------------------------
(* Constants for TLC: a checkout "app" with a member, a checkout "lib" of another project on *)
(* the same machine, and "ci", a clone of the first on a machine of its own.                 *)
EXTENDS LockTrust, TLC

MCMachine == "app" :> "desk" @@ "lib" :> "desk" @@ "ci" :> "runner"
Alike == Permutations(Processes)

MCClones == {<<"app", "ci">>}
MCMembers == {"app", "ci"}

Command(op, at) == [op |-> op, at |-> at, frozen |-> FALSE, prefetch |-> FALSE, env |-> NoKey,
                    out |-> "home"]
Commands0(ops, at) == {Command(op, at) : op \in ops}
WithKey(cmds, k) == {[cmd EXCEPT !.env = k] : cmd \in cmds}
Runs(at, frozen, prefetch) ==
    {[Command("run", at) EXCEPT !.frozen = f, !.prefetch = q] : f \in frozen, q \in prefetch}

SomeList == [npm |-> {"x"}, member |-> NoMember]
Whole(list, k) == [list |-> list, digest |-> list,
                   signature |-> IF k = NoKey THEN Unsigned ELSE SignLockDigest(list, k)]
Before == [list |-> SomeList, digest |-> Unknown, signature |-> Unsigned]

World(cmds, given, changes, l, inl, pubs, k) ==
    [commands |-> cmds, budget |-> given, edits |-> changes, lock |-> [c \in Checkouts |-> l],
     inline |-> [c \in Checkouts |-> inl], pub |-> [c \in Checkouts |-> pubs],
     home |-> [m \in Machines |-> IF m = "desk" THEN k ELSE NoKey], made |-> k]

\* From keygen to a signed lock, beside other commands of the project.
Beginning == World(Commands0({"keygen", "sign", "add"}, "app")
                     \cup {[Command("keygen", "app") EXCEPT !.out = "project"]}
                     \cup Runs("app", {TRUE}, {TRUE}), 3, 1, NoLock, NoKey, NoKey, NoKey)

\* Two projects with the key of one machine.
Neighbours == World(Commands0({"keygen"}, "lib") \cup Commands0({"add", "sign", "remove"}, "app")
                      \cup Runs("app", {TRUE}, BOOLEAN), 3, 1, Whole(SomeList, 1), NoKey, 1, 1)

\* A clone without a private key, or with one in the environment.
Clone == World(Commands0({"snapshot", "remove"}, "app") \cup Commands0({"ci"}, "ci")
                 \cup WithKey(Commands0({"ci"}, "ci"), 1) \cup Runs("ci", BOOLEAN, {TRUE}),
               3, 2, Before, 1, NoKey, 1)

\* A key in knot.toml, and another in .knot/lock.pub.
Hidden == [World(Commands0({"add", "ci", "sign"}, "app") \cup WithKey(Commands0({"sign"}, "app"), 2)
                  \cup Runs("app", {FALSE}, {FALSE}), 3, 0, Whole(SomeList, 1), 1, 2, 1)
             EXCEPT !.made = 2, !.home = [m \in Machines |-> NoKey]]

Registry == World(Commands0({"inspect"}, "app"), 1, 0, Before, NoKey, NoKey, NoKey)

MCWorlds == {Beginning, Neighbours, Clone, Hidden, Registry}

Cert(k, issuer, current) == [key |-> k, issuer |-> issuer, current |-> current, identity |-> k]
Sealed0(signers, subjects, cert) == [envelope |-> "sealed", signers |-> signers,
                                     subjects |-> subjects, certificate |-> cert]
MCBundles ==
    {NoBundle, Sealed0({"k"}, {"d"}, NoCertificate)}
      \cup {[Sealed0({}, {"d"}, Cert("k", "ca", TRUE)) EXCEPT !.envelope = e] :
              e \in {"empty", "garbled"}}
      \cup {Sealed0(signers, subjects, cert) :
              signers \in {{"k"}, {"ca"}}, subjects \in {{}, {"d", "e"}},
              cert \in {Cert("k", "ca", TRUE), Cert("k", "ca", FALSE), Cert("ca", "ca", TRUE),
                        [Cert("k", "k", TRUE) EXCEPT !.identity = Nobody]}}
MCResponses == UNION {[1 .. n -> MCBundles] : n \in 0 .. 2}
MCRootLists ==
    {<< >>, <<Cert("ca", "ca", TRUE)>>, <<Cert("ca", "ca", FALSE), Cert("k", "ca", TRUE)>>}
==============================================================================
