---------------------------- MODULE ImportersProofs ----------------------------
(***************************************************************************)
(* What the functions of PackageMaps and Importers return, for any maps,   *)
(* members and versions: the facts that the proofs about Imports rest on.  *)
(***************************************************************************)
EXTENDS Importers, FiniteSetTheorems, WellFoundedInduction, TLAPS

LEMMA LeastNumber ==
    ASSUME NEW T \in SUBSET Nat, T # {}
    PROVE  \E n \in T : \A m \in T : n <= m
<1> DEFINE Less == {p \in Nat \X Nat : p[1] < p[2]}
<1>1. IsWellFoundedOn(Less, Nat)
  BY NatLessThanWellFounded DEF OpToRel
<1>2. \A m, n \in Nat : <<m, n>> \notin Less => n <= m
  OBVIOUS
<1> HIDE DEF Less
<1>3. \E n \in T : \A m \in T : <<m, n>> \notin Less
  BY <1>1, WFMin
<1> QED BY <1>2, <1>3

LEMMA FirstButFinds ==
    ASSUME NEW none, NEW s, DOMAIN s \subseteq Nat
    PROVE  IF \A i \in DOMAIN s : s[i] = none THEN FirstBut(none, s) = none
           ELSE \E i \in DOMAIN s : FirstBut(none, s) = s[i] /\ s[i] # none
<1> DEFINE I == {i \in DOMAIN s : s[i] # none}
<1>1. CASE I = {}
  BY <1>1 DEF FirstBut
<1>2. CASE I # {}
  <2>1. \E i \in I : \A j \in I : i <= j
    BY <1>2, LeastNumber
  <2> DEFINE least == CHOOSE i \in I : \A j \in I : i <= j
  <2>2. least \in I
    BY <2>1
  <2>3. FirstBut(none, s) = s[least]
    BY <1>2 DEF FirstBut
  <2> HIDE DEF least
  <2> QED BY <2>2, <2>3
<1> QED BY <1>1, <1>2

------------------------------------------------------------------------------
(* Functions defined by recursion over what is less deep *)

\* A rule for values in V that looks only at what is less deep.
IsRule(G, S, d, V) ==
    /\ d \in [S -> Nat] /\ G \in [S \X [S -> V] -> V]
    /\ \A x \in S, f, g \in [S -> V] :
          (\A y \in S : d[y] < d[x] => f[y] = g[y]) => G[<<x, f>>] = G[<<x, g>>]

\* Up to any depth there is a function that obeys it.
LEMMA RecursionUpTo ==
    ASSUME NEW S, NEW V, NEW d, NEW G, IsRule(G, S, d, V), NEW v \in V
    PROVE  \A n \in Nat : \E f \in [S -> V] : \A x \in S : d[x] < n => f[x] = G[<<x, f>>]
<1> USE DEF IsRule
<1> DEFINE Obeys(f, n) == \A x \in S : d[x] < n => f[x] = G[<<x, f>>]
           Failing == {n \in Nat : ~\E f \in [S -> V] : Obeys(f, n)}
<1>1. Failing = {}
  <2> SUFFICES ASSUME Failing # {} PROVE FALSE
    OBVIOUS
  <2>1. PICK n \in Failing : \A m \in Failing : n <= m
    BY LeastNumber
  <2>2. [x \in S |-> v] \in [S -> V] /\ Obeys([x \in S |-> v], 0)
    OBVIOUS
  <2>3. n \in Nat \ {0} /\ n - 1 \in Nat \ Failing
    <3>1. n # 0
      BY <2>1, <2>2
    <3> HIDE DEF Failing
    <3>2. n \in Nat
      BY <2>1 DEF Failing
    <3> QED BY <2>1, <3>1, <3>2
  <2>4. PICK f \in [S -> V] : Obeys(f, n - 1)
    BY <2>3
  <2> DEFINE g == [x \in S |-> G[<<x, f>>]]
  <2>5. g \in [S -> V]
    OBVIOUS
  <2>6. ASSUME NEW x \in S, d[x] < n PROVE g[x] = G[<<x, g>>]
    <3>1. \A y \in S : d[y] < d[x] => f[y] = g[y]
      BY <2>3, <2>4, <2>6
    <3>2. G[<<x, f>>] = G[<<x, g>>]
      BY <2>5, <3>1
    <3> QED BY <3>2
  <2> HIDE DEF g
  <2> QED BY <2>1, <2>5, <2>6
<1> QED BY <1>1

LEMMA RecursionHolds ==
    ASSUME NEW S, NEW V, NEW d, NEW G, IsRule(G, S, d, V), NEW v \in V
    PROVE  \E f \in [S -> V] : \A x \in S : f[x] = G[<<x, f>>]
<1> DEFINE Obeys(f, n) == \A x \in S : d[x] < n => f[x] = G[<<x, f>>]
           upto(n) == CHOOSE f \in [S -> V] : Obeys(f, n)
           h == [x \in S |-> upto(d[x] + 1)[x]]
<1>1. \A n \in Nat : upto(n) \in [S -> V] /\ Obeys(upto(n), n)
  <2>1. \A n \in Nat : \E f \in [S -> V] : Obeys(f, n)
    BY RecursionUpTo
  <2> HIDE DEF Obeys
  <2> QED BY <2>1
<1> HIDE DEF upto
<1> USE DEF IsRule
<1>2. ASSUME NEW m \in Nat, NEW n \in Nat
      PROVE  \A x \in S : d[x] < m /\ d[x] < n => upto(m)[x] = upto(n)[x]
  <2> DEFINE Differ == {k \in Nat : \E x \in S : /\ k = d[x] /\ d[x] < m /\ d[x] < n
                                                 /\ upto(m)[x] # upto(n)[x]}
  <2> SUFFICES ASSUME Differ # {} PROVE FALSE
    OBVIOUS
  <2>1. PICK k \in Differ : \A j \in Differ : k <= j
    BY LeastNumber
  <2>2. PICK x \in S : k = d[x] /\ d[x] < m /\ d[x] < n /\ upto(m)[x] # upto(n)[x]
    BY <2>1
  <2>3. ASSUME NEW y \in S, d[y] < d[x] PROVE upto(m)[y] = upto(n)[y]
    <3>1. d[y] \in Nat /\ d[x] \in Nat /\ d[y] < m /\ d[y] < n
      BY <2>2, <2>3
    <3>2. d[y] \notin Differ
      BY <2>1, <2>2, <2>3, <3>1
    <3> QED BY <3>1, <3>2
  <2>4. G[<<x, upto(m)>>] = G[<<x, upto(n)>>]
    BY <1>1, <2>3
  <2> QED BY <1>1, <2>2, <2>4
<1>3. h \in [S -> V]
  BY <1>1
<1>4. ASSUME NEW x \in S PROVE h[x] = G[<<x, h>>]
  <2>1. d[x] + 1 \in Nat /\ d[x] < d[x] + 1
    OBVIOUS
  <2>2. h[x] = G[<<x, upto(d[x] + 1)>>]
    BY <1>1, <2>1
  <2>3. \A y \in S : d[y] < d[x] => upto(d[x] + 1)[y] = h[y]
    BY <1>2
  <2>4. G[<<x, upto(d[x] + 1)>>] = G[<<x, h>>]
    BY <1>1, <1>3, <2>1, <2>3
  <2> QED BY <2>2, <2>4
<1> QED BY <1>3, <1>4

LEMMA LeastDeep ==
    ASSUME NEW S, NEW T \in SUBSET S, NEW d \in [S -> Nat], NEW B \in SUBSET T, B # {}
    PROVE  \E x \in B : \A y \in B : d[x] <= d[y]
<1> DEFINE Depths == {d[x] : x \in B}
<1>1. Depths \in SUBSET Nat /\ Depths # {}
  OBVIOUS
<1>2. PICK n \in Depths : \A m \in Depths : n <= m
  <2> HIDE DEF Depths
  <2> QED BY <1>1, LeastNumber
<1> QED BY <1>2

------------------------------------------------------------------------------
(* Targets *)

LEMMA FirstButIn ==
    ASSUME NEW V, NEW none \in V, NEW s, DOMAIN s \subseteq Nat, \A i \in DOMAIN s : s[i] \in V
    PROVE  FirstBut(none, s) \in V
BY FirstButFinds

LEMMA SequenceDomain ==
    ASSUME NEW s, IsSequence(s)
    PROVE  Len(s) \in Nat /\ DOMAIN s = 1 .. Len(s) /\ DOMAIN s \subseteq Nat
BY DEF IsSequence

LEMMA IsOne == ASSUME NEW S, NEW s \in Seq(S) PROVE IsSequence(s)
<1> DEFINE T == {s[i] : i \in DOMAIN s}
<1>1. /\ Len(s) \in Nat /\ DOMAIN s = 1 .. Len(s)
      /\ s = [i \in 1 .. Len(s) |-> s[i]] /\ \A i \in 1 .. Len(s) : s[i] \in T
  OBVIOUS
<1> HIDE DEF T
<1>2. [i \in 1 .. Len(s) |-> s[i]] \in Seq(T)
  BY <1>1
<1> QED BY <1>1, <1>2 DEF IsSequence, T

LEMMA AttemptsAreLess ==
    ASSUME NEW cs \in Seq(Known), NEW t \in Targets
    PROVE  /\ DOMAIN Attempts(t, cs) \subseteq Nat
           /\ \A i \in DOMAIN Attempts(t, cs) : /\ Attempts(t, cs)[i] \in Parts(t)
                                               /\ Attempts(t, cs)[i] \in Targets
                                               /\ Depth[Attempts(t, cs)[i]] < Depth[t]
<1>1. DOMAIN Append(cs, "default") \subseteq Nat
  BY DEF Known
<1>2. Parts(t) \subseteq Targets /\ \A part \in Parts(t) : Depth[part] < Depth[t]
  BY MapsAssumption
<1>3. t.kind \in {"nothing", "file", "list", "when"} /\ t.kind = "list" => DOMAIN t.items \subseteq Nat
  BY MapsAssumption
<1>4. DOMAIN Attempts(t, cs) \subseteq Nat
  BY <1>1, <1>3 DEF Attempts
<1>5. \A i \in DOMAIN Attempts(t, cs) : Attempts(t, cs)[i] \in Parts(t)
  BY <1>3 DEF Attempts, Parts
<1> QED BY <1>2, <1>4, <1>5

\* resolveTarget, read as an equation.
LEMMA ResolveTargetIs ==
    ASSUME NEW cs \in Seq(Known)
    PROVE  \A t \in Targets :
             /\ ResolveTarget(t, cs) \in STRING
             /\ ResolveTarget(t, cs) =
                  IF t.kind = "file" THEN t.path
                  ELSE FirstBut(NoPath, [i \in DOMAIN Attempts(t, cs) |->
                                           ResolveTarget(Attempts(t, cs)[i], cs)])
<1> DEFINE Found(t, f) == [i \in DOMAIN Attempts(t, cs) |-> f[Attempts(t, cs)[i]]]
           Rule(t, f) == IF t.kind = "file" THEN t.path ELSE FirstBut(NoPath, Found(t, f))
           G == [q \in Targets \X [Targets -> STRING] |-> Rule(q[1], q[2])]
           d == [t \in Targets |-> Depth[t]]
           found[t \in Targets] == IF t.kind = "file" THEN t.path
                                   ELSE FirstBut(NoPath, [i \in DOMAIN Attempts(t, cs) |->
                                                            found[Attempts(t, cs)[i]]])
<1>1. /\ NoPath \in STRING
      /\ \A t \in Targets :
           /\ t.kind = "file" => t.path \in STRING
           /\ DOMAIN Attempts(t, cs) \subseteq Nat
           /\ \A i \in DOMAIN Attempts(t, cs) : /\ Attempts(t, cs)[i] \in Targets
                                               /\ Depth[Attempts(t, cs)[i]] < Depth[t]
  <2>1. NoPath \in STRING
    BY LiteralsAssumption
  <2>2. \A t \in Targets \cup Fields : t.kind = "file" => t.path \in STRING
    BY MapsAssumption
  <2> QED BY <2>1, <2>2, AttemptsAreLess
<1>2. ASSUME NEW t \in Targets, NEW f \in [Targets -> STRING] PROVE Rule(t, f) \in STRING
  BY <1>1, FirstButIn
<1>3. ASSUME NEW t \in Targets, NEW f \in [Targets -> STRING], NEW g \in [Targets -> STRING],
             \A y \in Targets : d[y] < d[t] => f[y] = g[y]
      PROVE  Rule(t, f) = Rule(t, g)
  <2>1. Found(t, f) = Found(t, g)
    BY <1>1, <1>3
  <2> HIDE DEF Found
  <2> QED BY <2>1
<1>4. IsRule(G, Targets, d, STRING)
  <2>1. d \in [Targets -> Nat]
    BY MapsAssumption
  <2> HIDE DEF Rule, d
  <2>2. G \in [Targets \X [Targets -> STRING] -> STRING]
    BY <1>2
  <2>3. \A t \in Targets, f \in [Targets -> STRING] : G[<<t, f>>] = Rule(t, f)
    OBVIOUS
  <2> HIDE DEF G
  <2>4. ASSUME NEW t \in Targets, NEW f \in [Targets -> STRING], NEW g \in [Targets -> STRING],
               \A y \in Targets : d[y] < d[t] => f[y] = g[y]
        PROVE  G[<<t, f>>] = G[<<t, g>>]
    BY <1>3, <2>3, <2>4
  <2> QED BY <2>1, <2>2, <2>4 DEF IsRule
<1>5. PICK f \in [Targets -> STRING] : \A t \in Targets : f[t] = G[<<t, f>>]
  <2> HIDE DEF G, d
  <2> QED BY <1>1, <1>4, RecursionHolds
<1>6. f = [t \in Targets |-> Rule(t, f)]
  <2> HIDE DEF Rule
  <2> QED BY <1>5
<1>7. found = [t \in Targets |-> Rule(t, found)]
  BY <1>6
<1>8. \A t : ResolveTarget(t, cs) = found[t]
  BY DEF ResolveTarget
<1> HIDE DEF found
<1>9. \A t \in Targets : found[t] = Rule(t, found)
  <2> HIDE DEF Rule
  <2> QED BY <1>7
<1>10. \A t \in Targets : Found(t, found) = [i \in DOMAIN Attempts(t, cs) |->
                                             ResolveTarget(Attempts(t, cs)[i], cs)]
  BY <1>8
<1>11. \A t \in Targets : found[t] \in STRING
  <2> DEFINE Bad == {t \in Targets : found[t] \notin STRING}
  <2> SUFFICES ASSUME Bad # {} PROVE FALSE
    OBVIOUS
  <2>1. PICK t \in Bad : \A y \in Bad : Depth[t] <= Depth[y]
    BY LeastDeep, MapsAssumption
  <2>2. \A i \in DOMAIN Attempts(t, cs) : found[Attempts(t, cs)[i]] \in STRING
    <3>1. \A y \in Targets : Depth[y] \in Nat
      BY MapsAssumption
    <3> QED BY <1>1, <2>1, <3>1
  <2>3. Rule(t, found) \in STRING
    BY <1>1, <2>1, <2>2, FirstButIn
  <2> QED BY <1>9, <2>1, <2>3
<1> QED BY <1>8, <1>9, <1>10, <1>11

\* The leaves of a target, read as an equation.
LEMMA LeavesAre ==
    \A t \in Targets : Leaves(t) = IF t.kind = "file" THEN {t.path}
                                   ELSE UNION {Leaves(part) : part \in Parts(t)}
<1> DEFINE Found(t, f) == {f[part] : part \in Parts(t)}
           Rule(t, f) == IF t.kind = "file" THEN {t.path} ELSE UNION Found(t, f)
           V == SUBSET STRING
           G == [q \in Targets \X [Targets -> V] |-> Rule(q[1], q[2])]
           d == [t \in Targets |-> Depth[t]]
           leaves[t \in Targets] == IF t.kind = "file" THEN {t.path}
                                    ELSE UNION {leaves[part] : part \in Parts(t)}
<1>1. \A t \in Targets :
        /\ t.kind = "file" => t.path \in STRING
        /\ \A part \in Parts(t) : part \in Targets /\ Depth[part] < Depth[t]
  <2>1. \A t \in Targets \cup Fields : /\ t.kind = "file" => t.path \in STRING
                                       /\ \A part \in Parts(t) : Depth[part] < Depth[t]
    BY MapsAssumption
  <2>2. \A t \in Targets : Parts(t) \subseteq Targets
    BY MapsAssumption
  <2> QED BY <2>1, <2>2
<1>2. ASSUME NEW t \in Targets, NEW f \in [Targets -> V] PROVE Rule(t, f) \in V
  BY <1>1
<1>3. ASSUME NEW t \in Targets, NEW f \in [Targets -> V], NEW g \in [Targets -> V],
             \A y \in Targets : d[y] < d[t] => f[y] = g[y]
      PROVE  Rule(t, f) = Rule(t, g)
  <2>1. \A part \in Parts(t) : f[part] = g[part]
    BY <1>1, <1>3
  <2>2. Found(t, f) = Found(t, g)
    BY <2>1
  <2> HIDE DEF Found
  <2> QED BY <2>2
<1>4. IsRule(G, Targets, d, V)
  <2>1. d \in [Targets -> Nat]
    BY MapsAssumption
  <2> HIDE DEF Rule, d, V
  <2>2. G \in [Targets \X [Targets -> V] -> V]
    BY <1>2
  <2>3. \A t \in Targets, f \in [Targets -> V] : G[<<t, f>>] = Rule(t, f)
    OBVIOUS
  <2> HIDE DEF G
  <2>4. ASSUME NEW t \in Targets, NEW f \in [Targets -> V], NEW g \in [Targets -> V],
               \A y \in Targets : d[y] < d[t] => f[y] = g[y]
        PROVE  G[<<t, f>>] = G[<<t, g>>]
    BY <1>3, <2>3, <2>4
  <2> QED BY <2>1, <2>2, <2>4 DEF IsRule
<1>5. PICK f \in [Targets -> V] : \A t \in Targets : f[t] = G[<<t, f>>]
  <2>1. {} \in V
    OBVIOUS
  <2> HIDE DEF G, d, V
  <2> QED BY <1>4, <2>1, RecursionHolds
<1>6. f = [t \in Targets |-> Rule(t, f)]
  <2> HIDE DEF Rule, V
  <2>1. \A t \in Targets : G[<<t, f>>] = Rule(t, f)
    OBVIOUS
  <2> HIDE DEF G
  <2>2. \A t \in Targets : f[t] = Rule(t, f)
    BY <1>5, <2>1
  <2>3. f = [t \in Targets |-> f[t]]
    OBVIOUS
  <2> QED BY <2>2, <2>3
<1>7. leaves = [t \in Targets |-> Rule(t, leaves)]
  <2> DEFINE Is(g) == g = [t \in Targets |-> Rule(t, g)]
  <2>1. leaves = CHOOSE g : Is(g)
    OBVIOUS
  <2>2. Is(f)
    BY <1>6
  <2> HIDE DEF leaves, Is
  <2>3. Is(leaves)
    BY <2>1, <2>2
  <2> QED BY <2>3 DEF Is
<1>8. \A t : Leaves(t) = leaves[t]
  BY DEF Leaves
<1> HIDE DEF leaves
<1>9. \A t \in Targets : leaves[t] = Rule(t, leaves)
  <2> HIDE DEF Rule
  <2> QED BY <1>7
<1>10. \A t \in Targets : Found(t, leaves) = {Leaves(part) : part \in Parts(t)}
  BY <1>8
<1> QED BY <1>8, <1>9, <1>10

\* A target resolves to one of its leaves, if to anything.
LEMMA TargetLeads ==
    ASSUME NEW cs \in Seq(Known), NEW target \in Targets
    PROVE  ResolveTarget(target, cs) \in Leaves(target) \cup {NoPath}
<1> DEFINE Bad == {t \in Targets : ResolveTarget(t, cs) \notin Leaves(t) \cup {NoPath}}
<1> SUFFICES ASSUME Bad # {} PROVE FALSE
  OBVIOUS
<1>1. PICK t \in Bad : \A y \in Bad : Depth[t] <= Depth[y]
  BY LeastDeep, MapsAssumption
<1> DEFINE found == [i \in DOMAIN Attempts(t, cs) |-> ResolveTarget(Attempts(t, cs)[i], cs)]
<1>2. CASE t.kind = "file"
  BY <1>1, <1>2, ResolveTargetIs, LeavesAre
<1>3. CASE t.kind # "file"
  <2>1. ResolveTarget(t, cs) = FirstBut(NoPath, found)
    BY <1>1, <1>3, ResolveTargetIs
  <2>2. \A i \in DOMAIN found :
          Attempts(t, cs)[i] \in Parts(t) /\ Attempts(t, cs)[i] \in Targets \ Bad
    <3>1. \A y \in Targets : Depth[y] \in Nat
      BY MapsAssumption
    <3> QED BY <1>1, <3>1, AttemptsAreLess
  <2>3. \A i \in DOMAIN found : found[i] \in Leaves(t) \cup {NoPath}
    <3>1. Leaves(t) = UNION {Leaves(part) : part \in Parts(t)}
      BY <1>1, <1>3, LeavesAre
    <3> QED BY <2>2, <3>1
  <2>4. DOMAIN found \subseteq Nat
    BY <1>1, AttemptsAreLess
  <2> HIDE DEF found
  <2>5. FirstBut(NoPath, found) \in Leaves(t) \cup {NoPath}
    BY <2>3, <2>4, FirstButIn
  <2> QED BY <1>1, <2>1, <2>5
<1> QED BY <1>2, <1>3

------------------------------------------------------------------------------
(* Fields *)

LEMMA SelectOffered ==
    ASSUME NEW cs \in Seq(Known), NEW f \in Fields, f.kind # "list", NEW sub \in STRING
    PROVE  /\ Select(f, sub, cs) \in OfferedBy(f, sub) \cup {Unfound}
           /\ Select(f, sub, cs) \in STRING \X STRING
<1>1. /\ f.kind \in {"file", "when"} => f \in Targets
      /\ f.kind = "paths" => /\ Parts(f) \subseteq Targets
                             /\ DOMAIN f.patterns \subseteq Nat
  <2>1. f.kind = "paths" => Parts(f) \subseteq Targets /\ IsSequence(f.patterns)
    BY MapsAssumption
  <2>2. f.kind \in {"file", "when"} => f \in Targets
    BY MapsAssumption
  <2> QED BY <2>1, <2>2, SequenceDomain
<1>2. NoPath \in STRING /\ Unfound \in STRING \X STRING
  BY LiteralsAssumption DEF Unfound
<1>3. ASSUME NEW t \in Targets, NEW list \in Seq(Known)
      PROVE  /\ Plain(ResolveTarget(t, list)) \in {Plain(path) : path \in Leaves(t)} \cup {Unfound}
             /\ Plain(ResolveTarget(t, list)) \in STRING \X STRING
  BY <1>2, <1>3, TargetLeads, ResolveTargetIs DEF Plain, Unfound
<1>4. CASE f.kind = "paths" /\ sub \in DOMAIN f.exact
  <2>1. f.exact[sub] \in Targets
    BY <1>1, <1>4 DEF Parts
  <2>2. Select(f, sub, cs) = Plain(ResolveTarget(f.exact[sub], cs))
    BY <1>4 DEF Select
  <2>3. {Plain(path) : path \in Leaves(f.exact[sub])} \subseteq OfferedBy(f, sub)
    BY <1>4 DEF OfferedBy
  <2> QED BY <1>3, <2>1, <2>2, <2>3
<1>5. CASE f.kind = "paths" /\ sub \notin DOMAIN f.exact
  <2> DEFINE path(i) == ResolveTarget(f.patterns[i].target, ImportConditions)
             tried == [i \in DOMAIN f.patterns |->
                         IF sub \in f.patterns[i].covers /\ path(i) # NoPath
                         THEN Fill(path(i), sub) ELSE Unfound]
  <2>1. Select(f, sub, cs) = FirstBut(Unfound, tried)
    BY <1>5 DEF Select, MatchWildcard
  <2>2. ImportConditions \in Seq(Known)
    BY DEF ImportConditions, Known
  <2>3. ASSUME NEW i \in DOMAIN f.patterns
        PROVE  /\ tried[i] \in OfferedBy(f, sub) \cup {Unfound}
               /\ tried[i] \in STRING \X STRING
    <3>1. f.patterns[i].target \in Targets
      BY <1>1, <1>5 DEF Parts
    <3>2. path(i) \in Leaves(f.patterns[i].target) \cup {NoPath} /\ path(i) \in STRING
      BY <2>2, <3>1, TargetLeads, ResolveTargetIs
    <3> HIDE DEF path
    <3>3. CASE sub \in f.patterns[i].covers /\ path(i) # NoPath
      <4>1. Fill(path(i), sub) \in OfferedBy(f, sub)
        <5> DEFINE J == {j \in DOMAIN f.patterns : sub \in f.patterns[j].covers}
                   Filled(j) == {Fill(p, sub) : p \in Leaves(f.patterns[j].target)}
        <5>1. UNION {Filled(j) : j \in J} \subseteq OfferedBy(f, sub)
          BY <1>5 DEF OfferedBy
        <5>2. i \in J
          BY <3>3
        <5>3. Fill(path(i), sub) \in Filled(i)
          BY <3>2, <3>3
        <5> HIDE DEF J, Filled
        <5> QED BY <5>1, <5>2, <5>3
      <4>2. Fill(path(i), sub) \in STRING \X STRING
        BY <1>2, <3>2 DEF Fill
      <4> QED BY <3>3, <4>1, <4>2
    <3>4. CASE ~(sub \in f.patterns[i].covers /\ path(i) # NoPath)
      BY <1>2, <3>4
    <3> QED BY <3>3, <3>4
  <2>4. DOMAIN tried \subseteq Nat /\ \A i \in DOMAIN tried : i \in DOMAIN f.patterns
    BY <1>1, <1>5
  <2> HIDE DEF tried
  <2>5. FirstBut(Unfound, tried) \in OfferedBy(f, sub) \cup {Unfound}
    <3> DEFINE V == OfferedBy(f, sub) \cup {Unfound}
    <3>1. Unfound \in V /\ \A i \in DOMAIN tried : tried[i] \in V
      BY <2>3, <2>4
    <3> HIDE DEF V
    <3>2. FirstBut(Unfound, tried) \in V
      BY <2>4, <3>1, FirstButIn
    <3> QED BY <3>2 DEF V
  <2>6. FirstBut(Unfound, tried) \in STRING \X STRING
    <3>1. \A i \in DOMAIN tried : tried[i] \in STRING \X STRING
      BY <2>3, <2>4
    <3> QED BY <1>2, <2>4, <3>1, FirstButIn
  <2> QED BY <2>1, <2>5, <2>6
<1>6. CASE f.kind \in {"file", "when"} /\ sub = Root
  <2>1. Select(f, sub, cs) = Plain(ResolveTarget(f, cs))
    BY <1>6 DEF Select
  <2>2. OfferedBy(f, sub) = {Plain(path) : path \in Leaves(f)}
    BY <1>6 DEF OfferedBy
  <2> QED BY <1>1, <1>3, <1>6, <2>1, <2>2
<1>7. CASE f.kind # "paths" /\ ~(f.kind \in {"file", "when"} /\ sub = Root)
  <2>1. Select(f, sub, cs) = Unfound
    BY <1>7 DEF Select
  <2> QED BY <1>2, <2>1
<1> QED BY <1>4, <1>5, <1>6, <1>7

LEMMA FieldItems ==
    ASSUME NEW f \in Fields, f.kind = "list"
    PROVE  /\ DOMAIN f.items \subseteq Nat
           /\ \A i \in DOMAIN f.items : f.items[i] \in Fields /\ Depth[f.items[i]] < Depth[f]
<1>1. f.items \in Seq(Fields)
  BY MapsAssumption
<1>2. \A part \in Parts(f) : Depth[part] < Depth[f]
  BY MapsAssumption
<1> QED BY <1>1, <1>2 DEF Parts

LEMMA LeavesTyped == \A t \in Targets : Leaves(t) \subseteq STRING
<1> DEFINE Bad == {t \in Targets : ~(Leaves(t) \subseteq STRING)}
<1> SUFFICES ASSUME Bad # {} PROVE FALSE
  OBVIOUS
<1>1. PICK t \in Bad : \A y \in Bad : Depth[t] <= Depth[y]
  BY LeastDeep, MapsAssumption
<1>2. \A y \in Targets : Depth[y] \in Nat
  BY MapsAssumption
<1>3. t.kind = "file" => t.path \in STRING
  <2>1. \A x \in Targets \cup Fields : x.kind = "file" => x.path \in STRING
    BY MapsAssumption
  <2> QED BY <1>1, <2>1
<1>4. \A part \in Parts(t) : part \in Targets \ Bad
  <2>1. \A x \in Targets \cup Fields : \A part \in Parts(x) : Depth[part] < Depth[x]
    BY MapsAssumption
  <2>2. Parts(t) \subseteq Targets
    BY <1>1, MapsAssumption
  <2> QED BY <1>1, <1>2, <2>1, <2>2
<1> QED BY <1>1, <1>3, <1>4, LeavesAre

LEMMA OfferedByTyped ==
    ASSUME NEW f \in Fields, f.kind # "list", NEW sub \in STRING
    PROVE  OfferedBy(f, sub) \subseteq STRING \X STRING
<1>1. /\ f.kind \in {"file", "when"} => f \in Targets
      /\ f.kind = "paths" => Parts(f) \subseteq Targets
  BY MapsAssumption
<1>2. ASSUME NEW t \in Targets
      PROVE  \A path \in Leaves(t) : /\ Plain(path) \in STRING \X STRING
                                     /\ Fill(path, sub) \in STRING \X STRING
  BY LeavesTyped, LiteralsAssumption DEF Plain, Fill
<1>3. CASE f.kind = "paths"
  <2>1. \A k \in DOMAIN f.exact : f.exact[k] \in Targets
    BY <1>1, <1>3 DEF Parts
  <2>2. \A i \in DOMAIN f.patterns : f.patterns[i].target \in Targets
    BY <1>1, <1>3 DEF Parts
  <2>3. {Plain(path) : path \in UNION {Leaves(f.exact[k]) : k \in {sub} \cap DOMAIN f.exact}}
          \subseteq STRING \X STRING
    BY <1>2, <2>1
  <2>4. UNION {{Fill(path, sub) : path \in Leaves(f.patterns[i].target)} :
                 i \in {j \in DOMAIN f.patterns : sub \in f.patterns[j].covers}}
          \subseteq STRING \X STRING
    BY <1>2, <2>2
  <2> QED BY <1>3, <2>3, <2>4 DEF OfferedBy
<1>4. CASE f.kind # "paths"
  BY <1>1, <1>2, <1>4 DEF OfferedBy
<1> QED BY <1>3, <1>4

\* resolveExports, read as an equation.
LEMMA ResolveExportsIs ==
    ASSUME NEW cs \in Seq(Known), NEW sub \in STRING
    PROVE  \A f \in Fields :
             ResolveExports(f, sub, cs) =
               IF f.kind = "list"
               THEN FirstBut(Unfound, [i \in DOMAIN f.items |->
                                         ResolveExports(f.items[i], sub, cs)])
               ELSE Select(f, sub, cs)
<1> DEFINE V == STRING \X STRING
           Found(f, h) == [i \in DOMAIN f.items |-> h[f.items[i]]]
           Rule(f, h) == IF f.kind = "list" THEN FirstBut(Unfound, Found(f, h))
                         ELSE Select(f, sub, cs)
           G == [q \in Fields \X [Fields -> V] |-> Rule(q[1], q[2])]
           d == [f \in Fields |-> Depth[f]]
           found[f \in Fields] == IF f.kind = "list"
                                  THEN FirstBut(Unfound, [i \in DOMAIN f.items |->
                                                            found[f.items[i]]])
                                  ELSE Select(f, sub, cs)
<1>1. \A f \in Fields : f.kind = "list" =>
         /\ DOMAIN f.items \subseteq Nat
         /\ \A i \in DOMAIN f.items : f.items[i] \in Fields /\ Depth[f.items[i]] < Depth[f]
  BY FieldItems
<1>2. ASSUME NEW f \in Fields, NEW h \in [Fields -> V] PROVE Rule(f, h) \in V
  <2>1. CASE f.kind = "list"
    <3>1. Unfound \in V
      BY LiteralsAssumption DEF Unfound
    <3>2. DOMAIN Found(f, h) \subseteq Nat /\ \A i \in DOMAIN Found(f, h) : Found(f, h)[i] \in V
      BY <1>1, <2>1
    <3> HIDE DEF Found, V
    <3> QED BY <2>1, <3>1, <3>2, FirstButIn
  <2>2. CASE f.kind # "list"
    BY <2>2, SelectOffered
  <2> QED BY <2>1, <2>2
<1>3. ASSUME NEW f \in Fields, NEW g \in [Fields -> V], NEW h \in [Fields -> V],
             \A y \in Fields : d[y] < d[f] => g[y] = h[y]
      PROVE  Rule(f, g) = Rule(f, h)
  <2>1. f.kind = "list" => Found(f, g) = Found(f, h)
    BY <1>1, <1>3
  <2> HIDE DEF Found
  <2> QED BY <2>1
<1>4. IsRule(G, Fields, d, V)
  <2>1. d \in [Fields -> Nat]
    BY MapsAssumption
  <2> HIDE DEF Rule, d, V
  <2>2. G \in [Fields \X [Fields -> V] -> V]
    BY <1>2
  <2>3. \A f \in Fields, h \in [Fields -> V] : G[<<f, h>>] = Rule(f, h)
    OBVIOUS
  <2> HIDE DEF G
  <2>4. ASSUME NEW f \in Fields, NEW g \in [Fields -> V], NEW h \in [Fields -> V],
               \A y \in Fields : d[y] < d[f] => g[y] = h[y]
        PROVE  G[<<f, g>>] = G[<<f, h>>]
    BY <1>3, <2>3, <2>4
  <2> QED BY <2>1, <2>2, <2>4 DEF IsRule
<1>5. PICK h \in [Fields -> V] : \A f \in Fields : h[f] = G[<<f, h>>]
  <2>1. Unfound \in V
    BY LiteralsAssumption DEF Unfound
  <2> HIDE DEF G, d, V
  <2> QED BY <1>4, <2>1, RecursionHolds
<1>6. h = [f \in Fields |-> Rule(f, h)]
  <2> HIDE DEF Rule, V
  <2> QED BY <1>5
<1>7. found = [f \in Fields |-> Rule(f, found)]
  BY <1>6
<1>8. \A f : ResolveExports(f, sub, cs) = found[f]
  BY DEF ResolveExports
<1> HIDE DEF found
<1>9. \A f \in Fields : found[f] = Rule(f, found)
  <2> HIDE DEF Rule
  <2> QED BY <1>7
<1>10. \A f \in Fields : Found(f, found) = [i \in DOMAIN f.items |->
                                             ResolveExports(f.items[i], sub, cs)]
  BY <1>8
<1> QED BY <1>8, <1>9, <1>10

\* What a field offers, read as an equation.
LEMMA OfferedIs ==
    ASSUME NEW sub \in STRING
    PROVE  \A f \in Fields : Offered(f, sub) = IF f.kind = "list"
                                               THEN UNION {Offered(part, sub) : part \in Parts(f)}
                                               ELSE OfferedBy(f, sub)
<1> DEFINE V == SUBSET (STRING \X STRING)
           Found(f, h) == {h[part] : part \in Parts(f)}
           Rule(f, h) == IF f.kind = "list" THEN UNION Found(f, h) ELSE OfferedBy(f, sub)
           G == [q \in Fields \X [Fields -> V] |-> Rule(q[1], q[2])]
           d == [f \in Fields |-> Depth[f]]
           offered[f \in Fields] == IF f.kind = "list"
                                    THEN UNION {offered[part] : part \in Parts(f)}
                                    ELSE OfferedBy(f, sub)
<1>1. \A f \in Fields : f.kind = "list" =>
         \A part \in Parts(f) : part \in Fields /\ Depth[part] < Depth[f]
  BY FieldItems DEF Parts
<1>2. ASSUME NEW f \in Fields, NEW h \in [Fields -> V] PROVE Rule(f, h) \in V
  <2>1. CASE f.kind = "list"
    BY <1>1, <2>1
  <2>2. CASE f.kind # "list"
    BY <2>2, OfferedByTyped
  <2> QED BY <2>1, <2>2
<1>3. ASSUME NEW f \in Fields, NEW g \in [Fields -> V], NEW h \in [Fields -> V],
             \A y \in Fields : d[y] < d[f] => g[y] = h[y]
      PROVE  Rule(f, g) = Rule(f, h)
  <2>1. CASE f.kind = "list"
    <3>1. \A part \in Parts(f) : g[part] = h[part]
      BY <1>1, <1>3, <2>1
    <3>2. Found(f, g) = Found(f, h)
      BY <3>1
    <3> HIDE DEF Found
    <3> QED BY <3>2
  <2>2. CASE f.kind # "list"
    BY <2>2
  <2> QED BY <2>1, <2>2
<1>4. IsRule(G, Fields, d, V)
  <2>1. d \in [Fields -> Nat]
    BY MapsAssumption
  <2> HIDE DEF Rule, d, V
  <2>2. G \in [Fields \X [Fields -> V] -> V]
    BY <1>2
  <2>3. \A f \in Fields, h \in [Fields -> V] : G[<<f, h>>] = Rule(f, h)
    OBVIOUS
  <2> HIDE DEF G
  <2>4. ASSUME NEW f \in Fields, NEW g \in [Fields -> V], NEW h \in [Fields -> V],
               \A y \in Fields : d[y] < d[f] => g[y] = h[y]
        PROVE  G[<<f, g>>] = G[<<f, h>>]
    BY <1>3, <2>3, <2>4
  <2> QED BY <2>1, <2>2, <2>4 DEF IsRule
<1>5. PICK h \in [Fields -> V] : \A f \in Fields : h[f] = G[<<f, h>>]
  <2>1. {} \in V
    OBVIOUS
  <2> HIDE DEF G, d, V
  <2> QED BY <1>4, <2>1, RecursionHolds
<1>6. h = [f \in Fields |-> Rule(f, h)]
  <2> HIDE DEF Rule, V
  <2> QED BY <1>5
<1>7. offered = [f \in Fields |-> Rule(f, offered)]
  BY <1>6
<1>8. \A f : Offered(f, sub) = offered[f]
  BY DEF Offered
<1> HIDE DEF offered
<1>9. \A f \in Fields : offered[f] = Rule(f, offered)
  <2> HIDE DEF Rule
  <2> QED BY <1>7
<1>10. \A f \in Fields : Found(f, offered) = {Offered(part, sub) : part \in Parts(f)}
  BY <1>8
<1> QED BY <1>8, <1>9, <1>10

\* What resolveExports finds is what the field offers under that subpath, whatever the
\* conditions.
LEMMA ExportsOffered ==
    ASSUME NEW cs \in Seq(Known), NEW field \in Fields, NEW sub \in STRING
    PROVE  /\ ResolveExports(field, sub, cs) \in Offered(field, sub) \cup {Unfound}
           /\ ResolveExports(field, sub, cs) \in STRING \X STRING
<1> DEFINE V(f) == (Offered(f, sub) \cup {Unfound}) \cap (STRING \X STRING)
           Bad == {f \in Fields : ResolveExports(f, sub, cs) \notin V(f)}
<1> SUFFICES ASSUME Bad # {} PROVE FALSE
  OBVIOUS
<1>1. PICK f \in Bad : \A y \in Bad : Depth[f] <= Depth[y]
  BY LeastDeep, MapsAssumption
<1>2. CASE f.kind = "list"
  <2> DEFINE found == [i \in DOMAIN f.items |-> ResolveExports(f.items[i], sub, cs)]
  <2>1. ResolveExports(f, sub, cs) = FirstBut(Unfound, found)
    BY <1>1, <1>2, ResolveExportsIs
  <2>2. DOMAIN f.items \subseteq Nat /\ \A i \in DOMAIN f.items :
          f.items[i] \in Parts(f) /\ f.items[i] \in Fields \ Bad
    <3>1. \A y \in Fields : Depth[y] \in Nat
      BY MapsAssumption
    <3> QED BY <1>1, <1>2, <3>1, FieldItems DEF Parts
  <2>3. Unfound \in V(f)
    BY LiteralsAssumption DEF Unfound
  <2>4. \A i \in DOMAIN found : found[i] \in V(f)
    <3>1. Offered(f, sub) = UNION {Offered(part, sub) : part \in Parts(f)}
      BY <1>1, <1>2, OfferedIs
    <3>2. \A part \in Parts(f) : Offered(part, sub) \subseteq Offered(f, sub)
      BY <3>1
    <3> QED BY <2>2, <3>2
  <2>5. DOMAIN found \subseteq Nat
    BY <2>2
  <2> HIDE DEF found, V
  <2>6. FirstBut(Unfound, found) \in V(f)
    BY <2>3, <2>4, <2>5, FirstButIn
  <2> QED BY <1>1, <2>1, <2>6
<1>3. CASE f.kind # "list"
  <2>1. ResolveExports(f, sub, cs) = Select(f, sub, cs)
    BY <1>1, <1>3, ResolveExportsIs
  <2>2. Offered(f, sub) = OfferedBy(f, sub)
    BY <1>1, <1>3, OfferedIs
  <2> QED BY <1>1, <1>3, <2>1, <2>2, SelectOffered
<1> QED BY <1>2, <1>3

------------------------------------------------------------------------------
(* Entries *)

LEMMA ConditionsKnown ==
    ASSUME NEW asked PROVE NormalizeConditions(asked) \in Seq(Known)
<1>1. ImportConditions \in Seq(Known) /\ RequireConditions \in Seq(Known)
  BY DEF ImportConditions, RequireConditions, Known
<1>2. "module-sync" \in Known
  BY DEF Known
<1>3. \A base \in Seq(Known) : Append(base, "module-sync") \in Seq(Known)
  BY <1>2
<1> QED BY <1>1, <1>3 DEF NormalizeConditions

LEMMA ExtensionsTyped ==
    /\ ExportExtensions \in Seq(STRING) /\ ImportExtensions \in Seq(STRING)
    /\ Directory \in STRING /\ "/index.js" \in STRING /\ NoPath \in STRING
BY LiteralsAssumption DEF ExportExtensions, ImportExtensions, Directory

\* A completed path is the path with an extension.
LEMMA CompletedKeepsPath ==
    ASSUME NEW tree, NEW path \in STRING \X STRING, NEW extensions \in Seq(STRING)
    PROVE  /\ Completed(tree, path, extensions) \in STRING \X STRING \X STRING
           /\ LET f == Completed(tree, path, extensions)
              IN  f = NoFile \/ <<f[1], f[2]>> = path
<1> DEFINE V == {<<path[1], path[2], e>> : e \in STRING} \cup {NoFile}
           tried == [i \in DOMAIN extensions |->
                       IF <<path[1], path[2], extensions[i]>> \in tree
                       THEN <<path[1], path[2], extensions[i]>> ELSE NoFile]
<1>1. FirstBut(NoFile, tried) \in V
  <2>1. DOMAIN tried \subseteq Nat /\ NoFile \in V
    OBVIOUS
  <2>2. \A i \in DOMAIN tried : extensions[i] \in STRING
    OBVIOUS
  <2>3. \A i \in DOMAIN tried : tried[i] \in V
    BY <2>2
  <2> HIDE DEF V, tried
  <2> QED BY <2>1, <2>3, FirstButIn
<1>2. Completed(tree, path, extensions) \in V
  <2> HIDE DEF tried
  <2>1. Completed(tree, path, extensions) \in {<<path[1], path[2], NoPath>>,
            <<path[1], path[2], Directory>>, FirstBut(NoFile, tried)}
    BY DEF Completed, tried
  <2> QED BY <1>1, <2>1, ExtensionsTyped
<1> QED BY <1>2, ExtensionsTyped DEF NoFile

LEMMA AssertFileKeepsPath ==
    ASSUME NEW tree, NEW path \in STRING \X STRING
    PROVE  /\ AssertFile(tree, path) \in STRING \X STRING \X STRING
           /\ LET f == AssertFile(tree, path)
              IN  f = NoFile \/ (path # Unfound /\ <<f[1], f[2]>> = path)
<1>1. CASE path = Unfound \/ path[1] \in Outside
  <2>1. AssertFile(tree, path) = NoFile
    BY <1>1 DEF AssertFile
  <2>2. NoFile \in STRING \X STRING \X STRING
    BY ExtensionsTyped DEF NoFile
  <2> QED BY <2>1, <2>2
<1>2. CASE ~(path = Unfound \/ path[1] \in Outside)
  <2>1. AssertFile(tree, path) = Completed(tree, path, ExportExtensions)
    BY <1>2 DEF AssertFile
  <2>2. ExportExtensions \in Seq(STRING)
    BY ExtensionsTyped
  <2> DEFINE f == Completed(tree, path, ExportExtensions)
  <2>3. f \in STRING \X STRING \X STRING /\ (f = NoFile \/ <<f[1], f[2]>> = path)
    BY <2>2, CompletedKeepsPath
  <2> HIDE DEF f
  <2>4. path # Unfound
    BY <1>2
  <2>5. AssertFile(tree, path) = f
    BY <2>1 DEF f
  <2> QED BY <2>3, <2>4, <2>5
<1> QED BY <1>1, <1>2

IsJson(json) == json.exports \in Fields /\ {json.main, json.module} \subseteq STRING

\* For any tree, package.json, subpath and conditions: the entry of a package is a file name,
\* and one that its exports field offers if it has one, however deep lists and conditions are
\* nested in it.  About resolvePackageEntry and resolveExports.
THEOREM EntryPublished ==
    ASSUME NEW tree, NEW json, IsJson(json), NEW sub \in STRING, NEW cs \in Seq(Known)
    PROVE  LET f == ResolvePackageEntry(tree, json, sub, cs) IN
           /\ f \in STRING \X STRING \X STRING
           /\ f = NoFile \/ json.exports = Nothing \/ <<f[1], f[2]>> \in Offered(json.exports, sub)
<1> USE DEF IsJson
<1>1. CASE json.exports # Nothing
  <2> DEFINE mapped == ResolveExports(json.exports, sub, cs)
  <2>1. mapped \in Offered(json.exports, sub) \cup {Unfound} /\ mapped \in STRING \X STRING
    BY ExportsOffered
  <2>2. ResolvePackageEntry(tree, json, sub, cs) = AssertFile(tree, mapped)
    BY <1>1 DEF ResolvePackageEntry
  <2> HIDE DEF mapped
  <2> QED BY <2>1, <2>2, AssertFileKeepsPath
<1>2. CASE json.exports = Nothing /\ sub # Root
  <2>1. ResolvePackageEntry(tree, json, sub, cs) = AssertFile(tree, Plain(sub))
    BY <1>2 DEF ResolvePackageEntry
  <2>2. Plain(sub) \in STRING \X STRING
    BY ExtensionsTyped DEF Plain
  <2> QED BY <1>2, <2>1, <2>2, AssertFileKeepsPath
<1>3. CASE json.exports = Nothing /\ sub = Root
  <2> DEFINE names == Fallbacks(json)
             tried == [i \in DOMAIN names |->
                         LET file == <<names[i], NoPath, NoPath>>
                         IN  IF file \in tree THEN file ELSE NoFile]
  <2>1. names \in Seq(STRING)
    <3>1. {"index.js", "index.mjs", "index.cjs"} \subseteq STRING
      BY LiteralsAssumption
    <3>2. <<"index.js", "index.mjs">> \in Seq(STRING)
      BY <3>1
    <3>3. <<"index.js", "index.cjs", "index.mjs">> \in Seq(STRING)
      BY <3>1
    <3> QED BY <3>2, <3>3 DEF Fallbacks
  <2>2. FirstBut(NoFile, tried) \in STRING \X STRING \X STRING
    <3> HIDE DEF names
    <3>1. NoFile \in STRING \X STRING \X STRING
      BY ExtensionsTyped DEF NoFile
    <3>2. DOMAIN tried \subseteq Nat /\ \A i \in DOMAIN tried : tried[i] \in STRING \X STRING \X STRING
      BY <2>1, <3>1, ExtensionsTyped
    <3> HIDE DEF tried
    <3> QED BY <3>1, <3>2, FirstButIn
  <2>3. ResolvePackageEntry(tree, json, sub, cs) \in
          {AssertFile(tree, Plain(json.module)), AssertFile(tree, Plain(json.main)),
           FirstBut(NoFile, tried)}
    <3> HIDE DEF names
    <3> QED BY <1>3 DEF ResolvePackageEntry, names
  <2>4. Plain(json.module) \in STRING \X STRING /\ Plain(json.main) \in STRING \X STRING
    BY ExtensionsTyped DEF Plain
  <2> HIDE DEF tried, names
  <2> QED BY <1>3, <2>2, <2>3, <2>4, AssertFileKeepsPath
<1> QED BY <1>1, <1>2, <1>3

\* What Node is given: a file or directory of the tree, or one with an index.js.
Exists(tree, f) ==
    f \in tree \/ (f[3] = Directory /\ <<f[1], f[2], "/index.js">> \in tree)

LEMMA CompletedExists ==
    ASSUME NEW tree, NEW path \in STRING \X STRING, NEW extensions \in Seq(STRING)
    PROVE  LET f == Completed(tree, path, extensions) IN f = NoFile \/ Exists(tree, f)
<1> DEFINE tried == [i \in DOMAIN extensions |->
                       IF <<path[1], path[2], extensions[i]>> \in tree
                       THEN <<path[1], path[2], extensions[i]>> ELSE NoFile]
           V == tree \cup {NoFile}
           dirs == {<<path[1], path[2], Directory>>, <<path[1], path[2], "/index.js">>}
<1>1. FirstBut(NoFile, tried) \in V
  <2>1. DOMAIN tried \subseteq Nat /\ NoFile \in V /\ \A i \in DOMAIN tried : tried[i] \in V
    OBVIOUS
  <2> HIDE DEF V, tried
  <2> QED BY <2>1, FirstButIn
<1> HIDE DEF tried
<1>2. CASE <<path[1], path[2], NoPath>> \in tree
  BY <1>2 DEF Completed, Exists
<1>3. CASE <<path[1], path[2], NoPath>> \notin tree /\ dirs \cap tree # {}
  BY <1>3 DEF Completed, Exists
<1>4. CASE <<path[1], path[2], NoPath>> \notin tree /\ dirs \cap tree = {}
  <2>1. Completed(tree, path, extensions) = FirstBut(NoFile, tried)
    BY <1>4 DEF Completed, tried
  <2> QED BY <1>1, <2>1 DEF Exists
<1> QED BY <1>2, <1>3, <1>4

LEMMA AssertFileExists ==
    ASSUME NEW tree, NEW path \in STRING \X STRING
    PROVE  LET f == AssertFile(tree, path) IN f = NoFile \/ (Exists(tree, f) /\ f[1] \notin Outside)
<1>1. CASE path = Unfound \/ path[1] \in Outside
  BY <1>1 DEF AssertFile
<1>2. CASE ~(path = Unfound \/ path[1] \in Outside)
  <2> DEFINE f == Completed(tree, path, ExportExtensions)
  <2>1. f = NoFile \/ (Exists(tree, f) /\ <<f[1], f[2]>> = path)
    BY ExtensionsTyped, CompletedKeepsPath, CompletedExists
  <2>2. AssertFile(tree, path) = f
    BY <1>2 DEF AssertFile
  <2> HIDE DEF f
  <2> QED BY <1>2, <2>1, <2>2
<1> QED BY <1>1, <1>2

\* For any tree, package.json, subpath and conditions: an entry that is found exists, and lies
\* within the package unless it is one of the names tried for want of any.  About assertFile
\* and resolvePackageEntry, with their extensions, directories and fallbacks.
THEOREM EntryExists ==
    ASSUME NEW tree, NEW json, IsJson(json), NEW sub \in STRING, NEW cs \in Seq(Known)
    PROVE  LET f == ResolvePackageEntry(tree, json, sub, cs) IN
           f # NoFile => /\ Exists(tree, f)
                         /\ f[1] \notin Outside \/ f[1] \in {"index.js", "index.cjs", "index.mjs"}
<1> USE DEF IsJson
<1>1. ASSUME NEW path \in STRING \X STRING,
             ResolvePackageEntry(tree, json, sub, cs) = AssertFile(tree, path)
      PROVE  LET f == ResolvePackageEntry(tree, json, sub, cs) IN
             f # NoFile => Exists(tree, f) /\ f[1] \notin Outside
  BY <1>1, AssertFileExists
<1>2. CASE json.exports # Nothing
  <2>1. ResolveExports(json.exports, sub, cs) \in STRING \X STRING
    BY ExportsOffered
  <2>2. ResolvePackageEntry(tree, json, sub, cs) = AssertFile(tree, ResolveExports(json.exports, sub, cs))
    BY <1>2 DEF ResolvePackageEntry
  <2> QED BY <1>1, <2>1, <2>2
<1>3. CASE json.exports = Nothing /\ sub # Root
  <2>1. ResolvePackageEntry(tree, json, sub, cs) = AssertFile(tree, Plain(sub))
    BY <1>3 DEF ResolvePackageEntry
  <2>2. Plain(sub) \in STRING \X STRING
    BY ExtensionsTyped DEF Plain
  <2> QED BY <1>1, <2>1, <2>2
<1>4. CASE json.exports = Nothing /\ sub = Root
  <2> DEFINE names == Fallbacks(json)
             tried == [i \in DOMAIN names |->
                         LET file == <<names[i], NoPath, NoPath>>
                         IN  IF file \in tree THEN file ELSE NoFile]
             N == {"index.js", "index.cjs", "index.mjs"}
             V == {f \in tree : f[1] \in N} \cup {NoFile}
  <2>1. Plain(json.module) \in STRING \X STRING /\ Plain(json.main) \in STRING \X STRING
    BY ExtensionsTyped DEF Plain
  <2>2. names \in Seq(N)
    <3>1. <<"index.js", "index.mjs">> \in Seq(N)
      OBVIOUS
    <3>2. <<"index.js", "index.cjs", "index.mjs">> \in Seq(N)
      OBVIOUS
    <3> QED BY <3>1, <3>2 DEF Fallbacks
  <2>3. FirstBut(NoFile, tried) \in V
    <3> HIDE DEF names
    <3>1. DOMAIN tried \subseteq Nat
      BY <2>2
    <3>2. ASSUME NEW i \in DOMAIN tried PROVE tried[i] \in V
      <4>1. names[i] \in N
        BY <2>2, <3>2
      <4> HIDE DEF N
      <4> QED BY <4>1
    <3>3. NoFile \in V
      OBVIOUS
    <3> HIDE DEF tried, V
    <3> QED BY <3>1, <3>2, <3>3, FirstButIn
  <2>4. \/ ResolvePackageEntry(tree, json, sub, cs) = AssertFile(tree, Plain(json.module))
        \/ ResolvePackageEntry(tree, json, sub, cs) = AssertFile(tree, Plain(json.main))
        \/ ResolvePackageEntry(tree, json, sub, cs) = FirstBut(NoFile, tried)
    <3> HIDE DEF names
    <3> QED BY <1>4 DEF ResolvePackageEntry, names
  <2> HIDE DEF names, tried
  <2>5. CASE ResolvePackageEntry(tree, json, sub, cs) = FirstBut(NoFile, tried)
    BY <2>3, <2>5 DEF Exists
  <2> QED BY <1>1, <2>1, <2>4, <2>5
<1> QED BY <1>2, <1>3, <1>4

\* A "#" request leads to a file name or to a path that means a specifier.
LEMMA ImportTyped ==
    ASSUME NEW tree, NEW imports \in Fields, NEW sub \in STRING, NEW cs \in Seq(Known)
    PROVE  LET x == ResolvePackageImports(tree, imports, sub, cs) IN
           \/ x.kind = "package" /\ x.specifier \in Bare
                /\ x = [kind |-> "package", specifier |-> x.specifier, file |-> NoFile]
           \/ x.kind = "file" /\ x.file \in STRING \X STRING \X STRING
                /\ x = [kind |-> "file", specifier |-> NoPath, file |-> x.file]
<1> DEFINE target == ResolveExports(imports, sub, cs)
<1>1. target \in STRING \X STRING
  BY ExportsOffered
<1> HIDE DEF target
<1>2. ResolvePackageImports(tree, imports, sub, cs) = ImportTarget(tree, target)
  BY DEF ResolvePackageImports, target
<1>3. NoFile \in STRING \X STRING \X STRING
  BY ExtensionsTyped DEF NoFile
<1>4. Completed(tree, target, ImportExtensions) \in STRING \X STRING \X STRING
  BY <1>1, ExtensionsTyped, CompletedKeepsPath
<1> QED BY <1>2, <1>3, <1>4 DEF ImportTarget

------------------------------------------------------------------------------
(* Members *)

\* u has the elements of s and those of t.
Joins(u, s, t) ==
    /\ DOMAIN u \subseteq Nat
    /\ \A i \in DOMAIN u : (\E j \in DOMAIN s : u[i] = s[j]) \/ (\E j \in DOMAIN t : u[i] = t[j])
    /\ \A j \in DOMAIN s : \E i \in DOMAIN u : u[i] = s[j]
    /\ \A j \in DOMAIN t : \E i \in DOMAIN u : u[i] = t[j]

LEMMA Joined ==
    ASSUME NEW S, NEW s \in Seq(S), NEW t \in Seq(S)
    PROVE  Joins(s \o t, s, t)
<1>1. s \o t \in Seq(S) /\ Len(s \o t) = Len(s) + Len(t) /\ Len(s) \in Nat /\ Len(t) \in Nat
  OBVIOUS
<1>2. DOMAIN (s \o t) = 1 .. Len(s) + Len(t) /\ DOMAIN s = 1 .. Len(s) /\ DOMAIN t = 1 .. Len(t)
  BY <1>1
<1>3. \A i \in 1 .. Len(s) : (s \o t)[i] = s[i]
  BY <1>1
<1>4. \A i \in 1 .. Len(t) : (s \o t)[Len(s) + i] = t[i]
  BY <1>1
<1>5. ASSUME NEW i \in DOMAIN (s \o t)
      PROVE  \/ \E j \in DOMAIN s : (s \o t)[i] = s[j]
             \/ \E j \in DOMAIN t : (s \o t)[i] = t[j]
  <2>1. CASE i <= Len(s)
    BY <1>1, <1>2, <1>3, <2>1
  <2>2. CASE i > Len(s)
    <3>1. i - Len(s) \in DOMAIN t /\ Len(s) + (i - Len(s)) = i
      BY <1>1, <1>2, <2>2
    <3>2. (s \o t)[i] = t[i - Len(s)]
      BY <1>2, <1>4, <3>1
    <3> QED BY <3>1, <3>2
  <2> QED BY <1>1, <1>2, <2>1, <2>2
<1>6. \A j \in DOMAIN s : j \in DOMAIN (s \o t)
  BY <1>1, <1>2
<1>7. \A j \in DOMAIN t : Len(s) + j \in DOMAIN (s \o t)
  BY <1>1, <1>2
<1>8. DOMAIN (s \o t) \subseteq Nat
  BY <1>1, <1>2
<1>9. \A j \in DOMAIN s : (s \o t)[j] = s[j]
  BY <1>2, <1>3
<1>10. \A j \in DOMAIN t : (s \o t)[Len(s) + j] = t[j]
  BY <1>2, <1>4
<1> QED BY <1>5, <1>6, <1>7, <1>8, <1>9, <1>10 DEF Joins

\* resolveWorkspacePackage finds a member by its name or by the directory of the range; it
\* finds one whenever the name is a member's.
LEMMA MemberChosen ==
    ASSUME NEW members, IsSequence(members), NEW n, NEW r
    PROVE  LET m == ResolveWorkspacePackage(members, n, r) IN
           /\ \/ m = NoMember
              \/ \E i \in DOMAIN members :
                    /\ m = members[i]
                    /\ m.name = n \/ (r \in Workspace /\ PathOf[r] # NoPath /\ m.path = PathOf[r])
           /\ IsMember(members, n) /\ (\A i \in DOMAIN members : members[i] # NoMember)
                => m # NoMember
<1> DEFINE named(i) == r \in Workspace /\ PathOf[r] # NoPath /\ members[i].path = PathOf[r]
           s == [i \in DOMAIN members |-> IF named(i) THEN members[i] ELSE NoMember]
           t == [i \in DOMAIN members |-> IF members[i].name = n THEN members[i] ELSE NoMember]
           S == {s[i] : i \in DOMAIN members} \cup {t[i] : i \in DOMAIN members}
           m == ResolveWorkspacePackage(members, n, r)
<1>1. m = FirstBut(NoMember, s \o t)
  BY DEF ResolveWorkspacePackage
<1>2. s \in Seq(S) /\ t \in Seq(S) /\ DOMAIN s = DOMAIN members /\ DOMAIN t = DOMAIN members
  <2>1. DOMAIN members = 1 .. Len(members) /\ Len(members) \in Nat
    BY DEF IsSequence
  <2>2. /\ DOMAIN s = DOMAIN members /\ DOMAIN t = DOMAIN members
        /\ \A i \in DOMAIN members : s[i] \in S /\ t[i] \in S
    OBVIOUS
  <2>3. s = [i \in DOMAIN members |-> s[i]] /\ t = [i \in DOMAIN members |-> t[i]]
    OBVIOUS
  <2> HIDE DEF s, t, S
  <2>4. s \in [1 .. Len(members) -> S] /\ t \in [1 .. Len(members) -> S]
    BY <2>1, <2>2, <2>3
  <2> QED BY <2>1, <2>2, <2>4
<1>3. \A i \in DOMAIN members : s[i] = IF named(i) THEN members[i] ELSE NoMember
  OBVIOUS
<1>4. \A i \in DOMAIN members : t[i] = IF members[i].name = n THEN members[i] ELSE NoMember
  OBVIOUS
<1> HIDE DEF s, t, S, m
<1> DEFINE u == s \o t
<1>5. Joins(u, s, t)
  BY <1>2, Joined
<1> HIDE DEF u
<1>6. IF \A i \in DOMAIN u : u[i] = NoMember THEN m = NoMember
      ELSE \E i \in DOMAIN u : m = u[i] /\ m # NoMember
  <2>1. DOMAIN u \subseteq Nat /\ m = FirstBut(NoMember, u)
    BY <1>1, <1>5 DEF Joins, u
  <2> QED BY <2>1, FirstButFinds
<1>7. m = NoMember \/ \E i \in DOMAIN members : m = members[i] /\ (m.name = n \/ named(i))
  <2> HIDE DEF named
  <2> SUFFICES ASSUME m # NoMember
               PROVE  \E i \in DOMAIN members : m = members[i] /\ (m.name = n \/ named(i))
    OBVIOUS
  <2>1. PICK k \in DOMAIN u : m = u[k]
    BY <1>6
  <2>2. (\E j \in DOMAIN members : u[k] = s[j]) \/ (\E j \in DOMAIN members : u[k] = t[j])
    BY <1>2, <1>5 DEF Joins
  <2>3. CASE \E j \in DOMAIN members : u[k] = s[j]
    BY <1>3, <2>1, <2>3
  <2>4. CASE \E j \in DOMAIN members : u[k] = t[j]
    BY <1>4, <2>1, <2>4
  <2> QED BY <2>2, <2>3, <2>4
<1>8. IsMember(members, n) /\ (\A i \in DOMAIN members : members[i] # NoMember) => m # NoMember
  <2> SUFFICES ASSUME IsMember(members, n), \A i \in DOMAIN members : members[i] # NoMember
               PROVE  m # NoMember
    OBVIOUS
  <2>1. PICK j \in DOMAIN members : members[j].name = n
    BY DEF IsMember
  <2>2. t[j] # NoMember
    BY <1>4, <2>1
  <2> QED BY <1>2, <1>5, <1>6, <2>1, <2>2 DEF Joins
<1> QED BY <1>7, <1>8 DEF m

LEMMA MemberAroundIs ==
    ASSUME NEW here, IsSequence(here.members), NEW owner
    PROVE  LET m == MemberAround(here, owner) IN
           \/ m = NoMember
           \/ owner[1] = "workspace" /\ \E i \in DOMAIN here.members : m = here.members[i]
<1> DEFINE s == [i \in DOMAIN here.members |->
                   IF owner[1] = "workspace" /\ here.members[i].path \in MemberOf(here, owner).around
                   THEN here.members[i] ELSE NoMember]
<1>1. MemberAround(here, owner) = FirstBut(NoMember, s) /\ DOMAIN s = DOMAIN here.members
  BY DEF MemberAround
<1>2. DOMAIN s \subseteq Nat
  BY <1>1 DEF IsSequence
<1>3. \A i \in DOMAIN s : s[i] = NoMember \/ (owner[1] = "workspace" /\ s[i] = here.members[i])
  OBVIOUS
<1> HIDE DEF s
<1>4. FirstBut(NoMember, s) = NoMember \/ \E i \in DOMAIN s : FirstBut(NoMember, s) = s[i] /\ s[i] # NoMember
  BY <1>2, FirstButFinds
<1> QED BY <1>1, <1>3, <1>4

\* The members and former members that code can belong to.
KnownMembers(here) == here.members \o here.former

Distinct(members) ==
    \A i, j \in DOMAIN members : MemberCode(members[i]) = MemberCode(members[j]) => i = j

LEMMA MemberOfIs ==
    ASSUME NEW here, IsSequence(KnownMembers(here)), NEW owner,
           NEW i \in DOMAIN KnownMembers(here), MemberCode(KnownMembers(here)[i]) = owner,
           KnownMembers(here)[i] # NoMember, Distinct(KnownMembers(here))
    PROVE  MemberOf(here, owner) = KnownMembers(here)[i]
<1> DEFINE known == KnownMembers(here)
           s == [j \in DOMAIN known |-> IF MemberCode(known[j]) = owner THEN known[j] ELSE NoMember]
<1>1. MemberOf(here, owner) = FirstBut(NoMember, s)
  BY DEF MemberOf, KnownMembers
<1> HIDE DEF known
<1>2. DOMAIN s \subseteq Nat /\ s[i] = known[i] /\ i \in DOMAIN s /\ known[i] # NoMember
  BY DEF IsSequence, known
<1>3. \A j \in DOMAIN s : s[j] # NoMember => j = i
  BY DEF known, Distinct
<1> HIDE DEF s
<1>4. \E j \in DOMAIN s : FirstBut(NoMember, s) = s[j] /\ s[j] # NoMember
  BY <1>2, FirstButFinds
<1> QED BY <1>1, <1>2, <1>3, <1>4 DEF known

------------------------------------------------------------------------------
(* Versions *)

LEMMA GreatestIndex ==
    ASSUME NEW n \in Nat, NEW T \in SUBSET (1 .. n), T # {}
    PROVE  \E i \in T : \A j \in T : j <= i
<1> DEFINE Distances == {n - i : i \in T}
<1>1. \A i \in T : n - i \in Nat /\ i \in Nat
  OBVIOUS
<1>2. Distances \subseteq Nat /\ Distances # {}
  BY <1>1
<1>3. \E d \in Distances : \A e \in Distances : d <= e
  <2> HIDE DEF Distances
  <2> QED BY <1>2, LeastNumber
<1>4. PICK i \in T : \A e \in Distances : n - i <= e
  BY <1>3
<1>5. \A j \in T : n - i <= n - j
  BY <1>4
<1> QED BY <1>1, <1>5

\* There are finitely many versions.
LEMMA GreatestVersion ==
    ASSUME NEW V \in SUBSET Versions, V # {}
    PROVE  \E v \in V : \A w \in V : w <= v
<1> DEFINE Upto(k) == {v \in V : \E i \in 1 .. k : TextOrder[i] = v}
           HasGreatest(W) == \E v \in W : \A w \in W : w <= v
           Failing == {k \in Nat : k <= Len(TextOrder) /\ Upto(k) # {} /\ ~HasGreatest(Upto(k))}
<1>1. /\ Len(TextOrder) \in Nat /\ \A i \in 1 .. Len(TextOrder) : TextOrder[i] \in Versions
      /\ \A v \in V : \E i \in 1 .. Len(TextOrder) : TextOrder[i] = v
      /\ \A v \in V : v \in Nat
  BY VersionsAssumption
<1>2. Upto(Len(TextOrder)) = V
  BY <1>1
<1>3. Failing = {}
  <2> SUFFICES ASSUME Failing # {} PROVE FALSE
    OBVIOUS
  <2>1. PICK k \in Failing : \A j \in Failing : k <= j
    BY LeastNumber
  <2>2. Upto(0) = {}
    OBVIOUS
  <2>3. k \in Nat \ {0} /\ k - 1 \in Nat /\ k - 1 < k /\ k <= Len(TextOrder)
    <3>1. k # 0
      BY <2>1, <2>2
    <3> QED BY <2>1, <3>1
  <2>4. Upto(k - 1) = {} \/ HasGreatest(Upto(k - 1))
    <3> HIDE DEF Failing
    <3>1. k - 1 \notin Failing
      BY <2>1, <2>3
    <3>2. k - 1 <= Len(TextOrder)
      BY <1>1, <2>3
    <3> USE DEF Failing
    <3> HIDE DEF Upto, HasGreatest
    <3> QED BY <2>3, <3>1, <3>2
  <2>5. \A v : v \in Upto(k) <=> v \in Upto(k - 1) \/ (v \in V /\ v = TextOrder[k])
    BY <2>3
  <2> HIDE DEF Upto
  <2>6. Upto(k - 1) \subseteq V /\ Upto(k) \subseteq V
    BY DEF Upto
  <2>7. HasGreatest(Upto(k))
    <3>1. CASE TextOrder[k] \notin V
      <4>1. Upto(k) = Upto(k - 1)
        BY <2>5, <3>1
      <4> QED BY <2>1, <2>4, <4>1
    <3>2. CASE TextOrder[k] \in V /\ Upto(k - 1) = {}
      <4>1. \A w \in Upto(k) : w = TextOrder[k]
        BY <2>5, <3>2
      <4>2. TextOrder[k] \in Upto(k) /\ TextOrder[k] \in Nat
        BY <1>1, <2>5, <3>2
      <4>3. \A w \in Upto(k) : w <= TextOrder[k]
        BY <4>1, <4>2
      <4> QED BY <4>2, <4>3
    <3>3. CASE TextOrder[k] \in V /\ HasGreatest(Upto(k - 1))
      <4>1. PICK v \in Upto(k - 1) : \A w \in Upto(k - 1) : w <= v
        BY <3>3
      <4> DEFINE g == IF v <= TextOrder[k] THEN TextOrder[k] ELSE v
      <4>2. g \in Upto(k)
        BY <2>5, <3>3
      <4>3. \A w \in Upto(k) : w <= g
        <5>1. v \in Nat /\ TextOrder[k] \in Nat
          BY <1>1, <2>6, <3>3, <4>1
        <5>2. ASSUME NEW w \in Upto(k) PROVE w <= g
          <6>1. w \in Nat
            BY <1>1, <2>6
          <6>2. w <= v \/ w = TextOrder[k]
            BY <2>5, <4>1
          <6> QED BY <5>1, <6>1, <6>2, SMTT(30)
        <5> QED BY <5>2
      <4> HIDE DEF g
      <4> QED BY <4>2, <4>3
    <3> QED BY <2>4, <3>1, <3>2, <3>3
  <2> QED BY <2>1, <2>7
<1>4. HasGreatest(V)
  <2>1. Len(TextOrder) \notin Failing
    BY <1>3
  <2> HIDE DEF Upto
  <2> QED BY <1>1, <1>2, <2>1
<1> QED BY <1>4

LEMMA HighestIs ==
    ASSUME NEW V \in SUBSET Versions
    PROVE  /\ V = {} => Highest(V) = NoVersion
           /\ V # {} => Highest(V) \in V /\ \A w \in V : w <= Highest(V)
           /\ Highest(V) = NoVersion <=> V = {}
<1>1. CASE V = {}
  BY <1>1 DEF Highest, Maximal
<1>2. CASE V # {}
  <2>1. Maximal(V) # {}
    BY <1>2, GreatestVersion DEF Maximal
  <2>2. Highest(V) \in Maximal(V)
    BY <2>1 DEF Highest
  <2>3. Highest(V) \in V /\ \A w \in V : w <= Highest(V)
    BY <2>2 DEF Maximal
  <2>4. Highest(V) # NoVersion
    BY <2>3, VersionsAssumption DEF NoVersion
  <2> QED BY <1>2, <2>3, <2>4
<1> QED BY <1>1, <1>2
==============================================================================
