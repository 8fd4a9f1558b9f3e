------------------------------ MODULE MCImports ------------------------------
(* Constants for TLC: packages "a" (two versions) and "b", which imports it; members "v" *)
(* and "w" of a workspace, where the directory of "w" lies in that of "v".               *)
EXTENDS Imports, TLC

MCNames == {"a", "b", "v", "w"}
MCNameOrder == <<"a", "b", "v", "w">>
MCVersions == {1, 9, 10}
MCTextOrder == <<1, 10, 9>>
MCRanges == {"*", "^9", "9", "10", "workspace:*", "workspace:libs/v/w"}
MCSat == [r \in MCRanges |-> CASE r = "^9" -> {9, 10} [] r = "9" -> {9}
                               [] r = "10" -> {10} [] r = "*" -> MCVersions [] OTHER -> {}]
MCPathOf == "workspace:*" :> NoPath @@ "workspace:libs/v/w" :> "libs/v/w"
MCListing == [N \in SUBSET MCNames |-> SelectSeq(MCNameOrder, LAMBDA n : n \in N)]
MCSpecOf == "a" :> [name |-> "a", sub |-> Root]

\* The maps of package.json.
File(path) == [kind |-> "file", path |-> path]
When(on) == [kind |-> "when", on |-> on]
Paths(exact, patterns) == [kind |-> "paths", exact |-> exact, patterns |-> patterns]

\* "node" is a condition that holds, but what it asks next does not.
Deep == When("node" :> When("development" :> File("./dev")) @@ "default" :> File("./lib/main"))
Star == File("./lib/*")
ExportsOfOld == Paths("." :> Deep, <<[covers |-> {"./util", "./none"}, target |-> Star]>>)
ExportsOfNew == [kind |-> "list", items |->
                    <<When("require" :> File("./main.cjs")), File("./main.mjs")>>]
ImportsOfB == Paths("#a" :> When("node" :> File("a") @@ "default" :> File("./shim"))
                      @@ "#own" :> File("./lib") @@ "#out" :> File("../x"), << >>)

MCTargets == {Nothing, Deep, When("development" :> File("./dev")), Star,
              When("node" :> File("a") @@ "default" :> File("./shim")),
              When("require" :> File("./main.cjs"))}
                \cup {File(path) : path \in {"a", "./dev", "./lib/main", "./shim", "./lib",
                                             "../x", "./main.cjs", "./main.mjs"}}
MCFields == MCTargets \cup {ExportsOfOld, ExportsOfNew, ImportsOfB}
MCDepth[t \in MCFields] ==
    IF Parts(t) = {} THEN 0 ELSE CHOOSE n \in 1 .. 3 : \A part \in Parts(t) : MCDepth[part] < n
MCStarred == {"./lib/*"}
MCOutside == {"../x"}
MCBare == {"a"}
MCAsked == {"node", "import", "module-sync"}

Json(exports, main, module, type) ==
    [exports |-> exports, main |-> main, module |-> module, type |-> type]
Set(s) == {s[i] : i \in DOMAIN s}
Described0(deps, optional, peers, json, imports, archive) ==
    [dependencies |-> deps, development |-> None, optional |-> optional, peers |-> peers,
     json |-> json, imports |-> imports, archive |-> archive, files |-> Set(archive)]

OldA == Described0(None, None, None, Json(ExportsOfOld, "secret", NoPath, "commonjs"), Nothing,
          <<<<"./lib/main", NoPath, ".js">>, Manifest, <<"./lib/*", "./util", "/index.js">>,
            <<"secret", NoPath, ".js">>>>)
NewA == Described0("b" :> "*", None, None, Json(ExportsOfNew, NoPath, NoPath, "module"),
          Nothing, <<Manifest, <<"./main.mjs", NoPath, NoPath>>, <<"./main.cjs", NoPath, NoPath>>>>)
B == Described0("a" :> "^9", "v" :> "*", "w" :> "*", Json(Nothing, NoPath, NoPath, "commonjs"),
          ImportsOfB,
          <<Manifest, <<"index.cjs", NoPath, NoPath>>, <<"./lib", NoPath, Directory>>>>)
MCPackages == <<"a", 9>> :> OldA @@ <<"a", 10>> :> NewA @@ <<"b", 9>> :> B

\* Members; "v" has only a knot.toml in one world.
V == Described0("b" :> "9", None, "a" :> "^9", Json(Nothing, NoPath, "./v.mjs", "module"),
                Nothing, <<Manifest, <<"./v.mjs", NoPath, NoPath>>>>)
W == Described0("a" :> "10" @@ "v" :> "workspace:*", None, None,
                Json(Nothing, "./w", NoPath, "commonjs"), Nothing,
                <<Manifest, <<"./w", NoPath, ".js">>>>)
DirV(kind) == [kind |-> kind, name |-> "v", base |-> "v", version |-> 9, path |-> "libs/v",
               around |-> {"libs/v"}, manifest |-> V]
DirW(around) == [kind |-> "json", name |-> "w", base |-> "w", version |-> 9,
                 path |-> "libs/v/w", around |-> around, manifest |-> W]

Spec0(n, sub) == [name |-> n, sub |-> sub]
Does(owner, via, n, sub) == [owner |-> owner, via |-> via, spec |-> Spec0(n, sub)]
Import(owner, n) == Does(owner, "import", n, Root)
CodeA(v) == PackageCode(<<"a", v>>)
CodeB == PackageCode(<<"b", 9>>)
CodeV == <<"workspace", "v", 9>>
CodeW == <<"workspace", "w", 9>>

Modes(frozen, offline, prefetch, snapshot) ==
    [frozen : frozen, offline : offline, prefetch : prefetch, snapshot : snapshot]
Either == BOOLEAN
Never == {FALSE}
Locked(f) == [p \in MCNames \X MCVersions |-> IF p \in DOMAIN f THEN f[p] ELSE "absent"]
Nobody == [p \in {} |-> "absent"]
ProjectOf(deps, development, optional, peers) ==
    [Described0(deps, optional, peers, Json(Nothing, NoPath, NoPath, "module"), Nothing,
                <<Manifest>>) EXCEPT !.development = development]
Situation(project, members, calls, modes) ==
    [project |-> project, members |-> Members(members), packages |-> MCPackages,
     tag |-> [n \in MCNames |-> 9], lock |-> Locked(Nobody), store |-> {}, unpacked |-> {},
     former |-> << >>, calls |-> calls, modes |-> modes,
     rival |-> FALSE, faults |-> TRUE]
Filled(here, packages) ==
    [here EXCEPT !.lock = Locked([p \in packages |-> "object"]), !.store = packages,
                 !.unpacked = packages]

\* A program and its dependency import the same package, on an empty store.
Diamond == Situation(ProjectOf("a" :> "9" @@ "b" :> "9", None, None, None), << >>,
    {Import(Project, "b"), Import(Project, "a"), Does(CodeB, "import", "#", "#a"),
     Does(Prefetching, "prefetch", "a", Root)},
    Modes(Either, Either, Either, Either))

\* Subpaths, imports maps and what is not offered or not declared.
Maps == Situation(ProjectOf("b" :> "9", "a" :> "9", None, None), << >>,
    {Import(Project, "b"), Does(Project, "import", "a", "./util"),
     Does(Project, "import", "a", "secret"), Does(Project, "import", "w", Root),
     Does(CodeB, "import", "#", "#own"), Does(CodeB, "import", "#", "#out"),
     Does(CodeB, "import", "#", "#none")},
    Modes(Never, Either, Never, Either))

\* Members that import one another and the packages; cyclic dependencies in the snapshot.
Workspaces(kind, around) ==
    Situation(ProjectOf("w" :> "workspace:libs/v/w", None, None, "a" :> "*"),
              <<DirV(kind), DirW(around), DirV("broken")>>,
    {Import(Project, "w"), Import(CodeW, "a"), Import(CodeW, "v"), Import(CodeV, "b"),
     Import(CodeV, "a"), Import(<<"workspace", "v", 1>>, "b"),
     Does(Prefetching, "prefetch", "w", Root)},
    Modes(Never, Either, Either, Either))

\* A workspace: range without its member, and a member that is imported without one.
Strays == Situation(ProjectOf("w" :> "workspace:*", None, "v" :> "^9", None), <<DirV("json")>>,
    {Import(Project, "w"), Import(Project, "v"), Import(CodeV, "b"),
     Does(Prefetching, "prefetch", "v", Root)},
    Modes(Either, Either, Either, Either))

\* A member that is known by another name, to the project and to another member's peer, and
\* that the lock names since an earlier run.
Alias == [Situation(ProjectOf("b" :> "workspace:libs/v/w" @@ "w" :> "^9", None, None, None),
                   <<[DirV("json") EXCEPT !.manifest.dependencies = None,
                                          !.manifest.peers = "b" :> "9"],
                     DirW({"libs/v/w"})>>,
    {Import(Project, "b"), Import(CodeW, "a"), Import(CodeW, "v"), Import(CodeV, "b"),
     Does(Prefetching, "prefetch", "w", Root)},
    Modes(Either, Either, Either, Either)) EXCEPT !.lock = Locked(<<"w", 9>> :> "workspace")]

\* Optional, peer and development dependencies; a tag that lags behind a locked version
\* whose archive is not here.
Clone == [Situation(ProjectOf("a" :> "*", "b" :> "9", None, None), << >>,
    {Import(Project, "a"), Import(Project, "b"), Import(CodeB, "w"), Import(CodeB, "v"),
     Does(Project, "require", "a", Root)},
    Modes(Either, Either, Never, Either)) EXCEPT !.lock = Locked(<<"a", 10>> :> "object")]

\* An extraction in another project's name, which may die or fail.
Shared0 == [Situation(ProjectOf("a" :> "^9", None, None, None), << >>,
    {Import(Project, "a"), Does(Project, "import", "a", "./util"),
     Does(Outsider, "outside", "a", Root), Does(Project, "require", "a", Root)},
    Modes(Never, Never, Never, Never)) EXCEPT
      !.lock = Locked(<<"a", 9>> :> "object"), !.store = {<<"a", 9>>}]

\* require() from the map of the parent, while the lock is rewritten under the child.
Required == [Filled(Situation(ProjectOf("a" :> "^9" @@ "b" :> "9", None, None, None), << >>,
    {Does(Project, "require", "b", Root), Does(Project, "require", "a", Root),
     Import(CodeB, "a"), Import(CodeA(9), "b"), Does(CodeB, "require", "a", "./util"),
     Does(Prefetching, "prefetch", "b", Root)},
    Modes(Either, Never, Either, Either)), {<<"a", 9>>, <<"a", 10>>, <<"b", 9>>})
    EXCEPT !.rival = TRUE]

\* A registry that has a "v" as well, which depends on "w".
PackageV == [B EXCEPT !.dependencies = "w" :> "9", !.optional = "b" :> "*"]
CodeOfV == PackageCode(<<"v", 9>>)
WithV(here) == [here EXCEPT !.packages = @ @@ <<"v", 9>> :> PackageV]

\* The lock names a "v" that is no member any more, and "w" still is one.
Left == [WithV(Situation(ProjectOf("v" :> "9" @@ "w" :> "workspace:*", "a" :> "^9", None, None),
                         <<[DirW({"libs/v", "libs/v/w"}) EXCEPT !.manifest.dependencies = None]>>,
    {Import(Project, "v"), Does(Project, "require", "v", Root), Import(CodeV, "a"),
     Import(CodeOfV, "w"), Import(CodeW, "a"), Does(Prefetching, "prefetch", "v", Root)},
    Modes(Either, Either, Either, Either)))
    EXCEPT !.former = <<ReadMember(DirV("json"))>>, !.lock = Locked(<<"v", 9>> :> "workspace")]

\* The member "v" and the package of its name and version: require() finds the package,
\* whose place in the lock the member may take.
Twins == Filled(WithV(Situation(ProjectOf("v" :> "9", "a" :> "^9", None, None), <<DirV("json")>>,
    {Import(Project, "v"), Import(CodeV, "a"), Does(Project, "require", "v", Root),
     Import(CodeOfV, "b"), Import(CodeOfV, "a")},
    Modes(Either, Either, Never, Never))), {<<"v", 9>>, <<"b", 9>>})

MCWorlds == {"diamond", "maps", "members", "nested", "bare", "strays", "alias", "clone",
             "shared", "required", "left", "twins"}
Situations ==
    "diamond" :> Diamond @@ "maps" :> Maps @@ "members" :> Workspaces("json", {"libs/v/w"})
    @@ "nested" :> Workspaces("json", {"libs/v/w", "libs/v"})
    @@ "bare" :> Workspaces("toml", {"libs/v/w"})
    @@ "strays" :> Strays @@ "alias" :> Alias @@ "clone" :> Clone @@ "shared" :> Shared0
    @@ "required" :> Required @@ "left" :> Left @@ "twins" :> Twins
MCWorld == Situations
==============================================================================
