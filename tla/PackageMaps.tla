----------------------------- MODULE PackageMaps -----------------------------
(***************************************************************************)
(* packages/core/src/runtime/exports.ts and imports.ts: from a package's   *)
(* package.json, a subpath and the import conditions to a file of its      *)
(* tree.  JSON values are records tagged with their kind; a file is its    *)
(* path in the map, what a "*" in that path stands for, and the extension  *)
(* that completes it.                                                      *)
(***************************************************************************)
EXTENDS Naturals, Sequences

CONSTANTS Targets,   \* the values of exports and imports maps, with all they contain
          Fields,    \* the exports and imports fields, with all they contain
          Depth,     \* how deeply a target or a field is nested
          Starred,   \* the paths in them with a "*"
          Outside,   \* the paths that lead out of the package
          Bare       \* the paths in imports maps that are package specifiers

\* "when": conditions to targets.  "paths": exact subpaths, and patterns in their order,
\* each with the subpaths it covers.
Nothing == [kind |-> "nothing"]
Root == "."
NoPath == ""

Unfound == <<NoPath, NoPath>>
NoFile == <<NoPath, NoPath, NoPath>>
Manifest == <<"package.json", NoPath, NoPath>>

\* No assumption about the code: the provers do not know that a string is one.
ASSUME LiteralsAssumption ==
    {NoPath, Root, "/", "/index.js", ".js", ".mjs", ".cjs", "index.js", "index.mjs", "index.cjs"}
        \subseteq STRING

\* What a target or a field contains.
Parts(t) ==
    CASE t.kind = "list" -> {t.items[i] : i \in DOMAIN t.items}
      [] t.kind = "when" -> {t.on[k] : k \in DOMAIN t.on} \cup {Nothing}
      [] t.kind = "paths" -> {t.exact[sub] : sub \in DOMAIN t.exact}
                               \cup {t.patterns[i].target : i \in DOMAIN t.patterns}
      [] OTHER -> {}

IsSequence(s) == s \in Seq({s[i] : i \in DOMAIN s})

\* JSON values are finite: what contains another is the deeper.
ASSUME MapsAssumption ==
    /\ Nothing \in Fields /\ Depth \in [Targets \cup Fields -> Nat]
    /\ \A t \in Targets :
          /\ t.kind \in {"nothing", "file", "list", "when"}
          /\ t.kind = "list" => t.items \in Seq(Targets)
          /\ Parts(t) \subseteq Targets
    /\ \A f \in Fields :
          /\ f.kind \in {"nothing", "file", "list", "when", "paths"}
          /\ f.kind = "list" => f.items \in Seq(Fields)
          /\ f.kind \in {"file", "when"} => f \in Targets
          /\ f.kind = "paths" => Parts(f) \subseteq Targets /\ IsSequence(f.patterns)
    /\ \A t \in Targets \cup Fields :
          /\ t.kind = "file" => t.path \in STRING
          /\ \A part \in Parts(t) : Depth[part] < Depth[t]

\* The first element of a sequence that is not none.
FirstBut(none, s) ==
    LET I == {i \in DOMAIN s : s[i] # none}
    IN  IF I = {} THEN none ELSE s[CHOOSE i \in I : \A j \in I : i <= j]

ImportConditions == <<"import", "node", "default">>
RequireConditions == <<"require", "node", "default">>
Known == {"import", "require", "node", "default", "module-sync"}

\* The order is Knot's, not the request's; what Knot does not know is dropped.
NormalizeConditions(asked) ==
    LET base == IF "require" \in asked /\ "import" \notin asked
                THEN RequireConditions ELSE ImportConditions
    IN  IF "module-sync" \in asked THEN Append(base, "module-sync") ELSE base

\* What a target lets one try, in order: the items of a list, or what the conditions of the
\* list select, "default" once more at the end.
Attempts(t, cs) ==
    LET tried == Append(cs, "default") IN
    CASE t.kind = "list" -> t.items
      [] t.kind = "when" -> [i \in DOMAIN tried |-> IF tried[i] \in DOMAIN t.on
                                                    THEN t.on[tried[i]] ELSE Nothing]
      [] OTHER -> << >>

\* An attempt that leads nowhere gives way to the next.
ResolveTarget(target, cs) ==
    LET found[t \in Targets] ==
          IF t.kind = "file" THEN t.path
          ELSE FirstBut(NoPath, [i \in DOMAIN Attempts(t, cs) |-> found[Attempts(t, cs)[i]]])
    IN  found[target]

Fill(path, sub) == <<path, IF path \in Starred THEN sub ELSE NoPath>>

\* Patterns are tried in the order of the map, under the import conditions always.
MatchWildcard(patterns, sub) ==
    FirstBut(Unfound, [i \in DOMAIN patterns |->
        LET path == ResolveTarget(patterns[i].target, ImportConditions)
        IN  IF sub \in patterns[i].covers /\ path # NoPath THEN Fill(path, sub) ELSE Unfound])

\* A path taken from the map as it is.
Plain(path) == <<path, NoPath>>

\* What a field that is no list makes of a subpath.
Select(f, sub, cs) ==
    CASE f.kind = "paths" -> IF sub \in DOMAIN f.exact
                             THEN Plain(ResolveTarget(f.exact[sub], cs))
                             ELSE MatchWildcard(f.patterns, sub)
      [] f.kind \in {"file", "when"} /\ sub = Root -> Plain(ResolveTarget(f, cs))
      [] OTHER -> Unfound

ResolveExports(field, sub, cs) ==
    LET found[f \in Fields] ==
          IF f.kind = "list" THEN FirstBut(Unfound, [i \in DOMAIN f.items |-> found[f.items[i]]])
          ELSE Select(f, sub, cs)
    IN  found[field]

ExportExtensions == <<".js", ".mjs", ".cjs">>
ImportExtensions == <<".js", ".cjs", ".mjs">>
Directory == "/"

\* What exists at a path is taken, a directory too, though Node will not load one; else the
\* file that an extension completes the path to.  A tree lists a directory that is asked for
\* by itself, or by its index.js.
Completed(tree, path, extensions) ==
    LET with(e) == <<path[1], path[2], e>> IN
    CASE with(NoPath) \in tree -> with(NoPath)
      [] with(NoPath) \notin tree /\ {with(Directory), with("/index.js")} \cap tree # {} ->
             with(Directory)
      [] OTHER -> FirstBut(NoFile, [i \in DOMAIN extensions |->
                    IF with(extensions[i]) \in tree THEN with(extensions[i]) ELSE NoFile])

AssertFile(tree, path) ==
    IF path = Unfound \/ path[1] \in Outside THEN NoFile
    ELSE Completed(tree, path, ExportExtensions)

\* Which files stand in for an entry that package.json does not name.
Fallbacks(json) ==
    IF json.type = "module" THEN <<"index.js", "index.mjs">>
    ELSE <<"index.js", "index.cjs", "index.mjs">>

\* Fault: a subpath that the map does not offer is looked up in the tree.
ResolvePackageEntry_Lenient(tree, json, sub, cs) ==
    LET mapped == ResolveExports(json.exports, sub, cs) IN
    IF json.exports # Nothing /\ mapped # Unfound THEN AssertFile(tree, mapped)
    ELSE AssertFile(tree, Plain(IF sub = Root THEN json.main ELSE sub))

ResolvePackageEntry(tree, json, sub, cs) ==
    CASE json.exports # Nothing -> AssertFile(tree, ResolveExports(json.exports, sub, cs))
      [] json.exports = Nothing /\ sub # Root -> AssertFile(tree, Plain(sub))
      [] json.exports = Nothing /\ sub = Root ->
           CASE cs[1] = "import" /\ json.module # NoPath -> AssertFile(tree, Plain(json.module))
             [] ~(cs[1] = "import" /\ json.module # NoPath) /\ json.main # NoPath ->
                  AssertFile(tree, Plain(json.main))
             [] OTHER -> FirstBut(NoFile, [i \in DOMAIN Fallbacks(json) |->
                           LET file == <<Fallbacks(json)[i], NoPath, NoPath>>
                           IN  IF file \in tree THEN file ELSE NoFile])

\* A "#" specifier leads to a file of the importing package or to a package specifier.
ImportTarget(tree, target) ==
    IF target[1] \in Bare
    THEN [kind |-> "package", specifier |-> target[1], file |-> NoFile]
    ELSE [kind |-> "file", specifier |-> NoPath,
          file |-> IF target = Unfound \/ target[1] \in Outside THEN NoFile
                   ELSE Completed(tree, target, ImportExtensions)]

ResolvePackageImports(tree, imports, sub, cs) ==
    ImportTarget(tree, ResolveExports(imports, sub, cs))

------------------------------------------------------------------------------
(* What a map offers, without regard to order and conditions *)

Leaves(target) ==
    LET leaves[t \in Targets] ==
          IF t.kind = "file" THEN {t.path} ELSE UNION {leaves[part] : part \in Parts(t)}
    IN  leaves[target]

OfferedBy(f, sub) ==
    CASE f.kind = "paths" ->
           {Plain(path) : path \in UNION {Leaves(f.exact[k]) : k \in {sub} \cap DOMAIN f.exact}}
           \cup UNION {{Fill(path, sub) : path \in Leaves(f.patterns[i].target)} :
                        i \in {j \in DOMAIN f.patterns : sub \in f.patterns[j].covers}}
      [] f.kind \in {"file", "when"} /\ sub = Root -> {Plain(path) : path \in Leaves(f)}
      [] OTHER -> {}

Offered(field, sub) ==
    LET offered[f \in Fields] == IF f.kind = "list" THEN UNION {offered[part] : part \in Parts(f)}
                                 ELSE OfferedBy(f, sub)
    IN  offered[field]
==============================================================================
