------------------------------ MODULE Importers ------------------------------
(***************************************************************************)
(* packages/core/src/runtime/parent.ts, session.ts and workspace/index.ts: *)
(* who imports, what it may import, and which package that is.  All of it  *)
(* is computed from the files of the project, the lock of the session and  *)
(* the file that contains the import.                                      *)
(***************************************************************************)
EXTENDS PackageMaps, FiniteSets

CONSTANTS Names,      \* package names
          NameOrder,  \* the names in the order localeCompare gives them
          Versions,   \* versions, in semver order
          TextOrder,  \* the versions in the order localeCompare gives them
          Ranges,     \* semver ranges, "*" and workspace: ranges
          Sat,        \* the versions that satisfy a range
          PathOf,     \* the directory that a workspace: range names, if it names one
          Unstated,   \* the version of a member that states none
          SpecOf      \* the package and the subpath that a path in Bare means

AnyVersion == "*"
Undeclared == ""
Workspace == DOMAIN PathOf

ASSUME RangesAssumption ==
    AnyVersion \in Ranges /\ Undeclared \notin Ranges /\ Workspace \subseteq Ranges
\* Any version will do for "*"; a workspace: range is no range of versions.
ASSUME SatAssumption ==
    /\ Sat \in [Ranges -> SUBSET Versions] /\ Sat[AnyVersion] = Versions
    /\ AnyVersion \notin Workspace /\ \A r \in Workspace : Sat[r] = {}
ASSUME VersionsAssumption ==
    /\ IsFiniteSet(Versions) /\ Versions \subseteq Nat \ {0} /\ Unstated \in Versions
    /\ TextOrder \in Seq(Versions) /\ \A v \in Versions : \E i \in DOMAIN TextOrder : TextOrder[i] = v
\* "#" stands for a request of the imports map, which is no name.
ASSUME NamesAssumption ==
    /\ Names \subseteq STRING /\ "#" \notin Names
    /\ SpecOf \in [Bare -> [name : Names, sub : STRING]]

Packages == Names \X Versions
NoVersion == 0

\* Code belongs to the project, to a member of its workspace, or to a stored package.
Project == <<"project", "", NoVersion>>
MemberCode(m) == <<"workspace", m.name, m.version>>
PackageCode(p) == <<"package", p[1], p[2]>>
Nowhere == <<"nowhere", "", NoVersion>>
PackageOf(owner) == <<owner[2], owner[3]>>

At(declared, n) == IF n \in DOMAIN declared THEN declared[n] ELSE Undeclared
None == [n \in {} |-> Undeclared]

------------------------------------------------------------------------------
(* Workspaces *)

NoMember ==
    [name |-> "", version |-> NoVersion, path |-> NoPath, around |-> {}, manifest |-> Nothing]

\* A directory without package.json is a member with nothing declared, mapped or to load,
\* whatever its knot.toml says; one whose package.json cannot be parsed is none.
ReadMember(dir) ==
    CASE dir.kind = "json" -> [name |-> dir.name, version |-> dir.version, path |-> dir.path,
                               around |-> dir.around, manifest |-> dir.manifest]
      [] dir.kind = "toml" -> [name |-> dir.base, version |-> Unstated, path |-> dir.path,
                               around |-> dir.around,
                               manifest |-> [dir.manifest EXCEPT !.dependencies = None,
                                               !.optional = None, !.peers = None,
                                               !.imports = Nothing,
                                               !.files = @ \ {Manifest}]]
      [] OTHER -> NoMember

\* The first directory of a name is the member; the members are in the order of their names.
Members(dirs) ==
    LET first(n) == FirstBut(NoMember, [i \in DOMAIN dirs |->
                      IF ReadMember(dirs[i]).name = n THEN ReadMember(dirs[i]) ELSE NoMember])
    IN  SelectSeq([i \in DOMAIN NameOrder |-> first(NameOrder[i])], LAMBDA m : m # NoMember)

\* A workspace: range may name a directory; otherwise only the name counts.
ResolveWorkspacePackage(members, n, r) ==
    FirstBut(NoMember,
        [i \in DOMAIN members |->
            IF r \in Workspace /\ PathOf[r] # NoPath /\ members[i].path = PathOf[r]
            THEN members[i] ELSE NoMember]
        \o [i \in DOMAIN members |-> IF members[i].name = n THEN members[i] ELSE NoMember])

IsMember(members, n) == \E i \in DOMAIN members : members[i].name = n

\* resolveSpecifier takes a member when the request or the project asks for one.
TakesMember(here, n, r) ==
    /\ IsMember(here.members, n)
    /\ r \in Workspace \/ At(here.project.dependencies, n) \in Workspace

------------------------------------------------------------------------------
(* Importers *)

\* The lock may still name a member that has left the workspace; its directory is then read
\* as it is.
MemberOf(here, owner) ==
    LET known == here.members \o here.former
    IN  FirstBut(NoMember, [i \in DOMAIN known |->
            IF MemberCode(known[i]) = owner THEN known[i] ELSE NoMember])

Described(here, owner) ==
    CASE owner[1] = "workspace" -> MemberOf(here, owner).manifest
      [] owner[1] = "package" -> here.packages[PackageOf(owner)]
      [] OTHER -> here.project

\* The first member whose directory contains the code of an owner.
MemberAround(here, owner) ==
    FirstBut(NoMember, [i \in DOMAIN here.members |->
        IF owner[1] = "workspace" /\ here.members[i].path \in MemberOf(here, owner).around
        THEN here.members[i] ELSE NoMember])

\* Which owner Knot takes the importing file to belong to: the first member around it, the
\* project, a stored package that the lock knows; the project if all else fails.
IdentifyImporter(here, locked, owner) ==
    CASE MemberAround(here, owner) # NoMember -> MemberCode(MemberAround(here, owner))
      [] owner[1] = "package" /\ locked[PackageOf(owner)] = "object" -> owner
      [] OTHER -> Project

\* What an importer declares.  The lock has no peer dependencies.
Importer(here, owner) ==
    LET d == Described(here, owner) IN
    [dependencies |-> IF owner = Project
                      THEN [n \in DOMAIN d.dependencies \cup DOMAIN d.development |->
                              IF n \in DOMAIN d.dependencies THEN d.dependencies[n]
                              ELSE d.development[n]]
                      ELSE d.dependencies,
     optional |-> d.optional,
     peers |-> IF owner[1] = "package" THEN None ELSE d.peers]

RangeForImporter(here, owner, n) ==
    LET importer == Importer(here, owner)
        peer == IF n \in DOMAIN importer.peers
                THEN FirstBut(Undeclared, <<At(here.project.dependencies, n),
                                            At(here.project.optional, n), importer.peers[n]>>)
                ELSE Undeclared
    IN  FirstBut(Undeclared, <<At(importer.dependencies, n), At(importer.optional, n), peer>>)

------------------------------------------------------------------------------
(* Choosing a version *)

Maximal(V) == {v \in V : \A w \in V : w <= v}
Highest(V) == IF Maximal(V) = {} THEN NoVersion ELSE CHOOSE v \in Maximal(V) : TRUE

LockedVersions(locked, n) == {v \in Versions : locked[<<n, v>>] # "absent"}

Reusable(locked, n, r) == Highest(LockedVersions(locked, n) \cap Sat[r])

\* A dist-tag decides where any version will do.
SelectVersion(here, n, r) ==
    LET published == {v \in Versions : <<n, v>> \in DOMAIN here.packages}
    IN  CASE published = {} -> NoVersion
          [] published # {} /\ r = AnyVersion -> here.tag[n]
          [] OTHER -> Highest(published \cap Sat[r])

\* What resolveOnce and ensurePackage make of a name and a range: reuse a stored package,
\* take a locked member, refuse for lack of the lock or the network, or fetch.  A frozen
\* session asks the source for a locked version, which fails: the lock has no URL.
Choice(here, mode, locked, store, n, r) ==
    LET v == Reusable(locked, n, r)
        sealed == mode.frozen \/ mode.offline
        as == IF v = NoVersion THEN "absent" ELSE locked[<<n, v>>]
        stored == as = "object" /\ <<n, v>> \in store
    IN  CASE stored -> [act |-> "reuse", version |-> v]
          [] as = "workspace" /\ sealed -> [act |-> "member", version |-> v]
          [] ~stored /\ as # "workspace" /\ sealed -> [act |-> "refuse", version |-> v]
          [] OTHER -> [act |-> "fetch", version |-> SelectVersion(here, n, r)]
==============================================================================
