------------------------------- MODULE Imports -------------------------------
(***************************************************************************)
(* packages/core/src/runtime/execute.ts, loader.ts, cjs-preload.cjs and    *)
(* session.ts over resolver/index.ts and archive.ts: knot snapshot, then   *)
(* knot run, from the prefetch of the parent to the imports of the child.  *)
(* The imports of a module graph run concurrently, and the directories     *)
(* they are loaded from are shared with every process of the machine: each *)
(* step of an extraction is an action.  Another project's process extracts *)
(* from the same store and may die.                                        *)
(***************************************************************************)
EXTENDS Importers

CONSTANTS Worlds,  \* names of the situations considered
          World,   \* the situations
          Listing, \* the order in which a manifest lists the names of a set
          Asked    \* the conditions that Node asks with

ASSUME AskedAssumption == Asked \subseteq Known
ASSUME ListingAssumption ==
    \A N \in SUBSET Names : /\ Listing[N] \in Seq(N)
                            /\ \A n \in N : \E i \in DOMAIN Listing[N] : Listing[N][i] = n

FileNames == STRING \X STRING \X STRING
Declarations == UNION {[N -> Ranges] : N \in SUBSET Names}

IsManifest(d) ==
    /\ {d.dependencies, d.development, d.optional, d.peers} \subseteq Declarations
    /\ d.json.exports \in Fields /\ d.imports \in Fields
    /\ {d.json.main, d.json.module} \subseteq STRING
    /\ d.files \subseteq FileNames

Entries == {"absent", "bare", "object", "workspace"}
Options == [frozen : BOOLEAN, offline : BOOLEAN, prefetch : BOOLEAN, snapshot : BOOLEAN]

\* The prefetch of the parent and another project's process request as code does.
Prefetching == <<"prefetch", "", NoVersion>>
Outsider == <<"outsider", "", NoVersion>>

\* Tags point to published versions, an archive lists the files of its package, the lock
\* names what is published and what is or was a member, and names are unique.
ASSUME WorldsAssumption ==
    \A w \in Worlds :
        LET packages == World[w].packages
            known == World[w].members \o World[w].former
        IN
        /\ IsManifest(World[w].project) /\ World[w].modes \subseteq Options
        /\ DOMAIN packages \subseteq Packages
        /\ World[w].store \cup World[w].unpacked \subseteq DOMAIN packages
        /\ \A p \in DOMAIN packages :
              /\ <<p[1], World[w].tag[p[1]]>> \in DOMAIN packages
              /\ IsManifest(packages[p]) /\ Manifest \in packages[p].files
              /\ packages[p].archive \in Seq(packages[p].files) \ {<< >>}
              /\ packages[p].files \subseteq {packages[p].archive[i] :
                                               i \in 1 .. Len(packages[p].archive)}
        /\ IsSequence(World[w].members) /\ IsSequence(World[w].former)
        /\ \A i, j \in DOMAIN known : MemberCode(known[i]) = MemberCode(known[j]) => i = j
        /\ \A i \in DOMAIN known :
              /\ <<known[i].name, known[i].version>> \in Packages
              /\ IsManifest(known[i].manifest)
        /\ World[w].lock \in [Packages -> Entries]
        /\ \A p \in Packages :
              /\ World[w].lock[p] = "workspace" =>
                    \E i \in DOMAIN known : MemberCode(known[i]) = <<"workspace", p[1], p[2]>>
              /\ World[w].lock[p] \in {"bare", "object"} => p \in DOMAIN packages
        /\ \A c \in World[w].calls :
              /\ c.via \in {"import", "require", "prefetch", "outside"}
              /\ c.via = "prefetch" <=> c.owner = Prefetching
              /\ c.via = "outside" <=> c.owner = Outsider
              /\ c.spec.name \in Names \cup {"#"} /\ c.spec.sub \in STRING
              /\ c.spec.name = "#" => c.spec.sub # Root

\* The queue entries for what a manifest declares, in its order.
EntriesOf(declared) ==
    LET names == Listing[DOMAIN declared]
    IN  [i \in DOMAIN names |-> <<names[i], declared[names[i]]>>]

VARIABLES
  world, mode,  \* the situation; the options of the commands
  phase,        \* how far the two commands are
  file,         \* knot.lock
  locked,       \* the lock of the session at work
  store,        \* the packages whose archive is in the store
  disk,         \* the files in the directory of each unpacked package
  queue, seen,  \* of snapshotReachable
  modules,      \* the session file: what require() finds, by name
  loaded,       \* the owners of the code that runs
  at,           \* where each call is
  rewritten,    \* history: has another command written knot.lock meanwhile?
  followed,     \* history: the owners whose dependencies the snapshot has queued
  torn          \* history: packages that were read or replaced while being extracted, or
                \* of which a removal has left a part

vars == <<world, mode, phase, file, locked, store, disk, queue, seen, modules, loaded, at,
          rewritten, followed, torn>>
Shared == <<file, locked, store>>
Rest == <<world, mode, phase, queue, seen, modules, rewritten, followed>>

History == <<rewritten, followed, torn>>

Here == World[world]
Calls == Here.calls

Ended == {"done", "undeclared", "unresolved", "missing", "broken", "corrupt", "unfound",
          "directory", "dead"}
PCs == {"idle", "fetch", "check", "wipe", "extract", "ingest", "entry"} \cup Ended

Waiting == [pc |-> "idle", of |-> Nowhere, sub |-> Root, pos |-> 0, fetched |-> FALSE,
            file |-> NoFile, whole |-> TRUE]

Init ==
    /\ world \in Worlds
    /\ mode \in Here.modes
    /\ phase = IF mode.snapshot THEN "snapshot" ELSE "start"
    /\ file = Here.lock
    /\ locked = Here.lock
    /\ store = Here.store
    /\ disk = [p \in DOMAIN Here.packages |-> IF p \in Here.unpacked
                                              THEN Here.packages[p].files ELSE {}]
    /\ queue = EntriesOf(Here.project.dependencies)
    /\ seen = {}
    /\ modules = [n \in Names |-> [of |-> Nowhere, file |-> NoFile]]
    /\ loaded = {Outsider}
    /\ at = [c \in Calls |-> Waiting]
    /\ rewritten = FALSE
    /\ followed = {Project}
    /\ torn = {}

Target(c) == PackageOf(at[c].of)
Tree(owner) == IF owner[1] = "package" THEN disk[PackageOf(owner)]
               ELSE Described(Here, owner).files

------------------------------------------------------------------------------
(* knot snapshot *)

Online == [frozen |-> FALSE, offline |-> FALSE]

\* Fault: the dependencies of members are left to the first import.
Follow_Stored(owner) ==
    IF owner[1] = "workspace" THEN << >> ELSE EntriesOf(Described(Here, owner).dependencies)

Follow(owner) == EntriesOf(Described(Here, owner).dependencies)

\* Fault: visited specifiers are not remembered.
Mark_Never(spec) == {}

Mark(spec) == {spec}

Skip ==
    /\ phase = "snapshot" /\ queue # << >> /\ Head(queue) \in seen
    /\ queue' = Tail(queue)
    /\ UNCHANGED <<world, mode, phase, Shared, disk, seen, modules, loaded, at, History>>

\* Fault: the directory is noted in place of the source.
Remembered_Directory(m) == [locked EXCEPT ![<<m.name, m.version>>] = m.path]

\* rememberWorkspace, with the version of the member.
Remembered(m) == [locked EXCEPT ![<<m.name, m.version>>] = "workspace"]

VisitMember ==
    LET spec == Head(queue) IN
    /\ phase = "snapshot" /\ queue # << >> /\ spec \notin seen
    /\ TakesMember(Here, spec[1], spec[2])
    /\ LET m == ResolveWorkspacePackage(Here.members, spec[1], Undeclared) IN
         /\ locked' = Remembered(m)
         /\ queue' = Tail(queue) \o Follow(MemberCode(m))
         /\ followed' = followed \cup {MemberCode(m)}
    /\ seen' = seen \cup Mark(spec)
    /\ UNCHANGED <<world, mode, phase, file, store, disk, modules, loaded, at, rewritten, torn>>

\* Resolution, fetch and extraction of one package; snapshots do them one after the other.
Visit ==
    LET spec == Head(queue)
        choice == Choice(Here, Online, locked, store, spec[1], spec[2])
        p == <<spec[1], choice.version>>
    IN
    /\ phase = "snapshot" /\ queue # << >> /\ spec \notin seen
    /\ ~TakesMember(Here, spec[1], spec[2])
    /\ seen' = seen \cup Mark(spec)
    /\ IF choice.version = NoVersion
       THEN /\ phase' = "over"
            /\ UNCHANGED <<locked, store, disk, queue, followed>>
       ELSE /\ locked' = [locked EXCEPT ![p] = "object"]
            /\ store' = store \cup {p}
            /\ disk' = [disk EXCEPT ![p] = IF Manifest \in @ THEN @ ELSE Here.packages[p].files]
            /\ queue' = Tail(queue) \o Follow(PackageCode(p))
            /\ followed' = followed \cup {PackageCode(p)}
            /\ UNCHANGED phase
    /\ UNCHANGED <<world, mode, file, modules, loaded, at, rewritten, torn>>

SnapshotEnds ==
    /\ phase = "snapshot" /\ queue = << >>
    /\ file' = locked
    /\ phase' = "start"
    /\ UNCHANGED <<world, mode, locked, store, disk, queue, seen, modules, loaded, at, History>>

------------------------------------------------------------------------------
(* The parent of knot run *)

\* RuntimeSession.open, then runProject up to the prefetch.
StartRun ==
    /\ phase = "start"
    /\ locked' = file
    /\ phase' = IF mode.prefetch THEN "prefetch" ELSE "map"
    /\ loaded' = loaded \cup (IF mode.prefetch THEN {Prefetching} ELSE {})
    /\ UNCHANGED <<world, mode, file, store, disk, queue, seen, modules, at, History>>

CallsOf(owners) == {c \in Calls : c.owner \in owners}

\* Promise.all and persistSession.
PrefetchEnds ==
    /\ phase = "prefetch"
    /\ \A c \in CallsOf({Prefetching}) : at[c].pc \in Ended
    /\ IF \A c \in CallsOf({Prefetching}) : at[c].pc = "done"
       THEN file' = locked /\ phase' = "map"
       ELSE phase' = "over" /\ UNCHANGED file
    /\ UNCHANGED <<world, mode, locked, store, disk, queue, seen, modules, loaded, at, History>>

\* A package of the lock, as code, and the file that require() of its name would load.
CodeOf(p) ==
    CASE locked[p] = "workspace" -> <<"workspace", p[1], p[2]>>
      [] locked[p] = "object" -> PackageCode(p)
      [] OTHER -> Nowhere

RequireEntry(owner) ==
    IF owner = Nowhere \/ Manifest \notin Tree(owner) THEN NoFile
    ELSE ResolvePackageEntry(Tree(owner), Described(Here, owner).json, Root, RequireConditions)

\* Of the packages of a name that offer require() an entry, the last one of the lock.
LastOffering(n) ==
    LET offering == {i \in DOMAIN TextOrder :
                       RequireEntry(CodeOf(<<n, TextOrder[i]>>)) # NoFile}
    IN  IF offering = {} THEN Nowhere
        ELSE CodeOf(<<n, TextOrder[CHOOSE i \in offering : \A j \in offering : j <= i]>>)

\* buildRequireMap: there is one entry for each name, the last one wins.
BuildMap ==
    /\ phase = "map"
    /\ modules' = [n \in Names |-> [of |-> LastOffering(n),
                                   file |-> RequireEntry(LastOffering(n))]]
    /\ phase' = "spawn"
    /\ UNCHANGED <<world, mode, Shared, disk, queue, seen, loaded, at, History>>

\* Another command of the project drops an entry before the child opens its session.
Rewrite ==
    /\ phase = "spawn" /\ Here.rival /\ ~rewritten
    /\ \E p \in Packages : /\ file[p] # "absent"
                           /\ file' = [file EXCEPT ![p] = "absent"]
    /\ rewritten' = TRUE
    /\ UNCHANGED <<world, mode, phase, locked, store, disk, queue, seen, modules, loaded, at,
                   followed, torn>>

\* The loader opens a session of its own.
ChildOpens ==
    /\ phase = "spawn"
    /\ locked' = file
    /\ phase' = "running"
    /\ loaded' = loaded \cup {Project}
    /\ UNCHANGED <<world, mode, file, store, disk, queue, seen, modules, at, History>>

ProgramEnds ==
    /\ phase = "running"
    /\ \A c \in CallsOf(loaded \ {Outsider}) : at[c].pc \in Ended
    /\ phase' = "over"
    /\ UNCHANGED <<world, mode, Shared, disk, queue, seen, modules, loaded, at, History>>

------------------------------------------------------------------------------
(* Calls *)

Starts(c) == c.owner \in loaded /\ at[c].pc = "idle"
Ends(c, how) == at' = [at EXCEPT ![c].pc = how]

\* How a call ends that is given a file; Node does not load a directory.
Outcome(f) == CASE f = NoFile -> "unfound"
                [] f # NoFile /\ f[3] = Directory -> "directory"
                [] OTHER -> "done"

\* knotResolveFilename: the name alone counts, whoever requires it.
Require(c) ==
    /\ c.via = "require" /\ Starts(c) /\ phase = "running"
    /\ IF c.spec.sub = Root /\ modules[c.spec.name].of # Nowhere
       THEN /\ at' = [at EXCEPT ![c].pc = Outcome(modules[c.spec.name].file),
                                ![c].of = modules[c.spec.name].of,
                                ![c].file = modules[c.spec.name].file]
            /\ loaded' = IF Outcome(modules[c.spec.name].file) = "done"
                         THEN loaded \cup {modules[c.spec.name].of} ELSE loaded
       ELSE Ends(c, "undeclared") /\ UNCHANGED loaded
    /\ UNCHANGED <<Rest, Shared, disk, torn>>

\* What the importer's imports map makes of the request; only "#" requests look into it.
Mapped(c, owner) ==
    LET found == Tree(owner)
        imports == IF owner[1] = "package" /\ Manifest \notin found THEN Nothing
                   ELSE Described(Here, owner).imports
    IN  IF c.spec.name # "#"
        THEN [kind |-> "package", specifier |-> c.spec, file |-> NoFile]
        ELSE LET x == ResolvePackageImports(found, imports, c.spec.sub,
                                            NormalizeConditions(Asked))
             IN  [x EXCEPT !.specifier = IF x.kind = "package" THEN SpecOf[@] ELSE c.spec]

\* An import asks with the range of its importer; prefetch knows the project's dependencies.
RangeOf(c, owner, n) ==
    IF c.via = "prefetch"
    THEN FirstBut(Undeclared, <<At(Here.project.dependencies, n), AnyVersion>>)
    ELSE RangeForImporter(Here, owner, n)

\* A request: who is taken to make it, what for, and what is known of it.
Request(c, owner, x) ==
    [importer |-> owner, kind |-> x.kind, file |-> x.file, name |-> x.specifier.name,
     sub |-> x.specifier.sub, range |-> RangeOf(c, owner, x.specifier.name)]

\* resolveFileUrl up to its first await, and the same in a prefetch.
Requests(c) ==
    IF \/ c.via = "prefetch" /\ Starts(c) /\ phase = "prefetch"
       \/ c.via = "import" /\ Starts(c) /\ phase = "running"
    THEN LET owner == IdentifyImporter(Here, locked, c.owner)
         IN  {Request(c, owner, Mapped(c, owner))}
    ELSE {}

\* An import takes a member whatever the range, a prefetch for workspace: ranges.
Local(c, r) ==
    IF c.via = "prefetch" THEN r.range \in Workspace /\ IsMember(Here.members, r.name)
    ELSE r.range \in Workspace \/ IsMember(Here.members, r.name)

\* An import that the importer's own files answer.
ImportOwn(c, r) ==
    /\ r.kind = "file"
    /\ at' = [at EXCEPT ![c].pc = Outcome(r.file), ![c].of = r.importer, ![c].file = r.file]
    /\ UNCHANGED <<Rest, Shared, disk, loaded, torn>>

ImportUndeclared(c, r) ==
    /\ r.kind = "package" /\ r.range = Undeclared
    /\ Ends(c, "undeclared")
    /\ UNCHANGED <<Rest, Shared, disk, loaded, torn>>

UseMember(c, r) ==
    LET m == ResolveWorkspacePackage(Here.members, r.name,
                                     IF c.via = "prefetch" THEN Undeclared ELSE r.range) IN
    /\ r.kind = "package" /\ r.range # Undeclared /\ Local(c, r)
    /\ IF m = NoMember
       THEN Ends(c, "unresolved") /\ UNCHANGED locked
       ELSE /\ locked' = Remembered(m)
            /\ at' = [at EXCEPT ![c].of = MemberCode(m), ![c].sub = r.sub,
                                ![c].pc = IF c.via = "prefetch" THEN "done" ELSE "entry"]
    /\ UNCHANGED <<Rest, file, store, disk, loaded, torn>>

\* resolveSpecifier; a package from the registry is fetched, stored or not.
Resolve(c, r) ==
    LET choice == Choice(Here, mode, locked, store, r.name, r.range)
        p == <<r.name, choice.version>>
    IN
    /\ r.kind = "package" /\ r.range # Undeclared /\ ~Local(c, r)
    /\ CASE choice.act = "refuse" -> Ends(c, "missing")
         [] choice.act = "member" ->
              at' = [at EXCEPT ![c].of = CodeOf(p), ![c].sub = r.sub,
                               ![c].pc = IF c.via = "prefetch" THEN "done" ELSE "entry"]
         [] choice.act = "fetch" /\ choice.version = NoVersion -> Ends(c, "unresolved")
         [] OTHER -> at' = [at EXCEPT ![c].of = PackageCode(p), ![c].sub = r.sub,
                                      ![c].pc = IF choice.act = "reuse" THEN "check" ELSE "fetch"]
    /\ UNCHANGED <<Rest, Shared, disk, loaded, torn>>

\* The archive arrives, and store.put ends; Resolver and ContentStore have the details.
Fetch(c) ==
    /\ at[c].pc = "fetch"
    /\ store' = store \cup {Target(c)}
    /\ at' = [at EXCEPT ![c].pc = "check", ![c].fetched = TRUE]
    /\ UNCHANGED <<Rest, file, locked, disk, loaded, torn>>

OutsiderStarts(c) ==
    /\ c.via = "outside" /\ Starts(c)
    /\ \E p \in store : /\ p[1] = c.spec.name
                        /\ at' = [at EXCEPT ![c].pc = "check", ![c].of = PackageCode(p)]
    /\ UNCHANGED <<Rest, Shared, disk, loaded, torn>>

------------------------------------------------------------------------------
(* ensureUnpacked and extractNpmTarball *)

Others(c, pcs) == {d \in Calls \ {c} : at[d].pc \in pcs /\ Target(d) = Target(c)}
Tears(c, pcs) == torn' = IF Others(c, pcs) = {} THEN torn ELSE torn \cup {Target(c)}
Unpacked(c) == Manifest \in disk[Target(c)]

AfterUnpack(c) ==
    CASE c.via = "outside" -> "done"
      [] c.via # "outside" /\ at[c].fetched -> "ingest"
      [] c.via = "import" /\ ~at[c].fetched -> "entry"
      [] OTHER -> "done"

\* package.json stands for the whole tree.
Check(c) ==
    /\ at[c].pc = "check"
    /\ Ends(c, IF Unpacked(c) THEN AfterUnpack(c) ELSE "wipe")
    /\ Tears(c, IF Unpacked(c) THEN {"extract"} ELSE {})
    /\ UNCHANGED <<Rest, Shared, disk, loaded>>

\* The directory is removed and made anew.
Wipe(c) ==
    /\ at[c].pc = "wipe"
    /\ disk' = [disk EXCEPT ![Target(c)] = {}]
    /\ at' = [at EXCEPT ![c].pc = "extract", ![c].pos = 0]
    /\ Tears(c, {"extract", "ingest", "entry"})
    /\ UNCHANGED <<Rest, Shared, loaded>>

\* One file of the archive after the other, in the order the archive has them.
Extract(c) ==
    LET archive == Here.packages[Target(c)].archive IN
    /\ at[c].pc = "extract"
    /\ disk' = [disk EXCEPT ![Target(c)] = @ \cup {archive[at[c].pos + 1]}]
    /\ at' = [at EXCEPT ![c].pos = @ + 1,
                        ![c].pc = IF at[c].pos + 1 = Len(archive) THEN AfterUnpack(c) ELSE @]
    /\ UNCHANGED <<Rest, Shared, loaded, torn>>

\* Fault: the handler leaves the directory as it is.
Removed_Not(p) == disk

Removed(p) == [disk EXCEPT ![p] = {}]

\* The archive is bad, the disk is full, or the directory has been removed meanwhile.
ExtractFails(c) ==
    /\ at[c].pc = "extract" /\ Here.faults
    /\ disk' = Removed(Target(c))
    /\ Ends(c, "broken")
    /\ Tears(c, {"extract", "ingest", "entry"})
    /\ UNCHANGED <<Rest, Shared, loaded>>

\* A removal fails and leaves a part of the directory: that which an extraction begins
\* with ends the call, that of the handler is swallowed, and the call ends as it would.
RemovalFails(c) ==
    /\ at[c].pc \in {"wipe", "extract"} /\ Here.faults
    /\ \E left \in (SUBSET disk[Target(c)]) \ {{}} :
          disk' = [disk EXCEPT ![Target(c)] = left]
    /\ Ends(c, "broken")
    /\ torn' = torn \cup {Target(c)}
    /\ UNCHANGED <<Rest, Shared, loaded>>

OutsiderDies(c) ==
    /\ c.via = "outside" /\ at[c].pc \in {"wipe", "extract"}
    /\ Ends(c, "dead")
    /\ torn' = torn \cup {Target(c)}
    /\ UNCHANGED <<Rest, Shared, disk, loaded>>

\* The end of ingest: the lock learns of the package.
Ingest(c) ==
    /\ at[c].pc = "ingest"
    /\ locked' = [locked EXCEPT ![Target(c)] = "object"]
    /\ Ends(c, IF c.via = "import" THEN "entry" ELSE "done")
    /\ UNCHANGED <<Rest, file, store, disk, loaded, torn>>

\* fileUrlForPackage and fileUrlForLocalPackage; Node then runs the file.
Entry(c) ==
    LET owner == at[c].of
        found == ResolvePackageEntry(Tree(owner), Described(Here, owner).json, at[c].sub,
                                     NormalizeConditions(Asked))
        pc == IF Manifest \notin Tree(owner) THEN "corrupt" ELSE Outcome(found)
    IN
    /\ at[c].pc = "entry"
    /\ at' = [at EXCEPT ![c].pc = pc, ![c].file = IF pc = "done" THEN found ELSE NoFile,
                        ![c].whole = Tree(owner) = Described(Here, owner).files]
    /\ loaded' = IF pc = "done" THEN loaded \cup {owner} ELSE loaded
    /\ UNCHANGED <<Rest, Shared, disk, torn>>

Call(c) == \/ Require(c) \/ Fetch(c) \/ Check(c) \/ Wipe(c) \/ Extract(c) \/ ExtractFails(c)
           \/ RemovalFails(c) \/ Ingest(c) \/ Entry(c)
           \/ \E r \in Requests(c) : \/ ImportOwn(c, r) \/ ImportUndeclared(c, r)
                                     \/ UseMember(c, r) \/ Resolve(c, r)

Snapshot == Skip \/ VisitMember \/ Visit \/ SnapshotEnds
Run == StartRun \/ PrefetchEnds \/ BuildMap \/ ChildOpens \/ ProgramEnds

\* The run is over, whatever the other project's process still does.
Over == phase = "over" /\ UNCHANGED vars

Next == \/ Snapshot \/ Run \/ Rewrite \/ Over
        \/ \E c \in Calls : Call(c) \/ OutsiderStarts(c) \/ OutsiderDies(c)

Spec == Init /\ [][Next]_vars

------------------------------------------------------------------------------
(* Properties *)

Phases == {"snapshot", "start", "prefetch", "map", "spawn", "running", "over"}
Kinds == {"project", "workspace", "package", "nowhere", "prefetch", "outsider"}
Owners == Kinds \X STRING \X (Versions \cup {NoVersion})

\* Types; nothing is in a package's directory but files of the package.
TypeOK ==
    /\ world \in Worlds
    /\ mode \in Options
    /\ phase \in Phases
    /\ file \in [Packages -> Entries] /\ locked \in [Packages -> Entries]
    /\ store \subseteq DOMAIN Here.packages
    /\ DOMAIN disk = DOMAIN Here.packages
    /\ \A p \in DOMAIN disk : disk[p] \subseteq Here.packages[p].files
    /\ queue \in Seq(Names \X Ranges) /\ seen \subseteq Names \X Ranges
    /\ modules \in [Names -> [of : Owners, file : FileNames]]
    /\ loaded \subseteq Owners /\ followed \subseteq Owners
    /\ at \in [Calls -> [pc : PCs, of : Owners, sub : STRING, pos : Nat, fetched : BOOLEAN,
                       file : FileNames, whole : BOOLEAN]]
    /\ rewritten \in BOOLEAN /\ torn \subseteq DOMAIN Here.packages

Imported(c) == c.via = "import" /\ at[c].pc = "done"

\* What an owner's own manifest says it may import, and in which ranges; for a peer also in
\* the project's.
Declared(owner) ==
    LET d == Described(Here, owner)
        listed(lists) == UNION {{<<n, list[n]>> : n \in DOMAIN list} : list \in lists}
    IN  listed({d.dependencies, d.development, d.optional, d.peers})
          \cup {spec \in listed({Here.project.dependencies, Here.project.optional}) :
                   spec[1] \in DOMAIN d.peers}

\* A member meets what names it or its directory, a version what its range admits.
Meets(other, spec) ==
    \/ other[1] = "workspace" /\ other[2] = spec[1]
    \/ other[1] = "workspace" /\ spec[2] \in Workspace
            /\ PathOf[spec[2]] = MemberOf(Here, other).path
    \/ other[2] = spec[1] /\ other[3] \in Sat[spec[2]]

Declares(owner, other) == \E spec \in Declared(owner) : Meets(other, spec)

\* A file that the package offers to others under a name that its exports field lists.
Published(owner, sub, f) ==
    LET exports == Described(Here, owner).json.exports
    IN  exports = Nothing \/ <<f[1], f[2]>> \in Offered(exports, sub)

\* A member has the name and the version of a package, and may take its place in the lock.
TakenOver(p) == \E i \in DOMAIN Here.members :
                    <<Here.members[i].name, Here.members[i].version>> = p

\* Code in a directory that lies in an earlier member's, or in no member's any more, is taken
\* for that member's or the project's; a package that the lock has lost, or that a member
\* has taken over, is taken for the project.
Mistakable(owner) ==
    \/ rewritten
    \/ owner[1] = "workspace" /\ MemberCode(MemberAround(Here, owner)) # owner
    \/ owner[1] = "package" /\ TakenOver(PackageOf(owner))

\* An import that succeeds has loaded a file of the importer itself, or a published entry of
\* a package that the importer's own manifest declares, in a version of the declared range,
\* whatever the lock, the registry and the imports that run beside it.
LoadsWhatItDeclares ==
    \A c \in Calls :
        Imported(c) /\ ~Mistakable(c.owner) =>
            \/ at[c].of = c.owner
            \/ Declares(c.owner, at[c].of) /\ Published(at[c].of, at[c].sub, at[c].file)

\* The lock that a snapshot began with named nothing that is not in the store.
Complete == \A p \in Packages : \/ Here.lock[p] \in {"absent", "workspace"}
                                \/ Here.lock[p] = "object" /\ p \in Here.store

\* No other process unpacks anything in the store of this one.
Alone == \A c \in Calls : c.via = "outside" => at[c].pc = "idle"

\* After a snapshot, a frozen or offline run lacks no dependency of an owner that the
\* snapshot reached: imports of it are not refused, and require() finds the package, while
\* nobody else unpacks packages, unless it has nothing for require().
SnapshotSuffices ==
    mode.snapshot /\ (mode.frozen \/ mode.offline) /\ ~rewritten =>
        \A c \in Calls :
            LET declared == Described(Here, c.owner).dependencies
                n == c.spec.name
            IN
            /\ c.via = "import" /\ c.owner \in followed /\ ~Mistakable(c.owner)
                 /\ at[c].pc \in {"missing", "unresolved"} /\ n \in DOMAIN declared
                 => declared[n] = AnyVersion /\ ~Complete
            /\ c.via = "require" /\ c.owner \in followed /\ at[c].pc = "undeclared"
                 /\ n \in DOMAIN declared /\ c.spec.sub = Root /\ Alone
                 => \A p \in DOMAIN Here.packages :
                      p[1] = n /\ PackageCode(p) \in followed /\ ~TakenOver(p) =>
                        ResolvePackageEntry(Here.packages[p].files, Here.packages[p].json, Root,
                                            RequireConditions) = NoFile

\* An unpacked directory that nobody is filling is empty or whole, and an import is given a
\* whole one, unless extractions of the same package have overlapped one another or an
\* import, or one has died, or a removal has failed: an extraction that fails alone, and
\* can remove what it has extracted, leaves nothing that would count as unpacked.
OnlyOverlapTears ==
    /\ \A p \in DOMAIN disk :
          p \notin torn /\ ~(\E c \in Calls : at[c].pc = "extract" /\ Target(c) = p)
            => disk[p] \in {{}, Here.packages[p].files}
    /\ \A c \in Calls : at[c].whole \/ Target(c) \in torn

\* snapshotReachable comes to an end though dependencies may be cyclic: each of its steps
\* shortens the queue or sees a specifier for the first time, and specifiers are finite in
\* number.
SnapshotAdvances == [][queue' # queue => Len(queue') < Len(queue) \/ seen' # seen]_vars
==============================================================================
