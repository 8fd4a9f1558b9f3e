----------------------------- MODULE ImportsProofs -----------------------------
(***************************************************************************)
(* Theorems about Imports, for any situations, packages and calls: what can *)
(* be found in the directory of an unpacked package, the types, that a     *)
(* snapshot ends, and what an import may load.                             *)
(***************************************************************************)
EXTENDS Imports, ImportersProofs

Stored == DOMAIN Here.packages
FilesOf(p) == Here.packages[p].files
Archive(p) == Here.packages[p].archive
Whole(p) == disk[p] = FilesOf(p)
Extracting(c, p) == at[c].pc = "extract" /\ Target(c) = p

\* The package of a call that fetches or unpacks exists; what comes before the end of a
\* call has read nothing.
PlaceOK(c) ==
    /\ DOMAIN at[c] = DOMAIN Waiting
    /\ at[c].pc \in {"fetch", "check", "wipe", "extract", "ingest"}
          => at[c].of[1] = "package" /\ Target(c) \in Stored
    /\ at[c].pc = "entry" /\ at[c].of[1] = "package" => Target(c) \in Stored
    /\ at[c].pc = "extract" => at[c].pos \in Nat /\ at[c].pos < Len(Archive(Target(c)))
    /\ at[c].whole \/ (at[c].pc \in Ended /\ Target(c) \in torn)

Shape ==
    /\ world \in Worlds
    /\ DOMAIN at = Calls /\ \A c \in Calls : PlaceOK(c)
    /\ DOMAIN disk = Stored /\ \A p \in Stored : disk[p] \subseteq FilesOf(p)
    /\ store \subseteq Stored

\* One call fills a directory at a time, and has written what it has passed in the archive;
\* a directory that nobody fills is empty or whole, and an import finds it whole.
CallFinds(c) ==
    /\ at[c].pc \in {"ingest", "entry"} /\ at[c].of[1] = "package" /\ Target(c) \notin torn
          => Whole(Target(c))
    /\ at[c].pc = "extract" /\ Target(c) \notin torn
          => /\ \A i \in 1 .. at[c].pos : Archive(Target(c))[i] \in disk[Target(c)]
             /\ \A d \in Calls : Extracting(d, Target(c)) => d = c

DirectoryOK(p) ==
    p \notin torn /\ ~(\E c \in Calls : Extracting(c, p)) => disk[p] = {} \/ Whole(p)

TearInv ==
    /\ Shape
    /\ \A c \in Calls : CallFinds(c)
    /\ \A p \in Stored : DirectoryOK(p)

\* What is assumed of a situation, part by part.
LEMMA WorldFacts ==
    ASSUME world \in Worlds
    PROVE  /\ Stored \subseteq Packages /\ Here.store \subseteq Stored
           /\ Here.lock \in [Packages -> Entries] /\ Here.modes \subseteq Options
           /\ \A p \in Packages : Here.lock[p] \in {"bare", "object"} => p \in Stored
BY WorldsAssumption DEF Here, Stored

LEMMA TearInit == Init => TearInv
<1> SUFFICES ASSUME Init PROVE TearInv
  OBVIOUS
<1>1. /\ Here.store \subseteq Stored /\ world \in Worlds
      /\ at = [c \in Calls |-> Waiting]
      /\ disk = [p \in Stored |-> IF p \in Here.unpacked THEN FilesOf(p) ELSE {}]
      /\ store = Here.store
  BY WorldsAssumption DEF Init, Here, Stored, FilesOf
<1>2. \A c \in Calls : at[c] = Waiting /\ at[c].pc = "idle" /\ at[c].whole
  BY <1>1 DEF Waiting
<1>3. Shape
  BY <1>1, <1>2 DEF Shape, PlaceOK
<1> QED BY <1>1, <1>2, <1>3 DEF TearInv, CallFinds, DirectoryOK, Whole

------------------------------------------------------------------------------
(* Steps that fill no directory *)

Same == Here' = Here /\ Calls' = Calls /\ Stored' = Stored
          /\ (\A p : FilesOf(p)' = FilesOf(p) /\ Archive(p)' = Archive(p))

LEMMA WorldStays == ASSUME world' = world PROVE Same
BY DEF Same, Here, Calls, Stored, FilesOf, Archive

\* A step of c that moves no file, and ends no extraction unless it is accounted for.
LEMMA MoveKeeps ==
    ASSUME TearInv, NEW c \in Calls, UNCHANGED <<world, disk>>, torn \subseteq torn',
           store' \subseteq Stored,
           DOMAIN at' = Calls, \A d \in Calls \ {c} : at'[d] = at[d],
           at[c].pc = "extract" => Target(c) \in torn',
           at'[c].pc # "extract", PlaceOK(c)', CallFinds(c)'
    PROVE  TearInv'
<1>1. Same
  BY WorldStays
<1>2. \A d \in Calls \ {c} : Target(d)' = Target(d) /\ PlaceOK(d)'
  BY <1>1 DEF Same, TearInv, Shape, PlaceOK, Target
<1>3. Shape'
  BY <1>1, <1>2 DEF Same, TearInv, Shape
<1>4. \A d \in Calls, p \in Stored : p \notin torn' => (Extracting(d, p)' <=> Extracting(d, p))
  BY <1>2 DEF Extracting
<1>5. ASSUME NEW d \in Calls \ {c} PROVE CallFinds(d)'
  <2>1. at'[d] = at[d] /\ Target(d)' = Target(d) /\ CallFinds(d)
    BY <1>2 DEF TearInv
  <2>2. at[d].pc = "extract" => Target(d) \in Stored
    BY DEF TearInv, Shape, PlaceOK
  <2> QED BY <1>1, <1>4, <2>1, <2>2 DEF Same, CallFinds, Whole
<1>6. ASSUME NEW p \in Stored PROVE DirectoryOK(p)'
  BY <1>1, <1>4 DEF Same, TearInv, DirectoryOK, Whole
<1> QED BY <1>1, <1>3, <1>5, <1>6 DEF TearInv, Same

LEMMA StillKeeps ==
    ASSUME TearInv, UNCHANGED <<world, at, disk, store, torn>>
    PROVE  TearInv'
<1>1. Same
  BY WorldStays
<1>2. \A c \in Calls : Target(c)' = Target(c) /\ PlaceOK(c)' /\ CallFinds(c)'
  BY <1>1 DEF Same, TearInv, Shape, PlaceOK, CallFinds, Target, Extracting, Whole
<1>3. Shape'
  BY <1>1, <1>2 DEF Same, TearInv, Shape
<1>4. \A p \in Stored : DirectoryOK(p)'
  BY <1>1, <1>2 DEF Same, TearInv, DirectoryOK, Extracting, Whole
<1> QED BY <1>1, <1>2, <1>3, <1>4 DEF TearInv, Same

\* A call that begins, and goes on to a place where it has nothing to find.
LEMMA StartKeeps ==
    ASSUME TearInv, NEW c \in Calls, at[c].pc = "idle",
           UNCHANGED <<world, disk, store, torn>>,
           DOMAIN at' = Calls, \A d \in Calls \ {c} : at'[d] = at[d],
           DOMAIN at'[c] = DOMAIN Waiting, at'[c].whole = at[c].whole,
           \/ at'[c].pc \in Ended
           \/ at'[c].pc = "entry" /\ at'[c].of[1] = "workspace"
           \/ /\ at'[c].pc \in {"fetch", "check"}
              /\ at'[c].of[1] = "package" /\ Target(c)' \in Stored
    PROVE  TearInv'
<1>1. Same
  BY WorldStays
<1>2. at[c].whole
  BY DEF TearInv, Shape, PlaceOK, Ended
<1>3. PlaceOK(c)' /\ CallFinds(c)' /\ at'[c].pc # "extract"
  BY <1>1, <1>2 DEF PlaceOK, CallFinds, Ended, Same
<1> QED BY <1>3, MoveKeeps DEF TearInv, Shape

\* What happens to at.
LEMMA EndsMoves ==
    ASSUME Shape, NEW c \in Calls, NEW how, Ends(c, how)
    PROVE  /\ DOMAIN at' = Calls /\ \A d \in Calls \ {c} : at'[d] = at[d]
           /\ DOMAIN at'[c] = DOMAIN Waiting
           /\ at'[c].pc = how /\ at'[c].of = at[c].of /\ at'[c].whole = at[c].whole
           /\ at'[c].pos = at[c].pos /\ Target(c)' = Target(c)
BY DEF Shape, PlaceOK, Ends, Waiting, Target

LEMMA OutcomeEnds == ASSUME NEW f PROVE Outcome(f) \in Ended
BY DEF Outcome, Ended

------------------------------------------------------------------------------
(* The choice of a version *)

LEMMA HighestPicks ==
    ASSUME NEW V, Highest(V) # NoVersion
    PROVE  Highest(V) \in V
<1>1. Maximal(V) # {}
  BY DEF Highest
<1>2. Highest(V) \in Maximal(V)
  BY <1>1 DEF Highest
<1> QED BY <1>2 DEF Maximal

\* What the resolver settles on has an archive.
LEMMA ChoiceExists ==
    ASSUME Shape, NEW options, NEW n, NEW r,
           LET choice == Choice(Here, options, locked, store, n, r) IN
           choice.act \in {"reuse", "fetch"} /\ choice.version # NoVersion
    PROVE  <<n, Choice(Here, options, locked, store, n, r).version>> \in Stored
<1> DEFINE choice == Choice(Here, options, locked, store, n, r)
           v == Reusable(locked, n, r)
           as == IF v = NoVersion THEN "absent" ELSE locked[<<n, v>>]
           sealed == options.frozen \/ options.offline
           stored == as = "object" /\ <<n, v>> \in store
           published == {x \in Versions : <<n, x>> \in Stored}
<1>1. CASE stored
  <2>1. choice.version = v
    BY <1>1 DEF Choice
  <2> QED BY <1>1, <2>1 DEF Shape
<1>2. CASE ~stored
  <2>1. choice.act = "fetch" /\ choice.version = SelectVersion(Here, n, r)
    BY <1>2 DEF Choice
  <2>2. published # {}
    BY <2>1 DEF SelectVersion, Stored
  <2>3. CASE r = AnyVersion
    <3>1. choice.version = Here.tag[n]
      BY <2>1, <2>2, <2>3 DEF SelectVersion, Stored
    <3>2. PICK x \in Versions : <<n, x>> \in Stored
      BY <2>2
    <3>3. <<n, Here.tag[n]>> \in Stored
      BY <3>2, WorldsAssumption DEF Shape, Here, Stored
    <3> QED BY <3>1, <3>3
  <2>4. CASE r # AnyVersion
    <3>1. choice.version = Highest(published \cap Sat[r])
      BY <2>1, <2>2, <2>4 DEF SelectVersion, Stored
    <3>2. choice.version \in published
      BY <3>1, HighestPicks
    <3> QED BY <3>2
  <2> QED BY <2>3, <2>4
<1> QED BY <1>1, <1>2

------------------------------------------------------------------------------
(* The steps *)

LEMMA ArchiveFits ==
    ASSUME world \in Worlds, NEW p \in Stored
    PROVE  /\ Archive(p) \in Seq(FilesOf(p)) /\ Len(Archive(p)) \in Nat \ {0}
           /\ \A i \in 1 .. Len(Archive(p)) : Archive(p)[i] \in FilesOf(p)
           /\ \A f \in FilesOf(p) : \E i \in 1 .. Len(Archive(p)) : f = Archive(p)[i]
<1>1. /\ Archive(p) \in Seq(FilesOf(p)) \ {<< >>}
      /\ FilesOf(p) \subseteq {Archive(p)[i] : i \in 1 .. Len(Archive(p))}
  BY WorldsAssumption DEF Stored, Archive, FilesOf, Here
<1> HIDE DEF Archive, FilesOf
<1> QED BY <1>1

\* A snapshot adds a package's files all at once, to a directory without package.json.
LEMMA VisitKeeps == TearInv /\ Visit => TearInv'
<1> SUFFICES ASSUME TearInv, Visit PROVE TearInv'
  OBVIOUS
<1> DEFINE spec == Head(queue)
           choice == Choice(Here, Online, locked, store, spec[1], spec[2])
           p == <<spec[1], choice.version>>
<1>1. Same /\ UNCHANGED <<world, at, torn>>
  BY WorldStays DEF Visit
<1>2. CASE choice.version = NoVersion
  <2>1. UNCHANGED <<disk, store>>
    BY <1>2 DEF Visit
  <2> QED BY <1>1, <2>1, StillKeeps
<1>3. CASE choice.version # NoVersion
  <2>1. /\ store' = store \cup {p}
        /\ disk' = [disk EXCEPT ![p] = IF Manifest \in @ THEN @ ELSE FilesOf(p)]
    BY <1>3 DEF Visit, FilesOf
  <2>2. choice.act \in {"reuse", "fetch"}
    BY DEF Choice, Online
  <2>3. p \in Stored
    BY <1>3, <2>2, ChoiceExists DEF TearInv
  <2> HIDE DEF p
  <2>4. /\ DOMAIN disk' = Stored
        /\ \A q \in Stored : disk'[q] = disk[q] \/ disk'[q] = FilesOf(q)
    BY <2>1 DEF TearInv, Shape
  <2>5. \A c \in Calls : Target(c)' = Target(c) /\ PlaceOK(c)'
    BY <1>1 DEF Same, TearInv, Shape, PlaceOK, Target
  <2>6. Shape'
    BY <1>1, <2>1, <2>3, <2>4, <2>5 DEF Same, TearInv, Shape
  <2>7. \A q \in Stored : DirectoryOK(q)'
    BY <1>1, <2>4, <2>5 DEF Same, TearInv, DirectoryOK, Extracting, Whole
  <2>8. ASSUME NEW c \in Calls PROVE CallFinds(c)'
    <3>1. at[c].pc \in {"ingest", "entry"} /\ at[c].of[1] = "package" => Target(c) \in Stored
      BY DEF TearInv, Shape, PlaceOK
    <3>2. at[c].pc = "extract" =>
            Target(c) \in Stored /\ at[c].pos \in Nat /\ at[c].pos < Len(Archive(Target(c)))
      BY DEF TearInv, Shape, PlaceOK
    <3>3. \A q \in Stored : \A i \in 1 .. Len(Archive(q)) : Archive(q)[i] \in FilesOf(q)
      BY ArchiveFits DEF TearInv, Shape
    <3>4. at[c].pc = "extract" /\ Target(c) \notin torn =>
            \A i \in 1 .. at[c].pos : Archive(Target(c))[i] \in disk'[Target(c)]
      BY <2>4, <3>2, <3>3 DEF TearInv, CallFinds
    <3> QED BY <1>1, <2>4, <2>5, <3>1, <3>4 DEF Same, TearInv, CallFinds, Extracting, Whole
  <2> QED BY <1>1, <2>6, <2>7, <2>8 DEF Same, TearInv
<1> QED BY <1>2, <1>3

LEMMA RequireKeeps == ASSUME TearInv, NEW c \in Calls, Require(c) PROVE TearInv'
<1>1. at[c].pc = "idle" /\ UNCHANGED <<world, disk, store, torn>>
  BY DEF Require, Starts, Rest, Shared
<1>2. DOMAIN at = Calls /\ DOMAIN at[c] = DOMAIN Waiting
  BY DEF TearInv, Shape, PlaceOK
<1>3. CASE c.spec.sub = Root /\ modules[c.spec.name].of # Nowhere
  <2> DEFINE found == modules[c.spec.name]
  <2>1. at' = [at EXCEPT ![c].pc = Outcome(found.file), ![c].of = found.of, ![c].file = found.file]
    BY <1>3 DEF Require
  <2> HIDE DEF found
  <2>2. /\ DOMAIN at' = Calls /\ \A d \in Calls \ {c} : at'[d] = at[d]
        /\ DOMAIN at'[c] = DOMAIN Waiting /\ at'[c].whole = at[c].whole
        /\ at'[c].pc = Outcome(found.file)
    BY <1>2, <2>1 DEF Waiting
  <2> QED BY <1>1, <2>2, OutcomeEnds, StartKeeps
<1>4. CASE ~(c.spec.sub = Root /\ modules[c.spec.name].of # Nowhere)
  <2>1. Ends(c, "undeclared")
    BY <1>4 DEF Require
  <2> QED BY <1>1, <2>1, EndsMoves, StartKeeps DEF TearInv, Ended
<1> QED BY <1>3, <1>4

LEMMA RequestStarts ==
    ASSUME TearInv, NEW c \in Calls, NEW r \in Requests(c)
    PROVE  at[c].pc = "idle" /\ DOMAIN at = Calls /\ DOMAIN at[c] = DOMAIN Waiting
BY DEF Requests, Starts, TearInv, Shape, PlaceOK

LEMMA ImportOwnKeeps ==
    ASSUME TearInv, NEW c \in Calls, NEW r \in Requests(c), ImportOwn(c, r)
    PROVE  TearInv'
<1>1. /\ UNCHANGED <<world, disk, store, torn>>
      /\ at' = [at EXCEPT ![c].pc = Outcome(r.file), ![c].of = r.importer, ![c].file = r.file]
  BY DEF ImportOwn, Rest, Shared
<1>2. /\ DOMAIN at' = Calls /\ \A d \in Calls \ {c} : at'[d] = at[d]
      /\ DOMAIN at'[c] = DOMAIN Waiting /\ at'[c].whole = at[c].whole
      /\ at'[c].pc = Outcome(r.file)
  BY <1>1, RequestStarts, SMTT(30) DEF Waiting
<1>3. at'[c].pc \in Ended /\ at[c].pc = "idle"
  BY <1>2, RequestStarts, OutcomeEnds
<1>4. UNCHANGED <<world, disk, store, torn>>
  BY <1>1
<1> QED BY <1>2, <1>3, <1>4, StartKeeps, SMTT(40)

\* A call that ends before anything is loaded for it.
LEMMA EndsKeeps ==
    ASSUME TearInv, NEW c \in Calls, at[c].pc = "idle", NEW how \in Ended, Ends(c, how),
           UNCHANGED <<world, disk, store, torn>>
    PROVE  TearInv'
BY EndsMoves, StartKeeps DEF TearInv

LEMMA ImportUndeclaredKeeps ==
    ASSUME TearInv, NEW c \in Calls, NEW r \in Requests(c), ImportUndeclared(c, r)
    PROVE  TearInv'
BY RequestStarts, EndsKeeps DEF ImportUndeclared, Rest, Shared, Ended

LEMMA UseMemberKeeps ==
    ASSUME TearInv, NEW c \in Calls, NEW r \in Requests(c), UseMember(c, r)
    PROVE  TearInv'
<1> DEFINE m == ResolveWorkspacePackage(Here.members, r.name,
                                        IF c.via = "prefetch" THEN Undeclared ELSE r.range)
<1>1. UNCHANGED <<world, disk, store, torn>>
  BY DEF UseMember, Rest
<1>2. CASE m = NoMember
  BY <1>1, <1>2, RequestStarts, EndsKeeps DEF UseMember, Ended
<1>3. CASE m # NoMember
  <2> DEFINE pc_1 == IF c.via = "prefetch" THEN "done" ELSE "entry"
  <2>1. at' = [at EXCEPT ![c].of = MemberCode(m), ![c].sub = r.sub, ![c].pc = pc_1]
    BY <1>3 DEF UseMember
  <2>2. MemberCode(m)[1] = "workspace"
    BY DEF MemberCode
  <2> HIDE DEF m
  <2>3. /\ DOMAIN at' = Calls /\ \A d \in Calls \ {c} : at'[d] = at[d]
        /\ DOMAIN at'[c] = DOMAIN Waiting /\ at'[c].whole = at[c].whole
        /\ at'[c].pc = pc_1 /\ at'[c].of = MemberCode(m)
    BY <2>1, RequestStarts DEF Waiting
  <2> QED BY <1>1, <2>1, <2>2, <2>3, RequestStarts, StartKeeps, SMTT(40) DEF Ended
<1> QED BY <1>2, <1>3

\* A call that turns to a package that exists.
LEMMA TurnKeeps ==
    ASSUME TearInv, NEW c \in Calls, at[c].pc = "idle", NEW p \in Stored,
           p = <<p[1], p[2]>>, NEW pc \in {"fetch", "check"}, NEW sub,
           at' = [at EXCEPT ![c].of = PackageCode(p), ![c].sub = sub, ![c].pc = pc],
           UNCHANGED <<world, disk, store, torn>>
    PROVE  TearInv'
<1>1. /\ DOMAIN at' = Calls /\ \A d \in Calls \ {c} : at'[d] = at[d]
      /\ DOMAIN at'[c] = DOMAIN Waiting /\ at'[c].whole = at[c].whole
      /\ at'[c].pc = pc /\ at'[c].of = PackageCode(p)
  BY DEF Waiting, TearInv, Shape, PlaceOK
<1>2. at'[c].of[1] = "package" /\ Target(c)' = p
  BY <1>1 DEF PackageCode, Target, PackageOf
<1> QED BY <1>1, <1>2, StartKeeps, SMTT(40)

LEMMA ResolveKeeps ==
    ASSUME TearInv, NEW c \in Calls, NEW r \in Requests(c), Resolve(c, r)
    PROVE  TearInv'
<1> DEFINE choice == Choice(Here, mode, locked, store, r.name, r.range)
           p == <<r.name, choice.version>>
<1>1. UNCHANGED <<world, disk, store, torn>>
  BY DEF Resolve, Rest, Shared
<1>2. choice.act \in {"reuse", "member", "refuse", "fetch"}
  BY DEF Choice
<1>3. CASE choice.act = "refuse"
  BY <1>1, <1>3, RequestStarts, EndsKeeps DEF Resolve, Ended
<1>4. CASE choice.act = "member"
  <2>1. PICK pc \in {"done", "entry"} :
            at' = [at EXCEPT ![c].of = CodeOf(p), ![c].sub = r.sub, ![c].pc = pc]
    BY <1>4 DEF Resolve
  <2>2. CodeOf(p)[1] = "workspace"
    <3>1. choice.version = Reusable(locked, r.name, r.range) /\ locked[p] = "workspace"
      BY <1>4 DEF Choice
    <3> QED BY <3>1 DEF CodeOf
  <2> HIDE DEF p
  <2>3. /\ DOMAIN at' = Calls /\ \A d \in Calls \ {c} : at'[d] = at[d]
        /\ DOMAIN at'[c] = DOMAIN Waiting /\ at'[c].whole = at[c].whole /\ at'[c].pc = pc
        /\ at'[c].of = CodeOf(p)
    BY <2>1, RequestStarts DEF Waiting
  <2> QED BY <1>1, <2>2, <2>3, RequestStarts, StartKeeps DEF Ended
<1>5. CASE choice.act = "fetch" /\ choice.version = NoVersion
  BY <1>1, <1>5, RequestStarts, EndsKeeps DEF Resolve, Ended
<1>6. CASE choice.act \in {"reuse", "fetch"} /\ choice.version # NoVersion
  <2>1. PICK pc \in {"fetch", "check"} :
            at' = [at EXCEPT ![c].of = PackageCode(p), ![c].sub = r.sub, ![c].pc = pc]
    BY <1>6 DEF Resolve
  <2>2. p \in Stored /\ p = <<p[1], p[2]>>
    BY <1>6, ChoiceExists DEF TearInv
  <2> HIDE DEF p
  <2> QED BY <1>1, <2>1, <2>2, RequestStarts, TurnKeeps
<1>7. choice.act = "reuse" => choice.version # NoVersion
  BY DEF Choice
<1> QED BY <1>2, <1>3, <1>4, <1>5, <1>6, <1>7

------------------------------------------------------------------------------
(* Extraction *)

LEMMA CallFacts ==
    ASSUME TearInv, NEW c \in Calls
    PROVE  /\ world \in Worlds /\ DOMAIN at = Calls /\ DOMAIN at[c] = DOMAIN Waiting
           /\ DOMAIN disk = Stored /\ store \subseteq Stored
           /\ PlaceOK(c) /\ CallFinds(c)
BY DEF TearInv, Shape, PlaceOK

LEMMA FetchKeeps == ASSUME TearInv, NEW c \in Calls, Fetch(c) PROVE TearInv'
<1>1. /\ at[c].pc = "fetch" /\ UNCHANGED <<world, disk, torn>> /\ store' = store \cup {Target(c)}
      /\ at' = [at EXCEPT ![c].pc = "check", ![c].fetched = TRUE]
  BY DEF Fetch, Rest
<1>2. /\ DOMAIN at' = Calls /\ \A d \in Calls \ {c} : at'[d] = at[d]
      /\ DOMAIN at'[c] = DOMAIN Waiting /\ at'[c].whole = at[c].whole
      /\ at'[c].pc = "check" /\ at'[c].of = at[c].of
  BY <1>1, CallFacts DEF Waiting
<1>3. at[c].of[1] = "package" /\ Target(c) \in Stored /\ Target(c)' = Target(c) /\ at[c].whole
  BY <1>1, <1>2, CallFacts DEF PlaceOK, Target, Ended
<1>4. PlaceOK(c)' /\ CallFinds(c)'
  BY <1>1, <1>2, <1>3, WorldStays DEF PlaceOK, CallFinds, Same, Ended
<1>5. store' \subseteq Stored
  BY <1>1, <1>3, CallFacts
<1> QED BY <1>1, <1>2, <1>4, <1>5, MoveKeeps

LEMMA OutsiderStartsKeeps == ASSUME TearInv, NEW c \in Calls, OutsiderStarts(c) PROVE TearInv'
<1>1. at[c].pc = "idle" /\ UNCHANGED <<world, disk, store, torn>>
  BY DEF OutsiderStarts, Starts, Rest, Shared
<1>2. PICK p \in store : at' = [at EXCEPT ![c].pc = "check", ![c].of = PackageCode(p)]
  BY DEF OutsiderStarts
<1>3. p \in Stored /\ p = <<p[1], p[2]>>
  BY CallFacts, WorldFacts DEF Packages
<1>4. /\ DOMAIN at' = Calls /\ \A d \in Calls \ {c} : at'[d] = at[d]
      /\ DOMAIN at'[c] = DOMAIN Waiting /\ at'[c].whole = at[c].whole
      /\ at'[c].pc = "check" /\ at'[c].of = PackageCode(p)
  BY <1>2, CallFacts DEF Waiting
<1>5. at'[c].of[1] = "package" /\ Target(c)' = p
  BY <1>3, <1>4 DEF PackageCode, Target, PackageOf
<1> QED BY <1>1, <1>3, <1>4, <1>5, StartKeeps

\* What Tears adds is the directory of the call.
LEMMA TearsAdd ==
    ASSUME NEW c \in Calls, NEW pcs, Tears(c, pcs)
    PROVE  /\ torn \subseteq torn' /\ torn' \subseteq torn \cup {Target(c)}
           /\ Target(c) \notin torn' =>
                \A d \in Calls \ {c} : at[d].pc \in pcs => Target(d) # Target(c)
BY DEF Tears, Others

\* An import finds a tree with package.json whole, or it met an extraction.
LEMMA CheckKeeps == ASSUME TearInv, NEW c \in Calls, Check(c) PROVE TearInv'
<1> DEFINE how == IF Unpacked(c) THEN AfterUnpack(c) ELSE "wipe"
<1>1. /\ at[c].pc = "check" /\ UNCHANGED <<world, disk, store>> /\ Ends(c, how)
      /\ Tears(c, IF Unpacked(c) THEN {"extract"} ELSE {})
  BY DEF Check, Rest, Shared
<1>2. how \in {"wipe", "ingest", "entry", "done"}
  BY DEF AfterUnpack
<1>3. /\ DOMAIN at' = Calls /\ \A d \in Calls \ {c} : at'[d] = at[d]
      /\ DOMAIN at'[c] = DOMAIN Waiting
      /\ at'[c].pc = how /\ at'[c].of = at[c].of /\ at'[c].whole = at[c].whole
      /\ Target(c)' = Target(c)
  BY <1>1, EndsMoves DEF TearInv
<1>4. at[c].of[1] = "package" /\ Target(c) \in Stored /\ at[c].whole
  BY <1>1, CallFacts DEF PlaceOK, Ended
<1>5. PlaceOK(c)'
  BY <1>1, <1>2, <1>3, <1>4, WorldStays DEF PlaceOK, Same
<1>6. torn \subseteq torn'
  BY <1>1, TearsAdd
<1>7. ASSUME how \in {"ingest", "entry"}, Target(c) \notin torn' PROVE Whole(Target(c))
  <2>1. Unpacked(c)
    BY <1>7
  <2>2. \A d \in Calls \ {c} : ~Extracting(d, Target(c))
    BY <1>1, <1>7, <2>1, TearsAdd DEF Extracting
  <2>3. ~\E d \in Calls : Extracting(d, Target(c))
    BY <1>1, <2>2 DEF Extracting
  <2>4. disk[Target(c)] = {} \/ Whole(Target(c))
    BY <1>4, <1>6, <1>7, <2>3 DEF TearInv, DirectoryOK
  <2> QED BY <2>1, <2>4 DEF Unpacked
<1>8. CallFinds(c)'
  <2> HIDE DEF how
  <2> QED BY <1>1, <1>2, <1>3, <1>4, <1>7, WorldStays DEF CallFinds, Whole, Same
<1>9. at[c].pc # "extract" /\ at'[c].pc # "extract" /\ store' \subseteq Stored
  BY <1>1, <1>2, <1>3, CallFacts
<1> QED BY <1>1, <1>3, <1>5, <1>6, <1>8, <1>9, MoveKeeps

LEMMA OutsiderDiesKeeps == ASSUME TearInv, NEW c \in Calls, OutsiderDies(c) PROVE TearInv'
<1>1. /\ UNCHANGED <<world, disk, store>> /\ Ends(c, "dead") /\ torn' = torn \cup {Target(c)}
      /\ at[c].pc \in {"wipe", "extract"}
  BY DEF OutsiderDies, Rest, Shared
<1>2. /\ DOMAIN at' = Calls /\ \A d \in Calls \ {c} : at'[d] = at[d]
      /\ DOMAIN at'[c] = DOMAIN Waiting
      /\ at'[c].pc = "dead" /\ at'[c].of = at[c].of /\ at'[c].whole = at[c].whole
      /\ Target(c)' = Target(c)
  BY <1>1, EndsMoves DEF TearInv
<1>3. at[c].whole
  BY <1>1, CallFacts DEF PlaceOK, Ended
<1>4. PlaceOK(c)' /\ CallFinds(c)'
  BY <1>2, <1>3 DEF PlaceOK, CallFinds
<1>5. store' \subseteq Stored
  BY <1>1, CallFacts
<1> QED BY <1>1, <1>2, <1>4, <1>5, MoveKeeps

LEMMA IngestKeeps == ASSUME TearInv, NEW c \in Calls, Ingest(c) PROVE TearInv'
<1> DEFINE how == IF c.via = "import" THEN "entry" ELSE "done"
<1>1. UNCHANGED <<world, disk, store, torn>> /\ Ends(c, how) /\ at[c].pc = "ingest"
  BY DEF Ingest, Rest
<1>2. /\ DOMAIN at' = Calls /\ \A d \in Calls \ {c} : at'[d] = at[d]
      /\ DOMAIN at'[c] = DOMAIN Waiting
      /\ at'[c].pc = how /\ at'[c].of = at[c].of /\ at'[c].whole = at[c].whole
      /\ Target(c)' = Target(c)
  BY <1>1, EndsMoves DEF TearInv
<1>3. /\ at[c].whole /\ Target(c) \in Stored /\ at[c].of[1] = "package"
      /\ Target(c) \notin torn => Whole(Target(c))
  BY <1>1, CallFacts DEF PlaceOK, CallFinds, Ended
<1>4. PlaceOK(c)' /\ CallFinds(c)'
  BY <1>1, <1>2, <1>3, WorldStays DEF PlaceOK, CallFinds, Whole, Same
<1>5. store' \subseteq Stored
  BY <1>1, CallFacts
<1> QED BY <1>1, <1>2, <1>4, <1>5, MoveKeeps

LEMMA EntryKeeps == ASSUME TearInv, NEW c \in Calls, Entry(c) PROVE TearInv'
<1> DEFINE owner == at[c].of
           found == ResolvePackageEntry(Tree(owner), Described(Here, owner).json, at[c].sub,
                                        NormalizeConditions(Asked))
           pc_1 == IF Manifest \notin Tree(owner) THEN "corrupt" ELSE Outcome(found)
           file_1 == IF pc_1 = "done" THEN found ELSE NoFile
           whole == Tree(owner) = Described(Here, owner).files
<1>1. /\ at[c].pc = "entry" /\ UNCHANGED <<world, disk, store, torn>>
      /\ at' = [at EXCEPT ![c].pc = pc_1, ![c].file = file_1, ![c].whole = whole]
  BY DEF Entry, Rest, Shared
<1>2. pc_1 \in Ended
  BY OutcomeEnds DEF Ended
<1>3. whole \/ Target(c) \in torn
  <2>1. CASE owner[1] # "package"
    BY <2>1 DEF Tree
  <2>2. CASE owner[1] = "package" /\ Target(c) \notin torn
    <3>1. Whole(Target(c))
      BY <1>1, <2>2, CallFacts DEF CallFinds
    <3>2. Tree(owner) = disk[Target(c)] /\ Described(Here, owner).files = FilesOf(Target(c))
      BY <2>2 DEF Tree, Target, Described, FilesOf
    <3> QED BY <3>1, <3>2 DEF Whole
  <2> QED BY <2>1, <2>2
<1>4. whole \in BOOLEAN
  OBVIOUS
<1> HIDE DEF owner, pc_1, file_1, whole
<1>5. /\ DOMAIN at' = Calls /\ \A d \in Calls \ {c} : at'[d] = at[d]
      /\ DOMAIN at'[c] = DOMAIN Waiting
      /\ at'[c].pc = pc_1 /\ at'[c].of = at[c].of /\ at'[c].whole = whole
  BY <1>1, CallFacts DEF Waiting
<1>6. PlaceOK(c)' /\ CallFinds(c)' /\ at'[c].pc # "extract"
  BY <1>1, <1>2, <1>3, <1>5 DEF PlaceOK, CallFinds, Target, Ended
<1>7. store' \subseteq Stored
  BY <1>1, CallFacts
<1> QED BY <1>1, <1>5, <1>6, <1>7, MoveKeeps

\* A step of c in the directory p, whose package it unpacks: what holds of the other calls
\* and directories.
LEMMA DirectoryKeeps ==
    ASSUME TearInv, NEW c \in Calls, NEW p \in Stored, p = Target(c), at[c].of[1] = "package",
           UNCHANGED <<world, store>>, torn \subseteq torn', torn' \subseteq torn \cup {p},
           DOMAIN at' = Calls, \A d \in Calls \ {c} : at'[d] = at[d], Target(c)' = p,
           DOMAIN disk' = Stored, \A q \in Stored \ {p} : disk'[q] = disk[q],
           disk'[p] \subseteq FilesOf(p),
           p \notin torn' => \A d \in Calls \ {c} : ~Extracting(d, p),
           p \notin torn' => \A d \in Calls \ {c} :
               at[d].pc \in {"ingest", "entry"} /\ Target(d) = p => disk[p] \subseteq disk'[p],
           PlaceOK(c)', CallFinds(c)', DirectoryOK(p)'
    PROVE  TearInv'
<1>1. Same
  BY WorldStays
<1>2. \A d \in Calls \ {c} : Target(d)' = Target(d) /\ PlaceOK(d)'
  BY <1>1 DEF Same, TearInv, Shape, PlaceOK, Target
<1>3. Shape'
  BY <1>1, <1>2 DEF Same, TearInv, Shape
<1>4. \A d \in Calls, q \in Stored : d # c \/ q # p => (Extracting(d, q)' <=> Extracting(d, q))
  <2>1. \A d \in Calls \ {c}, q \in Stored : Extracting(d, q)' <=> Extracting(d, q)
    BY <1>2 DEF Extracting
  <2>2. \A q \in Stored \ {p} : ~Extracting(c, q)' /\ ~Extracting(c, q)
    BY DEF Extracting
  <2> QED BY <2>1, <2>2
<1>5. ASSUME NEW d \in Calls \ {c} PROVE CallFinds(d)'
  <2>1. at'[d] = at[d] /\ Target(d)' = Target(d) /\ CallFinds(d) /\ PlaceOK(d)
    BY <1>2 DEF TearInv, Shape
  <2>2. CASE at[d].pc \in {"ingest", "entry"} /\ at[d].of[1] = "package"
                /\ Target(d) \notin torn'
    <3>1. Target(d) \in Stored /\ Whole(Target(d))
      BY <2>1, <2>2 DEF PlaceOK, CallFinds
    <3>2. disk'[Target(d)] = FilesOf(Target(d))
      <4>1. CASE Target(d) = p
        <5>1. p \notin torn' /\ disk[p] = FilesOf(p)
          BY <2>2, <3>1, <4>1 DEF Whole
        <5>2. disk[p] \subseteq disk'[p]
          BY <2>2, <4>1, <5>1
        <5>3. \A x : x \in disk'[p] <=> x \in FilesOf(p)
          BY <5>1, <5>2
        <5>4. disk'[p] = FilesOf(p)
          BY <5>3
        <5> QED BY <4>1, <5>4
      <4>2. CASE Target(d) # p
        BY <3>1, <4>2 DEF Whole
      <4> QED BY <4>1, <4>2
    <3>3. Whole(Target(d))'
      BY <2>1, <3>2 DEF Whole, FilesOf, Here
    <3> QED BY <2>1, <2>2, <3>3 DEF CallFinds
  <2>3. CASE at[d].pc = "extract" /\ Target(d) \notin torn'
    <3>1. Target(d) \in Stored \ {p}
      BY <2>1, <2>3 DEF PlaceOK, Extracting
    <3> QED BY <1>1, <1>4, <2>1, <2>3, <3>1 DEF CallFinds, Same
  <2> QED BY <2>1, <2>2, <2>3 DEF CallFinds
<1>6. ASSUME NEW q \in Stored \ {p} PROVE DirectoryOK(q)'
  BY <1>1, <1>4 DEF Same, TearInv, DirectoryOK, Whole
<1> QED BY <1>1, <1>3, <1>5, <1>6 DEF TearInv, Same

LEMMA WipeKeeps == ASSUME TearInv, NEW c \in Calls, Wipe(c) PROVE TearInv'
<1>p. PICK p : p = Target(c)
  OBVIOUS
<1>1. /\ at[c].pc = "wipe" /\ UNCHANGED <<world, store>> /\ disk' = [disk EXCEPT ![p] = {}]
      /\ at' = [at EXCEPT ![c].pc = "extract", ![c].pos = 0]
      /\ Tears(c, {"extract", "ingest", "entry"})
  BY <1>p DEF Wipe, Rest, Shared
<1>2. /\ DOMAIN at' = Calls /\ \A d \in Calls \ {c} : at'[d] = at[d]
      /\ DOMAIN at'[c] = DOMAIN Waiting /\ at'[c].whole = at[c].whole
      /\ at'[c].pc = "extract" /\ at'[c].pos = 0 /\ at'[c].of = at[c].of
  BY <1>1, CallFacts DEF Waiting
<1>3. at[c].of[1] = "package" /\ p \in Stored /\ Target(c)' = p /\ at[c].whole
  BY <1>1, <1>2, <1>p, CallFacts DEF PlaceOK, Target, Ended
<1>4. /\ torn \subseteq torn' /\ torn' \subseteq torn \cup {p}
      /\ p \notin torn' => \A d \in Calls \ {c} :
                              at[d].pc \in {"extract", "ingest", "entry"} => Target(d) # p
  BY <1>1, <1>p, TearsAdd
<1>5. DOMAIN disk' = Stored /\ disk'[p] = {} /\ \A q \in Stored \ {p} : disk'[q] = disk[q]
  BY <1>1, <1>3, CallFacts
<1>6. PlaceOK(c)'
  BY <1>2, <1>3, WorldStays, ArchiveFits, CallFacts, <1>1 DEF PlaceOK, Same
<1>7. p \notin torn' => \A d \in Calls : Extracting(d, p)' => d = c
  BY <1>2, <1>4 DEF Extracting, Target, PackageOf
<1>8. CallFinds(c)'
  BY <1>1, <1>2, <1>3, <1>7, WorldStays DEF CallFinds, Same
<1>9. DirectoryOK(p)'
  BY <1>5 DEF DirectoryOK
<1> QED BY <1>1, <1>2, <1>3, <1>4, <1>5, <1>6, <1>8, <1>9, <1>p, DirectoryKeeps DEF Extracting

LEMMA ExtractFailsKeeps == ASSUME TearInv, NEW c \in Calls, ExtractFails(c) PROVE TearInv'
<1>p. PICK p : p = Target(c)
  OBVIOUS
<1>1. /\ at[c].pc = "extract" /\ UNCHANGED <<world, store>> /\ disk' = [disk EXCEPT ![p] = {}]
      /\ Ends(c, "broken") /\ Tears(c, {"extract", "ingest", "entry"})
  BY <1>p DEF ExtractFails, Removed, Rest, Shared
<1>2. /\ DOMAIN at' = Calls /\ \A d \in Calls \ {c} : at'[d] = at[d]
      /\ DOMAIN at'[c] = DOMAIN Waiting /\ at'[c].whole = at[c].whole
      /\ at'[c].pc = "broken" /\ Target(c)' = p
  BY <1>1, <1>p, EndsMoves DEF TearInv
<1>3. at[c].of[1] = "package" /\ p \in Stored /\ at[c].whole
  BY <1>1, <1>p, CallFacts DEF PlaceOK, Ended
<1>4. /\ torn \subseteq torn' /\ torn' \subseteq torn \cup {p}
      /\ p \notin torn' => \A d \in Calls \ {c} :
                              at[d].pc \in {"extract", "ingest", "entry"} => Target(d) # p
  BY <1>1, <1>p, TearsAdd
<1>5. PlaceOK(c)' /\ CallFinds(c)'
  BY <1>2, <1>3 DEF PlaceOK, CallFinds
<1>6. DOMAIN disk' = Stored /\ disk'[p] = {} /\ \A q \in Stored \ {p} : disk'[q] = disk[q]
  BY <1>1, <1>3, CallFacts
<1>7. DirectoryOK(p)'
  BY <1>6 DEF DirectoryOK
<1> QED BY <1>1, <1>2, <1>3, <1>4, <1>5, <1>6, <1>7, <1>p, DirectoryKeeps DEF Extracting

LEMMA RemovalFailsKeeps == ASSUME TearInv, NEW c \in Calls, RemovalFails(c) PROVE TearInv'
<1>p. PICK p : p = Target(c)
  OBVIOUS
<1>1. /\ at[c].pc \in {"wipe", "extract"} /\ UNCHANGED <<world, store>>
      /\ Ends(c, "broken") /\ torn' = torn \cup {p}
      /\ \E left \in SUBSET disk[p] : disk' = [disk EXCEPT ![p] = left]
  BY <1>p DEF RemovalFails, Rest, Shared
<1>2. /\ DOMAIN at' = Calls /\ \A d \in Calls \ {c} : at'[d] = at[d]
      /\ DOMAIN at'[c] = DOMAIN Waiting /\ at'[c].whole = at[c].whole
      /\ at'[c].pc = "broken" /\ Target(c)' = p
  BY <1>1, <1>p, EndsMoves DEF TearInv
<1>3. at[c].of[1] = "package" /\ p \in Stored /\ at[c].whole
  BY <1>1, <1>p, CallFacts DEF PlaceOK, Ended
<1>4. PlaceOK(c)' /\ CallFinds(c)'
  BY <1>2, <1>3 DEF PlaceOK, CallFinds
<1>5. DOMAIN disk' = Stored /\ disk'[p] \subseteq disk[p]
      /\ \A q \in Stored \ {p} : disk'[q] = disk[q]
  BY <1>1, <1>3, CallFacts
<1>6. disk'[p] \subseteq FilesOf(p)
  BY <1>3, <1>5 DEF TearInv, Shape
<1>7. DirectoryOK(p)'
  BY <1>1 DEF DirectoryOK
<1> QED BY <1>1, <1>2, <1>3, <1>4, <1>5, <1>6, <1>7, <1>p, DirectoryKeeps DEF Extracting

\* With the last file of the archive the tree is whole.
LEMMA ExtractKeeps == ASSUME TearInv, NEW c \in Calls, Extract(c) PROVE TearInv'
<1>p. PICK p : p = Target(c)
  OBVIOUS
<1> DEFINE k == at[c].pos
           f == Archive(p)[k + 1]
           last == k + 1 = Len(Archive(p))
           pc_1 == IF last THEN AfterUnpack(c) ELSE "extract"
<1>1. /\ at[c].pc = "extract" /\ UNCHANGED <<world, store, torn>>
      /\ disk' = [disk EXCEPT ![p] = @ \cup {f}]
      /\ at' = [at EXCEPT ![c].pos = @ + 1,
                          ![c].pc = IF last THEN AfterUnpack(c) ELSE @]
  BY <1>p DEF Extract, Rest, Shared, Archive
<1>2. AfterUnpack(c) \in {"ingest", "entry", "done"}
  BY DEF AfterUnpack
<1>3. /\ at[c].of[1] = "package" /\ p \in Stored /\ at[c].whole
      /\ k \in Nat /\ k < Len(Archive(p))
  BY <1>1, <1>p, CallFacts DEF PlaceOK, Ended
<1>4. /\ Archive(p) \in Seq(FilesOf(p)) /\ Len(Archive(p)) \in Nat \ {0}
      /\ \A i \in 1 .. Len(Archive(p)) : Archive(p)[i] \in FilesOf(p)
      /\ \A x \in FilesOf(p) : \E i \in 1 .. Len(Archive(p)) : x = Archive(p)[i]
  BY <1>3, CallFacts, ArchiveFits
<1>5. /\ DOMAIN at' = Calls /\ \A d \in Calls \ {c} : at'[d] = at[d]
      /\ DOMAIN at'[c] = DOMAIN Waiting /\ at'[c].whole = at[c].whole
      /\ at'[c].pos = k + 1 /\ at'[c].pc = pc_1 /\ at'[c].of = at[c].of
  <2> HIDE DEF last
  <2> QED BY <1>1, CallFacts DEF Waiting
<1>6. Target(c)' = p
  BY <1>5, <1>p DEF Target
<1>7. /\ DOMAIN disk' = Stored /\ disk'[p] = disk[p] \cup {f}
      /\ \A q \in Stored \ {p} : disk'[q] = disk[q]
  BY <1>1, <1>3, CallFacts
<1>8. disk'[p] \subseteq FilesOf(p)
  BY <1>3, <1>4, <1>7, SMTT(40) DEF TearInv, Shape
<1>9. p \notin torn =>
         /\ \A d \in Calls \ {c} : ~Extracting(d, p)
         /\ \A i \in 1 .. k + 1 : Archive(p)[i] \in disk'[p]
  <2>1. p \notin torn =>
          /\ \A i \in 1 .. k : Archive(p)[i] \in disk[p]
          /\ \A d \in Calls : Extracting(d, p) => d = c
    BY <1>1, <1>p, CallFacts DEF CallFinds
  <2> QED BY <1>3, <1>7, <2>1
<1>10. p \notin torn /\ last => disk'[p] = FilesOf(p)
  <2> SUFFICES ASSUME p \notin torn, last PROVE FilesOf(p) \subseteq disk'[p]
    BY <1>8
  <2> QED BY <1>4, <1>9
<1>11. PlaceOK(c)'
  BY <1>1, <1>2, <1>3, <1>4, <1>5, <1>6, WorldStays, SMTT(40) DEF PlaceOK, Same
<1>12. p \notin torn => \A d \in Calls : Extracting(d, p)' => d = c
  BY <1>5, <1>9 DEF Extracting, Target, PackageOf
<1>13. CallFinds(c)'
  <2>1. CASE last
    BY <1>1, <1>2, <1>5, <1>6, <1>10, <2>1, WorldStays DEF CallFinds, Whole, Same
  <2>2. CASE ~last
    <3>1. at'[c].pc = "extract"
      BY <1>5, <2>2
    <3> QED BY <1>1, <1>5, <1>6, <1>9, <1>12, <3>1, WorldStays DEF CallFinds, Same
  <2> QED BY <2>1, <2>2
<1>14. DirectoryOK(p)'
  <2>1. CASE last
    BY <1>1, <1>10, <2>1, WorldStays DEF DirectoryOK, Whole, Same
  <2>2. CASE ~last
    <3>1. Extracting(c, p)'
      BY <1>5, <1>6, <2>2 DEF Extracting
    <3>2. c \in Calls'
      BY <1>1, WorldStays DEF Same
    <3> QED BY <3>1, <3>2 DEF DirectoryOK
  <2> QED BY <2>1, <2>2
<1>15. torn' = torn /\ disk[p] \subseteq disk'[p]
  BY <1>1, <1>7
<1> QED BY <1>1, <1>3, <1>5, <1>6, <1>7, <1>8, <1>9, <1>11, <1>13, <1>14, <1>p, <1>15,
           DirectoryKeeps

------------------------------------------------------------------------------
(* The theorem *)

LEMMA TearStep == TearInv /\ [Next]_vars => TearInv'
<1> SUFFICES ASSUME TearInv, [Next]_vars PROVE TearInv'
  OBVIOUS
<1> USE DEF Rest, Shared, History
<1>1. CASE Skip
  BY <1>1, StillKeeps DEF Skip
<1>2. CASE VisitMember
  BY <1>2, StillKeeps DEF VisitMember
<1>3. CASE Visit
  BY <1>3, VisitKeeps
<1>4. CASE SnapshotEnds
  BY <1>4, StillKeeps DEF SnapshotEnds
<1>5. CASE Run
  BY <1>5, StillKeeps DEF Run, StartRun, PrefetchEnds, BuildMap, ChildOpens, ProgramEnds
<1>6. CASE Rewrite
  BY <1>6, StillKeeps DEF Rewrite
<1>7. CASE Over \/ UNCHANGED vars
  BY <1>7, StillKeeps DEF Over, vars
<1>8. ASSUME NEW c \in Calls, Call(c) PROVE TearInv'
  BY <1>8, RequireKeeps, FetchKeeps, CheckKeeps, WipeKeeps, ExtractKeeps, ExtractFailsKeeps,
     RemovalFailsKeeps, IngestKeeps, EntryKeeps, ImportOwnKeeps, ImportUndeclaredKeeps, UseMemberKeeps,
     ResolveKeeps DEF Call
<1>9. ASSUME NEW c \in Calls, OutsiderStarts(c) \/ OutsiderDies(c) PROVE TearInv'
  BY <1>9, OutsiderStartsKeeps, OutsiderDiesKeeps
<1> QED BY <1>1, <1>2, <1>3, <1>4, <1>5, <1>6, <1>7, <1>8, <1>9 DEF Next, Snapshot

\* extractNpmTarball and ensureUnpacked, in any number of processes: unless an extraction
\* overlaps another one or an import, its process dies, or a removal fails, the directory of
\* a package that nobody fills is empty or whole, and whoever imports the package finds it
\* whole.
THEOREM TornByOverlap == Spec => []OnlyOverlapTears
<1>1. TearInv /\ [Next]_vars => TearInv'
  BY TearStep
<1>2. TearInv => OnlyOverlapTears
  <2> SUFFICES ASSUME TearInv PROVE OnlyOverlapTears
    OBVIOUS
  <2>1. \A c \in Calls : at[c].whole \/ Target(c) \in torn
    BY DEF TearInv, Shape, PlaceOK
  <2>2. ASSUME NEW p \in DOMAIN disk, p \notin torn,
               ~(\E c \in Calls : at[c].pc = "extract" /\ Target(c) = p)
        PROVE  disk[p] \in {{}, Here.packages[p].files}
    BY <2>2 DEF TearInv, Shape, DirectoryOK, Whole, FilesOf, Extracting
  <2> QED BY <2>1, <2>2 DEF OnlyOverlapTears
<1> QED BY <1>1, <1>2, TearInit, PTL DEF Spec

------------------------------------------------------------------------------
(* Types *)

KnownHere == KnownMembers(Here)

\* The owner of code that exists, or who requests in its place.
Real(o) ==
    \/ o \in {Project, Prefetching, Outsider}
    \/ o[1] = "package" /\ PackageOf(o) \in Stored /\ o = PackageCode(PackageOf(o))
    \/ \E i \in DOMAIN KnownHere : o = MemberCode(KnownHere[i])

LEMMA MemberFacts ==
    ASSUME world \in Worlds
    PROVE  /\ IsSequence(Here.members) /\ IsSequence(Here.former)
           /\ \A i \in DOMAIN KnownHere :
                 /\ <<KnownHere[i].name, KnownHere[i].version>> \in Packages
                 /\ IsManifest(KnownHere[i].manifest)
           /\ Distinct(KnownHere)
BY WorldsAssumption DEF Here, KnownHere, KnownMembers, Distinct

LEMMA MembersKnown ==
    ASSUME world \in Worlds
    PROVE  /\ IsSequence(KnownHere)
           /\ \A i \in DOMAIN Here.members : \E k \in DOMAIN KnownHere : KnownHere[k] = Here.members[i]
           /\ \A i \in DOMAIN Here.members : /\ Here.members[i] # NoMember
                                             /\ Real(MemberCode(Here.members[i]))
           /\ \A i \in DOMAIN KnownHere : KnownHere[i] # NoMember
<1> DEFINE s == Here.members
           t == Here.former
           S == {s[i] : i \in DOMAIN s} \cup {t[i] : i \in DOMAIN t}
<1>1. s \in Seq(S) /\ t \in Seq(S)
  BY MemberFacts DEF IsSequence
<1> HIDE DEF s, t, S
<1>2. Joins(s \o t, s, t)
  BY <1>1, Joined
<1>3. IsSequence(s \o t)
  <2>1. s \o t \in Seq(S)
    BY <1>1
  <2> QED BY <2>1, IsOne
<1>4. KnownHere = s \o t
  BY DEF KnownHere, KnownMembers, s, t
<1>5. \A i \in DOMAIN KnownHere : KnownHere[i] # NoMember
  <2>1. \A i \in DOMAIN KnownHere : KnownHere[i].version \in Versions
    BY MemberFacts DEF Packages
  <2>2. NoMember.version \notin Versions
    BY VersionsAssumption DEF NoMember, NoVersion
  <2> QED BY <2>1, <2>2
<1>6. \A i \in DOMAIN s : \E k \in DOMAIN KnownHere : KnownHere[k] = s[i]
  BY <1>2, <1>4 DEF Joins
<1>7. \A i \in DOMAIN s : Real(MemberCode(s[i]))
  BY <1>6 DEF Real
<1> QED BY <1>3, <1>4, <1>5, <1>6, <1>7 DEF s

LEMMA ManifestFacts ==
    ASSUME world \in Worlds
    PROVE  /\ IsManifest(Here.project)
           /\ \A p \in Stored : /\ IsManifest(Here.packages[p])
                                /\ Manifest \in FilesOf(p)
                                /\ <<p[1], Here.tag[p[1]]>> \in Stored
BY WorldsAssumption DEF Here, Stored, FilesOf

LEMMA CallTypes ==
    ASSUME world \in Worlds, NEW c \in Calls
    PROVE  /\ c.via \in {"import", "require", "prefetch", "outside"}
           /\ c.via = "prefetch" <=> c.owner = Prefetching
           /\ c.via = "outside" <=> c.owner = Outsider
           /\ c.spec.name \in Names \cup {"#"} /\ c.spec.sub \in STRING
           /\ c.spec.name = "#" => c.spec.sub # Root
BY WorldsAssumption DEF Here, Calls

LEMMA PackageCodeReal == ASSUME world \in Worlds, NEW p \in Stored PROVE Real(PackageCode(p))
<1>1. p = <<p[1], p[2]>>
  BY WorldFacts DEF Packages
<1> QED BY <1>1 DEF Real, PackageCode, PackageOf

LEMMA KindsOfOwners ==
    /\ Project[1] = "project" /\ Prefetching[1] = "prefetch" /\ Outsider[1] = "outsider"
    /\ Nowhere[1] = "nowhere" /\ \A m : MemberCode(m)[1] = "workspace"
BY DEF Project, Prefetching, Outsider, Nowhere, MemberCode

LEMMA RealOwner == ASSUME world \in Worlds, NEW o, Real(o) \/ o = Nowhere PROVE o \in Owners
<1>1. {Project, Prefetching, Outsider, Nowhere} \subseteq Owners
  <2>1. "" \in STRING
    BY LiteralsAssumption DEF NoPath
  <2>2. \A kind \in Kinds : <<kind, "", NoVersion>> \in Owners
    BY <2>1 DEF Owners
  <2>3. {"project", "prefetch", "outsider", "nowhere"} \subseteq Kinds
    BY DEF Kinds
  <2> QED BY <2>2, <2>3 DEF Project, Prefetching, Outsider, Nowhere
<1>2. \A p \in Packages : /\ <<"package", p[1], p[2]>> \in Owners
                          /\ <<"workspace", p[1], p[2]>> \in Owners
  BY NamesAssumption DEF Packages, Owners, Kinds
<1>3. CASE o[1] = "package" /\ PackageOf(o) \in Stored /\ o = PackageCode(PackageOf(o))
  BY <1>2, <1>3, WorldFacts DEF PackageCode
<1>4. ASSUME NEW i \in DOMAIN KnownHere, o = MemberCode(KnownHere[i]) PROVE o \in Owners
  <2>1. PICK p : p = <<KnownHere[i].name, KnownHere[i].version>>
    OBVIOUS
  <2>2. p \in Packages /\ o = <<"workspace", p[1], p[2]>>
    BY <1>4, <2>1, MemberFacts DEF MemberCode
  <2> QED BY <1>2, <2>2
<1> QED BY <1>1, <1>3, <1>4 DEF Real

\* What exists has a manifest.
LEMMA DescribedIs ==
    ASSUME world \in Worlds, NEW o, Real(o) \/ o = Nowhere
    PROVE  IsManifest(Described(Here, o))
<1>1. CASE o \in {Project, Prefetching, Outsider, Nowhere}
  BY <1>1, KindsOfOwners, ManifestFacts DEF Described
<1>2. CASE o[1] = "package" /\ PackageOf(o) \in Stored
  BY <1>2, ManifestFacts DEF Described
<1>3. ASSUME NEW i \in DOMAIN KnownHere, o = MemberCode(KnownHere[i])
      PROVE  IsManifest(Described(Here, o))
  <2>1. MemberOf(Here, o) = KnownHere[i]
    BY <1>3, MembersKnown, MemberFacts, MemberOfIs DEF KnownHere
  <2>2. o[1] = "workspace"
    BY <1>3, KindsOfOwners
  <2> QED BY <2>1, <2>2, MemberFacts DEF Described
<1> QED BY <1>1, <1>2, <1>3 DEF Real

\* A lock names only what exists.
Honest(lock) ==
    /\ lock \in [Packages -> Entries]
    /\ \A p \in Packages : /\ lock[p] \in {"bare", "object"} => p \in Stored
                           /\ lock[p] = "workspace" => Real(<<"workspace", p[1], p[2]>>)

CallType == [pc : PCs, of : Owners, sub : STRING, pos : Nat, fetched : BOOLEAN,
             file : FileNames, whole : BOOLEAN]

Place(c) ==
    /\ at[c].of = Nowhere \/ Real(at[c].of)
    /\ at[c].pc = "entry" => at[c].of[1] \in {"package", "workspace"}

TypeInv ==
    /\ TearInv
    /\ mode \in Options /\ phase \in Phases /\ rewritten \in BOOLEAN /\ torn \subseteq Stored
    /\ Honest(file) /\ Honest(locked)
    /\ queue \in Seq(Names \X Ranges) /\ seen \subseteq Names \X Ranges
    /\ modules \in [Names -> [of : Owners, file : FileNames]]
    /\ \A n \in Names : modules[n].of = Nowhere \/ Real(modules[n].of)
    /\ \A o \in loaded \cup followed : Real(o)
    /\ at \in [Calls -> CallType] /\ \A c \in Calls : Place(c)

LEMMA TypesHold == TypeInv => TypeOK
<1> SUFFICES ASSUME TypeInv PROVE TypeOK
  OBVIOUS
<1>1. world \in Worlds /\ store \subseteq DOMAIN Here.packages /\ DOMAIN disk = DOMAIN Here.packages
      /\ \A p \in DOMAIN disk : disk[p] \subseteq Here.packages[p].files
  BY DEF TypeInv, TearInv, Shape, Stored, FilesOf
<1>2. loaded \subseteq Owners /\ followed \subseteq Owners
  BY <1>1, RealOwner DEF TypeInv
<1>3. file \in [Packages -> Entries] /\ locked \in [Packages -> Entries]
  BY DEF TypeInv, Honest
<1>4. at \in [Calls -> [pc : PCs, of : Owners, sub : STRING, pos : Nat, fetched : BOOLEAN,
                        file : FileNames, whole : BOOLEAN]]
  BY DEF TypeInv, CallType
<1>5. torn \subseteq DOMAIN Here.packages
  BY DEF TypeInv, Stored
<1> QED BY <1>1, <1>2, <1>3, <1>4, <1>5 DEF TypeInv, TypeOK

LEMMA EntriesTyped ==
    ASSUME NEW declared \in Declarations
    PROVE  /\ EntriesOf(declared) \in Seq(Names \X Ranges)
           /\ \A n \in DOMAIN declared : \E i \in DOMAIN EntriesOf(declared) :
                 EntriesOf(declared)[i] = <<n, declared[n]>>
<1> DEFINE names == Listing[DOMAIN declared]
<1>1. DOMAIN declared \in SUBSET Names /\ \A n \in DOMAIN declared : declared[n] \in Ranges
  BY DEF Declarations
<1>2. /\ names \in Seq(DOMAIN declared)
      /\ \A n \in DOMAIN declared : \E i \in DOMAIN names : names[i] = n
  BY <1>1, ListingAssumption
<1> HIDE DEF names
<1>3. /\ Len(names) \in Nat /\ DOMAIN names = 1 .. Len(names)
      /\ \A i \in DOMAIN names : names[i] \in Names /\ declared[names[i]] \in Ranges
  BY <1>1, <1>2
<1>4. EntriesOf(declared) = [i \in 1 .. Len(names) |-> <<names[i], declared[names[i]]>>]
  BY <1>3 DEF EntriesOf, names
<1> QED BY <1>2, <1>3, <1>4

LEMMA TypeInit == Init => TypeInv
<1> SUFFICES ASSUME Init PROVE TypeInv
  OBVIOUS
<1>1. TearInv /\ world \in Worlds
  BY TearInit DEF Init
<1>2. mode \in Options /\ phase \in Phases /\ rewritten \in BOOLEAN /\ torn \subseteq Stored
  BY <1>1, WorldFacts DEF Init, Phases
<1>3. Honest(Here.lock)
  <2>1. ASSUME NEW p \in Packages, Here.lock[p] = "workspace"
        PROVE  Real(<<"workspace", p[1], p[2]>>)
    BY <1>1, <2>1, WorldsAssumption DEF Here, Real, KnownHere, KnownMembers
  <2> QED BY <1>1, <2>1, WorldFacts DEF Honest
<1>4. queue \in Seq(Names \X Ranges) /\ seen \subseteq Names \X Ranges
  BY <1>1, EntriesTyped, ManifestFacts DEF Init, IsManifest
<1>5. NoPath \in STRING /\ Root \in STRING /\ NoFile \in FileNames
  BY LiteralsAssumption DEF NoFile, FileNames
<1>6. Nowhere \in Owners
  BY <1>1, RealOwner
<1>7. /\ modules \in [Names -> [of : Owners, file : FileNames]]
      /\ \A n \in Names : modules[n].of = Nowhere
  BY <1>5, <1>6 DEF Init
<1>8. \A o \in loaded \cup followed : Real(o)
  BY DEF Init, Real
<1>9. Waiting \in CallType /\ Waiting.of = Nowhere /\ Waiting.pc # "entry"
  BY <1>5, <1>6 DEF Waiting, CallType, PCs
<1>10. at \in [Calls -> CallType] /\ \A c \in Calls : Place(c)
  BY <1>9 DEF Init, Place
<1> QED BY <1>1, <1>2, <1>3, <1>4, <1>7, <1>8, <1>10 DEF TypeInv, Init

LEMMA RealStays ==
    ASSUME world' = world
    PROVE  /\ \A o : Real(o)' <=> Real(o)
           /\ \A lock : Honest(lock) <=> /\ lock \in [Packages -> Entries]
                                         /\ \A p \in Packages :
                                              /\ lock[p] \in {"bare", "object"} => p \in Stored'
                                              /\ lock[p] = "workspace"
                                                   => Real(<<"workspace", p[1], p[2]>>)'
<1>1. \A o : Real(o)' <=> Real(o)
  BY DEF Real, KnownHere, Here, Stored
<1>2. Stored' = Stored
  BY WorldStays DEF Same
<1> QED BY <1>1, <1>2 DEF Honest

LEMMA CodeReal ==
    ASSUME TypeInv, NEW p \in Packages
    PROVE  CodeOf(p) = Nowhere \/ Real(CodeOf(p))
<1>1. CASE locked[p] = "object"
  <2>1. p \in Stored /\ world \in Worlds
    BY <1>1 DEF TypeInv, Honest, TearInv, Shape
  <2> QED BY <1>1, <2>1, PackageCodeReal DEF CodeOf
<1>2. CASE locked[p] = "workspace"
  BY <1>2 DEF TypeInv, Honest, CodeOf
<1>3. CASE locked[p] \notin {"object", "workspace"}
  BY <1>3 DEF CodeOf
<1> QED BY <1>1, <1>2, <1>3

\* The file that some owner offers, if any, has a name, and is one that it publishes.
LEMMA EntryOf ==
    ASSUME world \in Worlds, NEW o, Real(o) \/ o = Nowhere, NEW sub \in STRING, NEW tree,
           NEW cs \in Seq(Known)
    PROVE  LET f == ResolvePackageEntry(tree, Described(Here, o).json, sub, cs)
           IN  f \in FileNames /\ (f = NoFile \/ Published(o, sub, f))
<1> DEFINE json == Described(Here, o).json
           f == ResolvePackageEntry(tree, json, sub, cs)
<1>1. IsJson(json)
  BY DescribedIs DEF IsManifest, IsJson
<1> HIDE DEF json
<1>2. f \in FileNames /\ (f = NoFile \/ json.exports = Nothing \/ <<f[1], f[2]>> \in Offered(json.exports, sub))
  BY <1>1, EntryPublished DEF FileNames
<1> HIDE DEF f
<1> QED BY <1>2 DEF Published, f, json

LEMMA RequireEntryTyped ==
    ASSUME world \in Worlds, NEW o, Real(o) \/ o = Nowhere
    PROVE  RequireEntry(o) \in FileNames
<1>1. Root \in STRING /\ NoFile \in FileNames
  BY LiteralsAssumption DEF NoFile, FileNames
<1>2. RequireConditions \in Seq(Known)
  BY DEF RequireConditions, Known
<1> QED BY <1>1, <1>2, EntryOf DEF RequireEntry

LEMMA LastOfferingReal ==
    ASSUME TypeInv, NEW n \in Names
    PROVE  LastOffering(n) = Nowhere \/ \E v \in Versions : LastOffering(n) = CodeOf(<<n, v>>)
<1> DEFINE offering == {i \in DOMAIN TextOrder : RequireEntry(CodeOf(<<n, TextOrder[i]>>)) # NoFile}
           last == CHOOSE i \in offering : \A j \in offering : j <= i
<1>1. CASE offering = {}
  BY <1>1 DEF LastOffering
<1>2. CASE offering # {}
  <2>1. Len(TextOrder) \in Nat /\ DOMAIN TextOrder = 1 .. Len(TextOrder)
    BY VersionsAssumption
  <2>2. \A i \in DOMAIN TextOrder : TextOrder[i] \in Versions
    BY VersionsAssumption
  <2>3. offering \in SUBSET (1 .. Len(TextOrder))
    BY <2>1
  <2>4. LastOffering(n) = CodeOf(<<n, TextOrder[last]>>)
    BY <1>2 DEF LastOffering
  <2> HIDE DEF offering
  <2>5. \E i \in offering : \A j \in offering : j <= i
    BY <1>2, <2>1, <2>3, GreatestIndex
  <2>6. last \in offering
    BY <2>5
  <2> HIDE DEF last
  <2> QED BY <2>1, <2>2, <2>3, <2>4, <2>6
<1> QED BY <1>1, <1>2

LEMMA IdentifyReal ==
    ASSUME world \in Worlds, NEW o, Real(o)
    PROVE  Real(IdentifyImporter(Here, locked, o))
<1>1. CASE MemberAround(Here, o) # NoMember
  <2>1. \E i \in DOMAIN Here.members : MemberAround(Here, o) = Here.members[i]
    BY <1>1, MemberFacts, MemberAroundIs
  <2>2. Real(MemberCode(MemberAround(Here, o)))
    BY <2>1, MembersKnown
  <2> QED BY <1>1, <2>2 DEF IdentifyImporter
<1>2. CASE MemberAround(Here, o) = NoMember
  BY <1>2 DEF IdentifyImporter, Real
<1> QED BY <1>1, <1>2

LEMMA MappedTyped ==
    ASSUME world \in Worlds, NEW c \in Calls, NEW o, Real(o)
    PROVE  LET x == Mapped(c, o) IN
           /\ x.file \in FileNames /\ x.specifier.sub \in STRING
           /\ x.kind \in {"package", "file"}
           /\ x.kind = "package" => x.specifier.name \in Names
<1>1. NoFile \in FileNames
  BY LiteralsAssumption DEF NoFile, FileNames
<1>2. c.spec.name \in Names \cup {"#"} /\ c.spec.sub \in STRING
  BY CallTypes
<1>3. CASE c.spec.name # "#"
  BY <1>1, <1>2, <1>3 DEF Mapped
<1>4. CASE c.spec.name = "#"
  <2> DEFINE imports == IF o[1] = "package" /\ Manifest \notin Tree(o) THEN Nothing
                        ELSE Described(Here, o).imports
             y == ResolvePackageImports(Tree(o), imports, c.spec.sub, NormalizeConditions(Asked))
  <2>1. imports \in Fields
    BY DescribedIs, MapsAssumption DEF IsManifest
  <2>2. Mapped(c, o) = [y EXCEPT !.specifier = IF y.kind = "package" THEN SpecOf[@] ELSE c.spec]
    BY <1>4 DEF Mapped
  <2> HIDE DEF imports
  <2>3. \/ /\ y.specifier \in Bare
           /\ y = [kind |-> "package", specifier |-> y.specifier, file |-> NoFile]
        \/ /\ y.file \in FileNames
           /\ y = [kind |-> "file", specifier |-> NoPath, file |-> y.file]
    BY <1>2, <2>1, ConditionsKnown, ImportTyped DEF FileNames
  <2> HIDE DEF y
  <2>4. \A b \in Bare : SpecOf[b].name \in Names /\ SpecOf[b].sub \in STRING
    BY NamesAssumption
  <2> QED BY <1>1, <1>2, <2>2, <2>3, <2>4
<1> QED BY <1>3, <1>4

LEMMA RequestTyped ==
    ASSUME TypeInv, NEW c \in Calls, NEW r \in Requests(c)
    PROVE  /\ at[c].pc = "idle" /\ c.owner \in loaded /\ Real(c.owner)
           /\ r.importer = IdentifyImporter(Here, locked, c.owner) /\ Real(r.importer)
           /\ r = Request(c, r.importer, Mapped(c, r.importer))
           /\ r.file \in FileNames /\ r.sub \in STRING /\ r.kind \in {"package", "file"}
           /\ r.kind = "package" => r.name \in Names
<1>1. /\ at[c].pc = "idle" /\ c.owner \in loaded
      /\ LET owner == IdentifyImporter(Here, locked, c.owner)
         IN  r = Request(c, owner, Mapped(c, owner))
  BY DEF Requests, Starts
<1>2. r.importer = IdentifyImporter(Here, locked, c.owner)
  BY <1>1 DEF Request
<1>3. Real(c.owner) /\ world \in Worlds
  BY <1>1 DEF TypeInv, TearInv, Shape
<1>4. Real(r.importer)
  BY <1>2, <1>3, IdentifyReal
<1>5. LET x == Mapped(c, r.importer) IN
      /\ x.file \in FileNames /\ x.specifier.sub \in STRING
      /\ x.kind \in {"package", "file"}
      /\ x.kind = "package" => x.specifier.name \in Names
  BY <1>3, <1>4, MappedTyped
<1> QED BY <1>1, <1>2, <1>3, <1>4, <1>5 DEF Request

------------------------------------------------------------------------------
(* Types, step by step *)

\* A step of a call that gives c another place.
LEMMA CallTypesKeep ==
    ASSUME TypeInv, TearInv', UNCHANGED <<Rest, file>>, NEW c \in Calls,
           at' \in [Calls -> CallType], \A d \in Calls \ {c} : at'[d] = at[d], Place(c)',
           Honest(locked)', \A o \in loaded' \ loaded : Real(o),
           torn' \subseteq torn \cup ({Target(c)} \cap Stored)
    PROVE  TypeInv'
<1>1. Same /\ \A o : Real(o)' <=> Real(o)
  BY WorldStays, RealStays DEF Rest
<1>2. \A d \in Calls \ {c} : Place(d)'
  BY <1>1 DEF TypeInv, Place
<1>3. Honest(file)'
  BY <1>1 DEF TypeInv, Honest, Same
<1>4. at' \in [Calls' -> CallType'] /\ \A d \in Calls' : Place(d)'
  BY <1>1, <1>2 DEF Same, CallType
<1>5. \A o \in loaded' \cup followed' : Real(o)'
  BY <1>1 DEF TypeInv, Rest
<1>6. \A n \in Names : (modules[n].of = Nowhere \/ Real(modules[n].of))'
  BY <1>1 DEF TypeInv, Rest
<1>7. torn' \subseteq Stored'
  BY <1>1 DEF TypeInv, Same
<1>8. /\ mode' \in Options /\ phase' \in Phases /\ rewritten' \in BOOLEAN
      /\ queue' \in Seq(Names \X Ranges) /\ seen' \subseteq Names \X Ranges
      /\ modules' \in [Names -> [of : Owners, file : FileNames]]
  BY DEF TypeInv, Rest
<1> QED BY <1>8, <1>3, <1>4, <1>5, <1>6, <1>7 DEF TypeInv, Rest

LEMMA HonestStays ==
    ASSUME TypeInv, UNCHANGED <<world, locked>> PROVE Honest(locked)'
BY WorldStays, RealStays DEF TypeInv, Honest, Same

LEMMA HonestGrows ==
    ASSUME TypeInv, world' = world, NEW p \in Packages, NEW as \in Entries,
           locked' = [locked EXCEPT ![p] = as],
           as \in {"bare", "object"} => p \in Stored,
           as = "workspace" => Real(<<"workspace", p[1], p[2]>>)
    PROVE  Honest(locked)'
<1>1. Stored' = Stored /\ \A o : Real(o)' <=> Real(o)
  BY WorldStays, RealStays DEF Same
<1>2. Honest(locked)
  BY DEF TypeInv
<1>3. locked' \in [Packages -> Entries] /\ \A q \in Packages \ {p} : locked'[q] = locked[q]
  BY <1>2 DEF Honest
<1>4. locked'[p] = as
  BY <1>2 DEF Honest
<1> QED BY <1>1, <1>2, <1>3, <1>4 DEF Honest

\* A call that ends, or goes on, without turning to another package.
LEMMA EndsTyped ==
    ASSUME TypeInv, NEW c \in Calls, NEW how \in PCs, Ends(c, how), world' = world,
           how = "entry" => at[c].of[1] \in {"package", "workspace"}
    PROVE  /\ at' \in [Calls -> CallType] /\ \A d \in Calls \ {c} : at'[d] = at[d]
           /\ Place(c)' /\ at'[c].of = at[c].of
<1>1. at \in [Calls -> CallType] /\ Place(c)
  BY DEF TypeInv
<1>2. at' = [at EXCEPT ![c].pc = how]
  BY DEF Ends
<1>3. /\ at' \in [Calls -> CallType] /\ \A d \in Calls \ {c} : at'[d] = at[d]
      /\ at'[c].of = at[c].of /\ at'[c].pc = how
  BY <1>1, <1>2 DEF CallType
<1>4. Place(c)'
  BY <1>1, <1>3, RealStays DEF Place
<1> QED BY <1>3, <1>4

LEMMA EndedIsPlace == Ended \subseteq PCs /\ "entry" \notin Ended
BY DEF Ended, PCs

LEMMA RequireTyped == ASSUME TypeInv, TearInv', NEW c \in Calls, Require(c) PROVE TypeInv'
<1>1. UNCHANGED <<Rest, file, locked, torn>>
  BY DEF Require, Shared
<1>2. Honest(locked)'
  BY <1>1, HonestStays DEF Rest
<1>3. CASE c.spec.sub = Root /\ modules[c.spec.name].of # Nowhere
  <2> DEFINE found == modules[c.spec.name]
  <2>1. at' = [at EXCEPT ![c].pc = Outcome(found.file), ![c].of = found.of, ![c].file = found.file]
    BY <1>3 DEF Require
  <2>2. loaded' = IF Outcome(found.file) = "done" THEN loaded \cup {found.of} ELSE loaded
    BY <1>3 DEF Require
  <2>3. c.spec.name \in Names
    BY <1>3, CallTypes DEF TypeInv, TearInv, Shape
  <2>4. found.of \in Owners /\ found.file \in FileNames /\ Real(found.of)
    BY <1>3, <2>3 DEF TypeInv
  <2>5. Outcome(found.file) \in PCs /\ Outcome(found.file) # "entry"
    BY OutcomeEnds, EndedIsPlace
  <2> HIDE DEF found
  <2>6. /\ at' \in [Calls -> CallType] /\ \A d \in Calls \ {c} : at'[d] = at[d]
        /\ at'[c].of = found.of /\ at'[c].pc = Outcome(found.file)
    BY <2>1, <2>4, <2>5, ZenonT(60) DEF TypeInv, CallType
  <2>7. Place(c)'
    BY <1>1, <2>4, <2>5, <2>6, RealStays DEF Place, Rest
  <2>8. \A o \in loaded' \ loaded : Real(o)
    BY <2>2, <2>4
  <2> QED BY <1>1, <1>2, <2>6, <2>7, <2>8, CallTypesKeep
<1>4. CASE ~(c.spec.sub = Root /\ modules[c.spec.name].of # Nowhere)
  <2>1. Ends(c, "undeclared") /\ UNCHANGED loaded /\ "undeclared" \in Ended
    BY <1>4 DEF Require, Ended
  <2> QED BY <1>1, <1>2, <2>1, EndedIsPlace, EndsTyped, CallTypesKeep DEF Rest
<1> QED BY <1>3, <1>4

LEMMA ImportOwnTyped ==
    ASSUME TypeInv, TearInv', NEW c \in Calls, NEW r \in Requests(c), ImportOwn(c, r)
    PROVE  TypeInv'
<1>1. /\ UNCHANGED <<Rest, file, locked, loaded, torn>>
      /\ at' = [at EXCEPT ![c].pc = Outcome(r.file), ![c].of = r.importer, ![c].file = r.file]
  BY DEF ImportOwn, Shared
<1>2. Real(r.importer) /\ r.file \in FileNames /\ r.importer \in Owners
  BY RequestTyped, RealOwner DEF TypeInv, TearInv, Shape
<1>3. Outcome(r.file) \in PCs /\ Outcome(r.file) # "entry"
  BY OutcomeEnds, EndedIsPlace
<1>4. /\ at' \in [Calls -> CallType] /\ \A d \in Calls \ {c} : at'[d] = at[d]
      /\ at'[c].of = r.importer /\ at'[c].pc = Outcome(r.file)
  BY <1>1, <1>2, <1>3, ZenonT(60) DEF TypeInv, CallType
<1>5. Place(c)'
  BY <1>1, <1>2, <1>3, <1>4, RealStays DEF Place, Rest
<1> QED BY <1>1, <1>4, <1>5, HonestStays, CallTypesKeep DEF Rest

LEMMA EndsTypesKeep ==
    ASSUME TypeInv, TearInv', NEW c \in Calls, NEW how \in Ended, Ends(c, how),
           UNCHANGED <<Rest, file, locked, loaded, torn>>
    PROVE  TypeInv'
BY EndedIsPlace, EndsTyped, HonestStays, CallTypesKeep DEF Rest

LEMMA UseMemberTyped ==
    ASSUME TypeInv, TearInv', NEW c \in Calls, NEW r \in Requests(c), UseMember(c, r)
    PROVE  TypeInv'
<1> DEFINE m == ResolveWorkspacePackage(Here.members, r.name,
                                        IF c.via = "prefetch" THEN Undeclared ELSE r.range)
<1>1. UNCHANGED <<Rest, file, loaded, torn>> /\ world \in Worlds
  BY DEF UseMember, TypeInv, TearInv, Shape
<1>2. CASE m = NoMember
  <2>1. Ends(c, "unresolved") /\ UNCHANGED locked /\ "unresolved" \in Ended
    BY <1>2 DEF UseMember, Ended
  <2> QED BY <1>1, <2>1, EndsTypesKeep
<1>3. CASE m # NoMember
  <2>1. PICK pc \in {"done", "entry"} :
            at' = [at EXCEPT ![c].of = MemberCode(m), ![c].sub = r.sub, ![c].pc = pc]
    BY <1>3 DEF UseMember
  <2>2. locked' = [locked EXCEPT ![<<m.name, m.version>>] = "workspace"]
    BY <1>3 DEF UseMember, Remembered
  <2>3. \E i \in DOMAIN Here.members : m = Here.members[i]
    BY <1>1, <1>3, MemberFacts, MemberChosen
  <2> HIDE DEF m
  <2>4. /\ Real(MemberCode(m)) /\ <<m.name, m.version>> \in Packages
        /\ MemberCode(m) \in Owners /\ MemberCode(m)[1] = "workspace"
    BY <1>1, <2>3, MembersKnown, MemberFacts, RealOwner, KindsOfOwners
  <2>5. r.sub \in STRING /\ pc \in PCs
    BY RequestTyped DEF PCs, Ended
  <2>6. /\ at' \in [Calls -> CallType] /\ \A d \in Calls \ {c} : at'[d] = at[d]
        /\ at'[c].of = MemberCode(m)
    BY <2>1, <2>4, <2>5, ZenonT(60) DEF TypeInv, CallType
  <2>7. Place(c)'
    BY <1>1, <2>4, <2>6, RealStays DEF Place, Rest
  <2>8. Honest(locked)'
    <3>1. PICK p : p = <<m.name, m.version>>
      OBVIOUS
    <3>2. Real(<<"workspace", p[1], p[2]>>)
      BY <2>4, <3>1 DEF MemberCode
    <3>3. "workspace" \in Entries
      BY DEF Entries
    <3> QED BY <1>1, <2>2, <2>4, <3>1, <3>2, <3>3, HonestGrows DEF Rest
  <2> QED BY <1>1, <2>6, <2>7, <2>8, CallTypesKeep
<1> QED BY <1>2, <1>3

\* What the resolver chooses is a version, if it is anything.
LEMMA ChoiceIs ==
    ASSUME NEW options, NEW n, NEW r
    PROVE  LET choice == Choice(Here, options, locked, store, n, r)
               v == Reusable(locked, n, r)
           IN
           /\ choice.act \in {"reuse", "member", "refuse", "fetch"}
           /\ choice.act = "reuse" => /\ choice.version = v /\ v \in Versions \cap Sat[r]
                                      /\ locked[<<n, v>>] = "object" /\ <<n, v>> \in store
           /\ choice.act = "member" => /\ choice.version = v /\ v \in Versions \cap Sat[r]
                                       /\ locked[<<n, v>>] = "workspace"
<1> DEFINE choice == Choice(Here, options, locked, store, n, r)
           v == Reusable(locked, n, r)
           as == IF v = NoVersion THEN "absent" ELSE locked[<<n, v>>]
           sealed == options.frozen \/ options.offline
           stored == as = "object" /\ <<n, v>> \in store
<1>1. v # NoVersion => v \in LockedVersions(locked, n) \cap Sat[r]
  BY HighestPicks DEF Reusable
<1>2. v # NoVersion => v \in Versions \cap Sat[r]
  BY <1>1 DEF LockedVersions
<1> HIDE DEF v
<1>3. CASE stored
  <2>1. choice.act = "reuse" /\ choice.version = v
    BY <1>3 DEF Choice, v
  <2> QED BY <1>2, <1>3, <2>1 DEF v
<1>4. CASE as = "workspace" /\ sealed
  <2>1. choice.act = "member" /\ choice.version = v
    BY <1>4 DEF Choice, v
  <2> QED BY <1>2, <1>4, <2>1 DEF v
<1>5. CASE ~stored /\ ~(as = "workspace" /\ sealed)
  <2>1. choice.act \in {"refuse", "fetch"}
    BY <1>5 DEF Choice, v
  <2> HIDE DEF choice
  <2> QED BY <2>1 DEF v, choice
<1> QED BY <1>3, <1>4, <1>5

\* The same of the package that it stands for.
LEMMA ChoiceFound ==
    ASSUME NEW options, NEW n, NEW r
    PROVE  LET choice == Choice(Here, options, locked, store, n, r)
               p == <<n, choice.version>>
           IN
           /\ choice.act = "reuse" => /\ choice.version \in Versions \cap Sat[r]
                                      /\ locked[p] = "object" /\ p \in store
           /\ choice.act = "member" => /\ choice.version \in Versions \cap Sat[r]
                                       /\ locked[p] = "workspace"
<1> DEFINE choice == Choice(Here, options, locked, store, n, r)
           v == Reusable(locked, n, r)
<1>1. /\ choice.act = "reuse" => /\ choice.version = v /\ v \in Versions \cap Sat[r]
                                 /\ locked[<<n, v>>] = "object" /\ <<n, v>> \in store
      /\ choice.act = "member" => /\ choice.version = v /\ v \in Versions \cap Sat[r]
                                  /\ locked[<<n, v>>] = "workspace"
  BY ChoiceIs
<1> HIDE DEF v, choice
<1> QED BY <1>1 DEF choice

LEMMA ResolveTyped ==
    ASSUME TypeInv, TearInv', NEW c \in Calls, NEW r \in Requests(c), Resolve(c, r)
    PROVE  TypeInv'
<1> DEFINE choice == Choice(Here, mode, locked, store, r.name, r.range)
           p == <<r.name, choice.version>>
<1>1. UNCHANGED <<Rest, file, locked, loaded, torn>> /\ world \in Worlds /\ r.name \in Names
  BY RequestTyped DEF Resolve, Shared, TypeInv, TearInv, Shape
<1>2. choice.act \in {"reuse", "member", "refuse", "fetch"}
  BY ChoiceIs
<1>3. CASE choice.act = "refuse"
  <2>1. Ends(c, "missing") /\ "missing" \in Ended
    BY <1>3 DEF Resolve, Ended
  <2> QED BY <1>1, <2>1, EndsTypesKeep
<1>4. CASE choice.act = "fetch" /\ choice.version = NoVersion
  <2>1. Ends(c, "unresolved") /\ "unresolved" \in Ended
    BY <1>4 DEF Resolve, Ended
  <2> QED BY <1>1, <2>1, EndsTypesKeep
<1>5. ASSUME NEW o, Real(o), o[1] \in {"package", "workspace"}, NEW pc \in PCs,
             at' = [at EXCEPT ![c].of = o, ![c].sub = r.sub, ![c].pc = pc]
      PROVE  TypeInv'
  <2>1. r.sub \in STRING /\ o \in Owners
    BY <1>1, <1>5, RequestTyped, RealOwner
  <2>2. /\ at' \in [Calls -> CallType] /\ \A d \in Calls \ {c} : at'[d] = at[d]
        /\ at'[c].of = o
    BY <1>5, <2>1, ZenonT(60) DEF TypeInv, CallType
  <2>3. Place(c)'
    BY <1>1, <1>5, <2>2, RealStays DEF Place, Rest
  <2> QED BY <1>1, <2>2, <2>3, HonestStays, CallTypesKeep DEF Rest
<1>6. CASE choice.act = "member"
  <2>1. PICK pc \in {"done", "entry"} :
            at' = [at EXCEPT ![c].of = CodeOf(p), ![c].sub = r.sub, ![c].pc = pc]
    BY <1>6 DEF Resolve
  <2>2. p \in Packages /\ locked[p] = "workspace"
    <3> DEFINE v == Reusable(locked, r.name, r.range)
    <3>1. choice.version = v /\ v \in Versions /\ locked[<<r.name, v>>] = "workspace"
      BY <1>6, ChoiceIs
    <3> HIDE DEF v, choice
    <3> QED BY <1>1, <3>1 DEF Packages
  <2> HIDE DEF p
  <2>3. CodeOf(p)[1] = "workspace" /\ Real(CodeOf(p))
    BY <2>2 DEF CodeOf, TypeInv, Honest
  <2>4. pc \in PCs
    BY DEF PCs, Ended
  <2> QED BY <1>5, <2>1, <2>3, <2>4
<1>7. CASE choice.act = "reuse" \/ (choice.act = "fetch" /\ choice.version # NoVersion)
  <2>1. choice.act \notin {"refuse", "member"} /\ ~(choice.act = "fetch" /\ choice.version = NoVersion)
    BY <1>7
  <2>2. PICK pc \in {"check", "fetch"} :
            at' = [at EXCEPT ![c].of = PackageCode(p), ![c].sub = r.sub, ![c].pc = pc]
    BY <2>1 DEF Resolve
  <2>3. choice.version # NoVersion
    <3>1. choice.act = "reuse" => choice.version \in Versions
      BY ChoiceIs
    <3>2. 0 \notin Versions
      BY VersionsAssumption
    <3> QED BY <1>7, <3>1, <3>2 DEF NoVersion
  <2>4. p \in Stored
    BY <1>7, <2>3, ChoiceExists DEF TypeInv, TearInv
  <2> HIDE DEF p
  <2>5. Real(PackageCode(p)) /\ PackageCode(p)[1] = "package" /\ pc \in PCs
    BY <1>1, <2>4, PackageCodeReal DEF PackageCode, PCs
  <2> QED BY <1>5, <2>2, <2>5
<1> HIDE DEF choice, p
<1> QED BY <1>2, <1>3, <1>4, <1>6, <1>7

LEMMA OutsiderStartsTyped ==
    ASSUME TypeInv, TearInv', NEW c \in Calls, OutsiderStarts(c) PROVE TypeInv'
<1>1. UNCHANGED <<Rest, file, locked, loaded, torn>> /\ world \in Worlds
  BY DEF OutsiderStarts, Shared, TypeInv, TearInv, Shape
<1>2. PICK p \in store : at' = [at EXCEPT ![c].pc = "check", ![c].of = PackageCode(p)]
  BY DEF OutsiderStarts
<1>3. Real(PackageCode(p)) /\ PackageCode(p) \in Owners /\ "check" \in PCs
  BY <1>1, PackageCodeReal, RealOwner DEF TypeInv, TearInv, Shape, PCs
<1>4. /\ at' \in [Calls -> CallType] /\ \A d \in Calls \ {c} : at'[d] = at[d]
      /\ at'[c].of = PackageCode(p) /\ at'[c].pc = "check"
  BY <1>2, <1>3 DEF TypeInv, CallType
<1>5. Place(c)'
  BY <1>1, <1>3, <1>4, RealStays DEF Place, Rest
<1> QED BY <1>1, <1>4, <1>5, HonestStays, CallTypesKeep DEF Rest

LEMMA FetchTyped == ASSUME TypeInv, TearInv', NEW c \in Calls, Fetch(c) PROVE TypeInv'
<1>1. /\ UNCHANGED <<Rest, file, locked, loaded, torn>>
      /\ at' = [at EXCEPT ![c].pc = "check", ![c].fetched = TRUE]
  BY DEF Fetch
<1>2. /\ at' \in [Calls -> CallType] /\ \A d \in Calls \ {c} : at'[d] = at[d]
      /\ at'[c].of = at[c].of /\ at'[c].pc = "check"
  BY <1>1 DEF TypeInv, CallType, PCs
<1>3. Place(c)'
  BY <1>1, <1>2, RealStays DEF TypeInv, Place, Rest
<1> QED BY <1>1, <1>2, <1>3, HonestStays, CallTypesKeep DEF Rest

\* The steps that unpack: what c is at stays a package.
LEMMA AfterUnpackTyped ==
    ASSUME TypeInv, NEW c \in Calls, at[c].pc \in {"check", "wipe", "extract", "ingest"}
    PROVE  /\ AfterUnpack(c) \in PCs /\ Target(c) \in Stored
           /\ at[c].of[1] = "package" /\ at[c].of[1] \in {"package", "workspace"}
BY DEF TypeInv, TearInv, Shape, PlaceOK, AfterUnpack, PCs, Ended

LEMMA UnpackTyped ==
    ASSUME TypeInv, TearInv', NEW c \in Calls,
           Check(c) \/ Wipe(c) \/ Extract(c) \/ ExtractFails(c) \/ RemovalFails(c)
           \/ OutsiderDies(c)
    PROVE  TypeInv'
<1>1. UNCHANGED <<Rest, file, locked, loaded>>
  BY DEF Check, Wipe, Extract, ExtractFails, RemovalFails, OutsiderDies, Shared
<1>2. at[c].pc \in {"check", "wipe", "extract", "ingest"}
  BY DEF Check, Wipe, Extract, ExtractFails, RemovalFails, OutsiderDies
<1>3. torn' \subseteq torn \cup ({Target(c)} \cap Stored)
  BY <1>2, AfterUnpackTyped DEF Check, Wipe, Extract, ExtractFails, RemovalFails,
                                  OutsiderDies, Tears
<1>4. at' \in [Calls -> CallType] /\ (\A d \in Calls \ {c} : at'[d] = at[d]) /\ at'[c].of = at[c].of
  <2>1. CASE Check(c) \/ ExtractFails(c) \/ RemovalFails(c) \/ OutsiderDies(c)
    <3>1. \E how \in PCs : Ends(c, how)
      BY <1>2, <2>1, AfterUnpackTyped
         DEF Check, ExtractFails, RemovalFails, OutsiderDies, PCs, Ended
    <3> QED BY <1>1, <1>2, <3>1, AfterUnpackTyped, EndsTyped DEF Rest
  <2>2. CASE Wipe(c)
    BY <2>2, ZenonT(60) DEF TypeInv, CallType, Wipe, PCs
  <2>3. CASE Extract(c)
    <3> DEFINE last == at[c].pos + 1 = Len(Here.packages[Target(c)].archive)
    <3>1. at' = [at EXCEPT ![c].pos = @ + 1, ![c].pc = IF last THEN AfterUnpack(c) ELSE @]
      BY <2>3 DEF Extract
    <3> HIDE DEF last
    <3>2. at \in [Calls -> CallType] /\ AfterUnpack(c) \in PCs /\ at[c].pos + 1 \in Nat
      BY <1>2, AfterUnpackTyped DEF TypeInv, CallType
    <3> QED BY <3>1, <3>2 DEF CallType
  <2> QED BY <2>1, <2>2, <2>3
<1>5. Place(c)'
  <2>1. Real(at[c].of) \/ at[c].of = Nowhere
    BY DEF TypeInv, Place
  <2> QED BY <1>1, <1>2, <1>4, <2>1, AfterUnpackTyped, RealStays DEF Place, Rest
<1> QED BY <1>1, <1>3, <1>4, <1>5, HonestStays, CallTypesKeep DEF Rest

LEMMA IngestTyped == ASSUME TypeInv, TearInv', NEW c \in Calls, Ingest(c) PROVE TypeInv'
<1> DEFINE how == IF c.via = "import" THEN "entry" ELSE "done"
<1>1. UNCHANGED <<Rest, file, loaded, torn>> /\ at[c].pc = "ingest" /\ Ends(c, how)
  BY DEF Ingest
<1>2. how \in PCs /\ Target(c) \in Stored /\ at[c].of[1] \in {"package", "workspace"}
  BY <1>1, AfterUnpackTyped DEF PCs, Ended
<1> HIDE DEF how
<1>3. /\ at' \in [Calls -> CallType] /\ \A d \in Calls \ {c} : at'[d] = at[d]
      /\ Place(c)'
  BY <1>1, <1>2, EndsTyped DEF Rest
<1>4. Honest(locked)'
  <2>1. PICK p : p = Target(c)
    OBVIOUS
  <2>2. locked' = [locked EXCEPT ![p] = "object"] /\ p \in Packages /\ p \in Stored
    BY <1>2, <2>1, WorldFacts DEF Ingest, TypeInv, TearInv, Shape
  <2>3. "object" \in Entries
    BY DEF Entries
  <2> QED BY <1>1, <2>2, <2>3, HonestGrows DEF Rest
<1> QED BY <1>1, <1>3, <1>4, CallTypesKeep

LEMMA EntryTyped == ASSUME TypeInv, TearInv', NEW c \in Calls, Entry(c) PROVE TypeInv'
<1> DEFINE owner == at[c].of
           found == ResolvePackageEntry(Tree(owner), Described(Here, owner).json, at[c].sub,
                                        NormalizeConditions(Asked))
           pc_1 == IF Manifest \notin Tree(owner) THEN "corrupt" ELSE Outcome(found)
           file_1 == IF pc_1 = "done" THEN found ELSE NoFile
           whole == Tree(owner) = Described(Here, owner).files
<1>1. /\ at[c].pc = "entry" /\ UNCHANGED <<Rest, file, locked, torn>>
      /\ at' = [at EXCEPT ![c].pc = pc_1, ![c].file = file_1, ![c].whole = whole]
      /\ loaded' = IF pc_1 = "done" THEN loaded \cup {owner} ELSE loaded
  BY DEF Entry, Shared
<1>2. Real(owner) /\ world \in Worlds /\ at[c].sub \in STRING
  BY <1>1, KindsOfOwners DEF TypeInv, TearInv, Shape, Place, CallType
<1>3. found \in FileNames /\ NoFile \in FileNames
  BY <1>2, ConditionsKnown, EntryOf, LiteralsAssumption DEF NoFile, FileNames
<1>4. pc_1 \in PCs /\ pc_1 # "entry" /\ file_1 \in FileNames /\ whole \in BOOLEAN
  BY <1>3, OutcomeEnds, EndedIsPlace DEF Ended
<1> HIDE DEF owner, pc_1, file_1, whole
<1>5. /\ at' \in [Calls -> CallType] /\ \A d \in Calls \ {c} : at'[d] = at[d]
      /\ at'[c].of = at[c].of /\ at'[c].pc = pc_1
  BY <1>1, <1>4, ZenonT(60) DEF TypeInv, CallType
<1>6. Place(c)'
  BY <1>1, <1>2, <1>4, <1>5, RealStays DEF Place, Rest, owner
<1>7. \A o \in loaded' \ loaded : Real(o)
  BY <1>1, <1>2
<1> QED BY <1>1, <1>5, <1>6, <1>7, HonestStays, CallTypesKeep DEF Rest

\* A step of the commands themselves.
LEMMA CommandTypesKeep ==
    ASSUME TypeInv, TearInv', UNCHANGED <<world, mode, at, torn>>,
           phase' \in Phases, rewritten' \in BOOLEAN, Honest(file)', Honest(locked)',
           queue' \in Seq(Names \X Ranges), seen' \subseteq Names \X Ranges,
           modules' = modules \/ (/\ modules' \in [Names -> [of : Owners, file : FileNames]]
                                  /\ \A n \in Names : \/ modules'[n].of = Nowhere
                                                      \/ \E o : Real(o) /\ modules'[n].of = o),
           \A o \in (loaded' \ loaded) \cup (followed' \ followed) : Real(o)
    PROVE  TypeInv'
<1>1. Same /\ \A o : Real(o)' <=> Real(o)
  BY WorldStays, RealStays
<1>2. at' \in [Calls' -> CallType'] /\ \A d \in Calls' : Place(d)'
  BY <1>1 DEF TypeInv, Same, CallType, Place
<1>3. \A o \in loaded' \cup followed' : Real(o)'
  BY <1>1 DEF TypeInv
<1>4. modules' \in [Names -> [of : Owners, file : FileNames]]
  BY DEF TypeInv
<1>5. \A n \in Names : (modules[n].of = Nowhere \/ Real(modules[n].of))'
  BY <1>1 DEF TypeInv
<1>6. torn' \subseteq Stored'
  BY <1>1 DEF TypeInv, Same
<1> QED BY <1>2, <1>3, <1>4, <1>5, <1>6 DEF TypeInv

LEMMA FileStays == ASSUME TypeInv, UNCHANGED <<world, file>> PROVE Honest(file)'
BY WorldStays, RealStays DEF TypeInv, Honest, Same

\* One lock takes the place of the other.
LEMMA LockPasses ==
    ASSUME TypeInv, world' = world
    PROVE  /\ file' = locked => Honest(file)'
           /\ locked' = file => Honest(locked)'
BY WorldStays, RealStays DEF TypeInv, Honest, Same

LEMMA QueueTyped ==
    ASSUME TypeInv, queue # << >>, NEW o, Real(o)
    PROVE  /\ Head(queue) \in Names \X Ranges
           /\ Tail(queue) \in Seq(Names \X Ranges) /\ Len(Tail(queue)) < Len(queue)
           /\ Follow(o) \in Seq(Names \X Ranges)
           /\ Tail(queue) \o Follow(o) \in Seq(Names \X Ranges)
<1>1. queue \in Seq(Names \X Ranges) /\ world \in Worlds
  BY DEF TypeInv, TearInv, Shape
<1>2. Described(Here, o).dependencies \in Declarations
  BY <1>1, DescribedIs DEF IsManifest
<1>3. Follow(o) \in Seq(Names \X Ranges)
  BY <1>2, EntriesTyped DEF Follow
<1>4. /\ Head(queue) \in Names \X Ranges
      /\ Tail(queue) \in Seq(Names \X Ranges) /\ Len(Tail(queue)) < Len(queue)
  BY <1>1
<1> QED BY <1>3, <1>4

LEMMA SkipTyped == ASSUME TypeInv, TearInv', Skip PROVE TypeInv'
<1>1. Real(Project)
  BY DEF Real
<1>2. queue' \in Seq(Names \X Ranges)
  BY <1>1, QueueTyped DEF Skip
<1>3. /\ UNCHANGED <<world, mode, phase, file, locked, seen, modules, loaded, at, rewritten,
                     followed, torn>>
  BY DEF Skip, Shared, History
<1>4. seen' \subseteq Names \X Ranges /\ phase' \in Phases /\ rewritten' \in BOOLEAN
  BY <1>3 DEF TypeInv
<1> QED BY <1>2, <1>3, <1>4, HonestStays, FileStays, CommandTypesKeep

\* The member that a snapshot visits.
LEMMA VisitedMember ==
    ASSUME TypeInv, VisitMember
    PROVE  LET m == ResolveWorkspacePackage(Here.members, Head(queue)[1], Undeclared) IN
           /\ \E i \in DOMAIN Here.members : m = Here.members[i]
           /\ m.name = Head(queue)[1]
           /\ Real(MemberCode(m)) /\ <<m.name, m.version>> \in Packages
<1> DEFINE m == ResolveWorkspacePackage(Here.members, Head(queue)[1], Undeclared)
<1>1. world \in Worlds
  BY DEF TypeInv, TearInv, Shape
<1>2. m # NoMember
  <2>1. IsMember(Here.members, Head(queue)[1])
    BY DEF VisitMember, TakesMember
  <2> QED BY <1>1, <2>1, MemberFacts, MembersKnown, MemberChosen
<1>3. Undeclared \notin Workspace
  BY RangesAssumption
<1>4. \E i \in DOMAIN Here.members : m = Here.members[i] /\ m.name = Head(queue)[1]
  BY <1>1, <1>2, <1>3, MemberFacts, MemberChosen
<1> HIDE DEF m
<1>5. Real(MemberCode(m)) /\ <<m.name, m.version>> \in Packages
  BY <1>1, <1>4, MembersKnown, MemberFacts
<1> QED BY <1>4, <1>5 DEF m

LEMMA VisitMemberTyped == ASSUME TypeInv, TearInv', VisitMember PROVE TypeInv'
<1>m. PICK m : m = ResolveWorkspacePackage(Here.members, Head(queue)[1], Undeclared)
  OBVIOUS
<1>1. Real(MemberCode(m)) /\ <<m.name, m.version>> \in Packages
  BY <1>m, VisitedMember
<1>2. /\ UNCHANGED <<world, mode, phase, file, modules, loaded, at, rewritten, torn>>
      /\ queue # << >> /\ seen' = seen \cup {Head(queue)}
      /\ locked' = [locked EXCEPT ![<<m.name, m.version>>] = "workspace"]
      /\ queue' = Tail(queue) \o Follow(MemberCode(m))
      /\ followed' = followed \cup {MemberCode(m)}
  BY <1>m DEF VisitMember, Mark, Remembered
<1>3. Honest(locked)'
  <2>1. PICK p : p = <<m.name, m.version>>
    OBVIOUS
  <2>2. Real(<<"workspace", p[1], p[2]>>) /\ "workspace" \in Entries
    BY <1>1, <2>1 DEF MemberCode, Entries
  <2> QED BY <1>1, <1>2, <2>1, <2>2, HonestGrows
<1>4. queue' \in Seq(Names \X Ranges) /\ seen' \subseteq Names \X Ranges
  BY <1>1, <1>2, QueueTyped DEF TypeInv
<1>5. phase' \in Phases /\ rewritten' \in BOOLEAN
  BY <1>2 DEF TypeInv
<1>6. \A o \in (loaded' \ loaded) \cup (followed' \ followed) : Real(o)
  BY <1>1, <1>2
<1> QED BY <1>2, <1>3, <1>4, <1>5, <1>6, FileStays, CommandTypesKeep

LEMMA VisitTyped == ASSUME TypeInv, TearInv', Visit PROVE TypeInv'
<1> DEFINE spec == Head(queue)
           choice == Choice(Here, Online, locked, store, spec[1], spec[2])
           p == <<spec[1], choice.version>>
<1>1. /\ UNCHANGED <<world, mode, file, modules, loaded, at, rewritten, torn>>
      /\ queue # << >> /\ seen' = seen \cup {spec} /\ phase = "snapshot" /\ world \in Worlds
  BY DEF Visit, Mark, TypeInv, TearInv, Shape
<1>2. seen' \subseteq Names \X Ranges /\ rewritten' \in BOOLEAN
  BY <1>1, QueueTyped DEF TypeInv, Real
<1>3. CASE choice.version = NoVersion
  <2>1. UNCHANGED <<locked, queue, followed>> /\ phase' = "over"
    BY <1>3 DEF Visit
  <2>2. phase' \in Phases /\ queue' \in Seq(Names \X Ranges)
    BY <2>1 DEF TypeInv, Phases
  <2> QED BY <1>1, <1>2, <2>1, <2>2, HonestStays, FileStays, CommandTypesKeep
<1>4. CASE choice.version # NoVersion
  <2>1. /\ locked' = [locked EXCEPT ![p] = "object"]
        /\ queue' = Tail(queue) \o Follow(PackageCode(p))
        /\ followed' = followed \cup {PackageCode(p)} /\ phase' = phase
    BY <1>4 DEF Visit
  <2>2. choice.act \in {"reuse", "fetch"}
    BY DEF Choice, Online
  <2>3. p \in Stored
    BY <1>4, <2>2, ChoiceExists DEF TypeInv, TearInv
  <2> HIDE DEF p
  <2>4. Real(PackageCode(p)) /\ p \in Packages /\ "object" \in Entries
    BY <1>1, <2>3, WorldFacts, PackageCodeReal DEF Entries
  <2>5. Honest(locked)'
    BY <1>1, <2>1, <2>3, <2>4, HonestGrows
  <2>6. phase' \in Phases /\ queue' \in Seq(Names \X Ranges)
    BY <1>1, <2>1, <2>4, QueueTyped DEF TypeInv
  <2>7. \A o \in (loaded' \ loaded) \cup (followed' \ followed) : Real(o)
    BY <1>1, <2>1, <2>4
  <2> QED BY <1>1, <1>2, <2>5, <2>6, <2>7, FileStays, CommandTypesKeep
<1> QED BY <1>3, <1>4

LEMMA BuildMapTyped == ASSUME TypeInv, TearInv', BuildMap PROVE TypeInv'
<1>1. /\ UNCHANGED <<world, mode, file, locked, queue, seen, loaded, at, rewritten, followed, torn>>
      /\ phase' = "spawn" /\ world \in Worlds
      /\ modules' = [n \in Names |-> [of |-> LastOffering(n), file |-> RequireEntry(LastOffering(n))]]
  BY DEF BuildMap, Shared, History, TypeInv, TearInv, Shape
<1>2. ASSUME NEW n \in Names PROVE LastOffering(n) = Nowhere \/ Real(LastOffering(n))
  <2>1. \A v \in Versions : CodeOf(<<n, v>>) = Nowhere \/ Real(CodeOf(<<n, v>>))
    BY CodeReal DEF Packages
  <2> QED BY <2>1, LastOfferingReal
<1>3. \A n \in Names : LastOffering(n) \in Owners /\ RequireEntry(LastOffering(n)) \in FileNames
  BY <1>1, <1>2, RealOwner, RequireEntryTyped
<1>4. /\ modules' \in [Names -> [of : Owners, file : FileNames]]
      /\ \A n \in Names : modules'[n].of = LastOffering(n)
  BY <1>1, <1>3
<1>5. phase' \in Phases /\ rewritten' \in BOOLEAN /\ queue' \in Seq(Names \X Ranges)
        /\ seen' \subseteq Names \X Ranges
  BY <1>1 DEF TypeInv, Phases
<1> QED BY <1>1, <1>2, <1>4, <1>5, HonestStays, FileStays, CommandTypesKeep

LEMMA CommandTyped ==
    ASSUME TypeInv, TearInv', SnapshotEnds \/ StartRun \/ PrefetchEnds \/ ChildOpens \/ ProgramEnds
    PROVE  TypeInv'
<1>1. UNCHANGED <<world, mode, queue, seen, modules, at, rewritten, followed, torn>>
  BY DEF SnapshotEnds, StartRun, PrefetchEnds, ChildOpens, ProgramEnds, Shared, History
<1>2. /\ file' = file \/ file' = locked
      /\ locked' = locked \/ locked' = file
  BY DEF SnapshotEnds, StartRun, PrefetchEnds, ChildOpens, ProgramEnds, Shared
<1>3. Honest(file)' /\ Honest(locked)'
  BY <1>1, <1>2, HonestStays, FileStays, LockPasses
<1>4. phase' \in Phases /\ loaded' \subseteq loaded \cup {Prefetching, Project}
  BY DEF SnapshotEnds, StartRun, PrefetchEnds, ChildOpens, ProgramEnds, Phases
<1>5. rewritten' \in BOOLEAN /\ queue' \in Seq(Names \X Ranges) /\ seen' \subseteq Names \X Ranges
  BY <1>1 DEF TypeInv
<1>6. \A o \in (loaded' \ loaded) \cup (followed' \ followed) : Real(o)
  BY <1>1, <1>4 DEF Real
<1> QED BY <1>1, <1>3, <1>4, <1>5, <1>6, CommandTypesKeep

LEMMA RewriteTyped == ASSUME TypeInv, TearInv', Rewrite PROVE TypeInv'
<1>1. /\ UNCHANGED <<world, mode, phase, locked, queue, seen, modules, loaded, at, followed, torn>>
      /\ rewritten' = TRUE
  BY DEF Rewrite
<1>2. PICK p \in Packages : file' = [file EXCEPT ![p] = "absent"]
  BY DEF Rewrite
<1>3. Honest(file)'
  <2>1. Honest(file) /\ "absent" \in Entries
    BY DEF TypeInv, Entries
  <2>2. file' \in [Packages -> Entries] /\ \A q \in Packages : file'[q] = "absent" \/ file'[q] = file[q]
    BY <1>2, <2>1 DEF Honest
  <2> QED BY <1>1, <2>1, <2>2, RealStays, WorldStays DEF Honest, Same
<1>4. phase' \in Phases /\ rewritten' \in BOOLEAN /\ queue' \in Seq(Names \X Ranges)
        /\ seen' \subseteq Names \X Ranges
  BY <1>1 DEF TypeInv
<1> QED BY <1>1, <1>3, <1>4, HonestStays, CommandTypesKeep

LEMMA StutterTyped == ASSUME TypeInv, TearInv', UNCHANGED vars PROVE TypeInv'
<1>1. UNCHANGED <<world, mode, phase, file, locked, queue, seen, modules, loaded, at, rewritten,
                  followed, torn>>
  BY DEF vars
<1>2. phase' \in Phases /\ rewritten' \in BOOLEAN /\ queue' \in Seq(Names \X Ranges)
        /\ seen' \subseteq Names \X Ranges
  BY <1>1 DEF TypeInv
<1> QED BY <1>1, <1>2, HonestStays, FileStays, CommandTypesKeep

LEMMA TypeStep == TypeInv /\ [Next]_vars => TypeInv'
<1> SUFFICES ASSUME TypeInv, [Next]_vars PROVE TypeInv'
  OBVIOUS
<1>1. TearInv'
  BY TearStep DEF TypeInv
<1>2. CASE Snapshot
  BY <1>1, <1>2, SkipTyped, VisitMemberTyped, VisitTyped, CommandTyped DEF Snapshot
<1>3. CASE Run
  BY <1>1, <1>3, BuildMapTyped, CommandTyped DEF Run
<1>4. CASE Rewrite
  BY <1>1, <1>4, RewriteTyped
<1>5. CASE Over \/ UNCHANGED vars
  BY <1>1, <1>5, StutterTyped DEF Over
<1>6. ASSUME NEW c \in Calls, Call(c) PROVE TypeInv'
  <2>1. CASE Require(c) \/ Fetch(c) \/ Ingest(c) \/ Entry(c)
    BY <1>1, <2>1, RequireTyped, FetchTyped, IngestTyped, EntryTyped
  <2>2. CASE Check(c) \/ Wipe(c) \/ Extract(c) \/ ExtractFails(c) \/ RemovalFails(c)
    BY <1>1, <2>2, UnpackTyped
  <2>3. ASSUME NEW r \in Requests(c),
               ImportOwn(c, r) \/ ImportUndeclared(c, r) \/ UseMember(c, r) \/ Resolve(c, r)
        PROVE  TypeInv'
    <3>1. CASE ImportUndeclared(c, r)
      <4>1. Ends(c, "undeclared") /\ UNCHANGED <<Rest, file, locked, loaded, torn>>
        BY <3>1 DEF ImportUndeclared, Shared
      <4>2. "undeclared" \in Ended
        BY DEF Ended
      <4> QED BY <1>1, <4>1, <4>2, EndsTypesKeep
    <3> QED BY <1>1, <2>3, <3>1, ImportOwnTyped, UseMemberTyped, ResolveTyped
  <2> QED BY <1>6, <2>1, <2>2, <2>3 DEF Call
<1>7. ASSUME NEW c \in Calls, OutsiderStarts(c) \/ OutsiderDies(c) PROVE TypeInv'
  BY <1>1, <1>7, OutsiderStartsTyped, UnpackTyped
<1> QED BY <1>2, <1>3, <1>4, <1>5, <1>6, <1>7 DEF Next

\* Types, with the invariant they need: a lock names only what exists, code that is loaded
\* or mapped exists, and what a file or a specifier is called is found by functions that
\* recur over maps of any depth.
THEOREM ImportsTypes == Spec => []TypeOK
<1>1. TypeInv /\ [Next]_vars => TypeInv'
  BY TypeStep
<1> QED BY <1>1, TypeInit, TypesHold, PTL DEF Spec

\* snapshotReachable gets on with every step: the queue shrinks, or a specifier is seen for
\* the first time.
THEOREM SnapshotGetsOn == Spec => SnapshotAdvances
<1> DEFINE Advance == queue' # queue => Len(queue') < Len(queue) \/ seen' # seen
<1>1. TypeInv /\ [Next]_vars => TypeInv'
  BY TypeStep
<1>2. TypeInv /\ [Next]_vars => [Advance]_vars
  <2> SUFFICES ASSUME TypeInv, Next PROVE Advance
    OBVIOUS
  <2>1. CASE Skip
    <3>1. Real(Project)
      BY DEF Real
    <3> QED BY <2>1, <3>1, QueueTyped DEF Skip
  <2>2. CASE VisitMember
    BY <2>2 DEF VisitMember, Mark
  <2>3. CASE Visit
    BY <2>3 DEF Visit, Mark
  <2>4. CASE SnapshotEnds \/ Run \/ Rewrite \/ Over
    BY <2>4 DEF SnapshotEnds, Run, StartRun, PrefetchEnds, BuildMap, ChildOpens, ProgramEnds,
                Rewrite, Over, vars
  <2>5. ASSUME NEW c \in Calls, Call(c) \/ OutsiderStarts(c) \/ OutsiderDies(c)
        PROVE  queue' = queue
    BY <2>5 DEF Call, Require, Fetch, Check, Wipe, Extract, ExtractFails, RemovalFails, Ingest,
                Entry, ImportOwn, ImportUndeclared, UseMember, Resolve, OutsiderStarts, OutsiderDies, Rest
  <2> QED BY <2>1, <2>2, <2>3, <2>4, <2>5 DEF Next, Snapshot
<1>3. TypeInv /\ [Advance]_vars => [queue' # queue => Len(queue') < Len(queue) \/ seen' # seen]_vars
  OBVIOUS
<1> HIDE DEF Advance
<1> QED BY <1>1, <1>2, <1>3, TypeInit, PTL DEF Spec, SnapshotAdvances

------------------------------------------------------------------------------
(* What an import loads *)

\* Before the program runs, no code of it does, and once the prefetch is over, nothing
\* changes the lock until the child has opened it.
CallStage(c) ==
    /\ c.via \in {"import", "require"} /\ phase \notin {"running", "over"} => at[c].pc = "idle"
    /\ c.via = "require" => at[c].pc \in Ended \cup {"idle"}
    /\ c.via = "prefetch" => /\ phase \in {"snapshot", "start"} => at[c].pc = "idle"
                             /\ phase \in {"map", "spawn", "running"} => at[c].pc \in Ended \cup {"idle"}
                             /\ at[c].pc # "entry"
    /\ c.via = "outside" => at[c].pc \notin {"fetch", "ingest", "entry"}

StageInv ==
    /\ TypeInv
    /\ \A c \in Calls : CallStage(c)
    /\ phase \notin {"running", "over"} => loaded \subseteq {Outsider, Prefetching}
    /\ phase \in {"snapshot", "start", "prefetch", "map"} => \A n \in Names : modules[n].of = Nowhere
    /\ phase \in {"map", "spawn"} /\ ~rewritten => file = locked

LEMMA StageInit == Init => StageInv
<1> SUFFICES ASSUME Init PROVE StageInv
  OBVIOUS
<1>1. TypeInv
  BY TypeInit
<1>2. \A c \in Calls : at[c].pc = "idle"
  BY DEF Init, Waiting
<1>3. phase \in {"snapshot", "start"}
  BY DEF Init
<1>4. loaded = {Outsider} /\ \A n \in Names : modules[n].of = Nowhere
  BY DEF Init
<1>5. \A c \in Calls : CallStage(c)
  BY <1>2 DEF CallStage, Ended
<1> QED BY <1>1, <1>3, <1>4, <1>5 DEF StageInv

\* A step of c: where its call goes.
LEMMA CallMoves ==
    ASSUME StageInv, NEW c \in Calls, Call(c) \/ OutsiderStarts(c) \/ OutsiderDies(c)
    PROVE  /\ UNCHANGED <<Rest, file>> /\ \A d \in Calls \ {c} : at'[d] = at[d]
           /\ at[c].pc \notin Ended
           /\ CallStage(c)'
           /\ locked' # locked => phase \notin {"map", "spawn"}
           /\ loaded' # loaded => phase \in {"running", "over"}
<1> USE DEF Rest
<1>1. at \in [Calls -> CallType] /\ CallStage(c) /\ world \in Worlds
  BY DEF StageInv, TypeInv, TearInv, Shape
<1>2. c.via \in {"import", "require", "prefetch", "outside"}
  BY <1>1, CallTypes
<1>3. ASSUME NEW how, Ends(c, how)
      PROVE  at'[c].pc = how /\ \A d \in Calls \ {c} : at'[d] = at[d]
  BY <1>1, <1>3 DEF Ends, CallType
<1>4. CASE Require(c)
  <2>1. UNCHANGED <<Rest, file, locked>> /\ phase = "running" /\ c.via = "require" /\ at[c].pc = "idle"
    BY <1>4 DEF Require, Starts, Shared
  <2>2. at'[c].pc \in Ended /\ \A d \in Calls \ {c} : at'[d] = at[d]
    <3>1. CASE c.spec.sub = Root /\ modules[c.spec.name].of # Nowhere
      <4> DEFINE found == modules[c.spec.name]
      <4>1. at' = [at EXCEPT ![c].pc = Outcome(found.file), ![c].of = found.of, ![c].file = found.file]
        BY <1>4, <3>1 DEF Require
      <4> HIDE DEF found
      <4> QED BY <1>1, <4>1, OutcomeEnds DEF CallType
    <3>2. CASE ~(c.spec.sub = Root /\ modules[c.spec.name].of # Nowhere)
      <4>1. Ends(c, "undeclared")
        BY <1>4, <3>2 DEF Require
      <4> QED BY <1>3, <4>1 DEF Ended
    <3> QED BY <3>1, <3>2
  <2> QED BY <2>1, <2>2 DEF CallStage, Ended
<1>5. CASE Fetch(c)
  <2>1. /\ UNCHANGED <<Rest, file, locked, loaded>> /\ at[c].pc = "fetch"
        /\ at' = [at EXCEPT ![c].pc = "check", ![c].fetched = TRUE]
    BY <1>5 DEF Fetch
  <2>2. at'[c].pc = "check" /\ \A d \in Calls \ {c} : at'[d] = at[d]
    BY <1>1, <2>1 DEF CallType
  <2> QED BY <1>1, <1>2, <2>1, <2>2 DEF CallStage, Ended
<1>6. CASE Check(c)
  <2>1. /\ UNCHANGED <<Rest, file, locked, loaded>> /\ at[c].pc = "check"
        /\ Ends(c, IF Unpacked(c) THEN AfterUnpack(c) ELSE "wipe")
    BY <1>6 DEF Check, Shared
  <2>2. /\ at'[c].pc \in {AfterUnpack(c), "wipe"} /\ \A d \in Calls \ {c} : at'[d] = at[d]
    BY <1>3, <2>1
  <2> QED BY <1>1, <1>2, <2>1, <2>2 DEF CallStage, Ended, AfterUnpack
<1>7. CASE Wipe(c)
  <2>1. /\ UNCHANGED <<Rest, file, locked, loaded>> /\ at[c].pc = "wipe"
        /\ at' = [at EXCEPT ![c].pc = "extract", ![c].pos = 0]
    BY <1>7 DEF Wipe, Shared
  <2>2. at'[c].pc = "extract" /\ \A d \in Calls \ {c} : at'[d] = at[d]
    BY <1>1, <2>1 DEF CallType
  <2> QED BY <1>1, <1>2, <2>1, <2>2 DEF CallStage, Ended
<1>8. CASE Extract(c)
  <2> DEFINE last == at[c].pos + 1 = Len(Here.packages[Target(c)].archive)
  <2>1. /\ UNCHANGED <<Rest, file, locked, loaded>> /\ at[c].pc = "extract"
        /\ at' = [at EXCEPT ![c].pos = @ + 1, ![c].pc = IF last THEN AfterUnpack(c) ELSE @]
    BY <1>8 DEF Extract, Shared
  <2> HIDE DEF last
  <2>2. at'[c].pc \in {AfterUnpack(c), "extract"} /\ \A d \in Calls \ {c} : at'[d] = at[d]
    BY <1>1, <2>1 DEF CallType
  <2> QED BY <1>1, <1>2, <2>1, <2>2 DEF CallStage, Ended, AfterUnpack
<1>9. CASE ExtractFails(c) \/ RemovalFails(c)
  <2>1. /\ UNCHANGED <<Rest, file, locked, loaded>> /\ at[c].pc \in {"wipe", "extract"}
        /\ Ends(c, "broken")
    BY <1>9 DEF ExtractFails, RemovalFails, Shared
  <2>2. at'[c].pc = "broken" /\ \A d \in Calls \ {c} : at'[d] = at[d]
    BY <1>3, <2>1
  <2> QED BY <1>1, <1>2, <2>1, <2>2 DEF CallStage, Ended
<1>10. CASE OutsiderDies(c)
  <2>1. /\ UNCHANGED <<Rest, file, locked, loaded>> /\ at[c].pc \in {"wipe", "extract"} /\ Ends(c, "dead")
    BY <1>10 DEF OutsiderDies, Shared
  <2>2. at'[c].pc = "dead" /\ \A d \in Calls \ {c} : at'[d] = at[d]
    BY <1>3, <2>1
  <2> QED BY <1>1, <1>2, <2>1, <2>2 DEF CallStage, Ended
<1>11. CASE OutsiderStarts(c)
  <2>1. /\ UNCHANGED <<Rest, file, locked, loaded>> /\ at[c].pc = "idle" /\ c.via = "outside"
        /\ \E p \in store : at' = [at EXCEPT ![c].pc = "check", ![c].of = PackageCode(p)]
    BY <1>11 DEF OutsiderStarts, Shared, Starts
  <2>2. at'[c].pc = "check" /\ \A d \in Calls \ {c} : at'[d] = at[d]
    BY <1>1, <2>1 DEF CallType
  <2> QED BY <2>1, <2>2 DEF CallStage, Ended
<1>12. CASE Ingest(c)
  <2>1. /\ UNCHANGED <<Rest, file, loaded>> /\ at[c].pc = "ingest"
        /\ Ends(c, IF c.via = "import" THEN "entry" ELSE "done")
    BY <1>12 DEF Ingest
  <2>2. /\ at'[c].pc = (IF c.via = "import" THEN "entry" ELSE "done")
        /\ \A d \in Calls \ {c} : at'[d] = at[d]
    BY <1>3, <2>1
  <2> QED BY <1>1, <1>2, <2>1, <2>2 DEF CallStage, Ended
<1>13. CASE Entry(c)
  <2> DEFINE owner == at[c].of
             found == ResolvePackageEntry(Tree(owner), Described(Here, owner).json, at[c].sub,
                                          NormalizeConditions(Asked))
             pc_1 == IF Manifest \notin Tree(owner) THEN "corrupt" ELSE Outcome(found)
             file_1 == IF pc_1 = "done" THEN found ELSE NoFile
             whole == Tree(owner) = Described(Here, owner).files
  <2>1. /\ UNCHANGED <<Rest, file, locked>> /\ at[c].pc = "entry"
        /\ at' = [at EXCEPT ![c].pc = pc_1, ![c].file = file_1, ![c].whole = whole]
    BY <1>13 DEF Entry, Shared
  <2>2. pc_1 \in Ended
    BY OutcomeEnds DEF Ended
  <2> HIDE DEF pc_1, file_1, whole
  <2>3. at'[c].pc = pc_1 /\ \A d \in Calls \ {c} : at'[d] = at[d]
    BY <1>1, <2>1 DEF CallType
  <2> QED BY <1>1, <1>2, <2>1, <2>2, <2>3 DEF CallStage, Ended
<1>14. ASSUME NEW r \in Requests(c),
              ImportOwn(c, r) \/ ImportUndeclared(c, r) \/ UseMember(c, r) \/ Resolve(c, r)
       PROVE  /\ UNCHANGED <<Rest, file>> /\ \A d \in Calls \ {c} : at'[d] = at[d]
              /\ at[c].pc \notin Ended
              /\ CallStage(c)'
              /\ locked' # locked => phase \notin {"map", "spawn"}
              /\ loaded' # loaded => phase \in {"running", "over"}
  <2>1. /\ at[c].pc = "idle"
        /\ (c.via = "prefetch" /\ phase = "prefetch") \/ (c.via = "import" /\ phase = "running")
    BY DEF Requests, Starts
  <2>2. UNCHANGED <<Rest, file, loaded>>
    BY <1>14 DEF ImportOwn, ImportUndeclared, UseMember, Resolve, Shared
  <2>3. (\A d \in Calls \ {c} : at'[d] = at[d]) /\ (c.via = "prefetch" => at'[c].pc # "entry")
    <3>1. ASSUME NEW o, NEW sub, NEW pc, pc = "entry" => c.via = "import",
                 at' = [at EXCEPT ![c].of = o, ![c].sub = sub, ![c].pc = pc]
          PROVE  (\A d \in Calls \ {c} : at'[d] = at[d]) /\ (c.via = "prefetch" => at'[c].pc # "entry")
      BY <1>1, <3>1 DEF CallType
    <3>2. CASE ImportUndeclared(c, r)
      BY <1>3, <3>2 DEF ImportUndeclared
    <3>3. CASE ImportOwn(c, r)
      BY <1>1, <3>3, OutcomeEnds DEF ImportOwn, CallType, Ended
    <3>4. CASE UseMember(c, r)
      <4> DEFINE m == ResolveWorkspacePackage(Here.members, r.name,
                                              IF c.via = "prefetch" THEN Undeclared ELSE r.range)
                 pc_1 == IF c.via = "prefetch" THEN "done" ELSE "entry"
      <4>1. CASE m = NoMember
        BY <1>3, <3>4, <4>1 DEF UseMember
      <4>2. CASE m # NoMember
        <5>1. at' = [at EXCEPT ![c].of = MemberCode(m), ![c].sub = r.sub, ![c].pc = pc_1]
          BY <3>4, <4>2 DEF UseMember
        <5>2. pc_1 = "entry" => c.via = "import"
          BY <2>1
        <5> HIDE DEF m, pc_1
        <5> QED BY <3>1, <5>1, <5>2
      <4> QED BY <4>1, <4>2
    <3>5. CASE Resolve(c, r)
      <4> DEFINE choice == Choice(Here, mode, locked, store, r.name, r.range)
                 p == <<r.name, choice.version>>
      <4>1. CASE choice.act = "refuse" \/ (choice.act = "fetch" /\ choice.version = NoVersion)
        <5>1. \E how : how # "entry" /\ Ends(c, how)
          <6>1. CASE choice.act = "refuse"
            BY <3>5, <6>1 DEF Resolve
          <6>2. CASE choice.act = "fetch" /\ choice.version = NoVersion
            BY <3>5, <6>2 DEF Resolve
          <6> QED BY <4>1, <6>1, <6>2
        <5> QED BY <1>3, <5>1
      <4>2. CASE choice.act = "member"
        <5> DEFINE pc_1 == IF c.via = "prefetch" THEN "done" ELSE "entry"
        <5>1. at' = [at EXCEPT ![c].of = CodeOf(p), ![c].sub = r.sub, ![c].pc = pc_1]
          BY <3>5, <4>2 DEF Resolve
        <5>2. pc_1 = "entry" => c.via = "import"
          BY <2>1
        <5> HIDE DEF p, pc_1
        <5> QED BY <3>1, <5>1, <5>2
      <4>3. CASE choice.act \notin {"refuse", "member"}
                   /\ ~(choice.act = "fetch" /\ choice.version = NoVersion)
        <5>1. PICK pc \in {"check", "fetch"} :
                  at' = [at EXCEPT ![c].of = PackageCode(p), ![c].sub = r.sub, ![c].pc = pc]
          BY <3>5, <4>3 DEF Resolve
        <5> HIDE DEF p
        <5> QED BY <3>1, <5>1
      <4> QED BY <4>1, <4>2, <4>3
    <3> QED BY <1>14, <3>2, <3>3, <3>4, <3>5
  <2> QED BY <2>1, <2>2, <2>3 DEF CallStage, Ended
<1> QED BY <1>4, <1>5, <1>6, <1>7, <1>8, <1>9, <1>10, <1>11, <1>12, <1>13, <1>14 DEF Call

LEMMA StageCalls ==
    ASSUME StageInv, TypeInv', NEW c \in Calls, Call(c) \/ OutsiderStarts(c) \/ OutsiderDies(c)
    PROVE  StageInv'
<1>1. /\ UNCHANGED <<Rest, file>> /\ \A d \in Calls \ {c} : at'[d] = at[d]
      /\ CallStage(c)'
      /\ locked' # locked => phase \notin {"map", "spawn"}
      /\ loaded' # loaded => phase \in {"running", "over"}
  BY CallMoves
<1>2. UNCHANGED <<world, phase, modules, rewritten, file>> /\ Calls' = Calls
  BY <1>1 DEF Rest, Calls, Here
<1>3. \A d \in Calls : CallStage(d)'
  <2>1. ASSUME NEW d \in Calls \ {c} PROVE CallStage(d)'
    BY <1>1, <1>2 DEF StageInv, CallStage
  <2> QED BY <1>1, <2>1
<1> QED BY <1>1, <1>2, <1>3 DEF StageInv

LEMMA StageStep == StageInv /\ [Next]_vars => StageInv'
<1> SUFFICES ASSUME StageInv, [Next]_vars PROVE StageInv'
  OBVIOUS
<1>1. TypeInv /\ TypeInv'
  BY TypeStep DEF StageInv
<1>2. ASSUME NEW c \in Calls, Call(c) \/ OutsiderStarts(c) \/ OutsiderDies(c) PROVE StageInv'
  BY <1>1, <1>2, StageCalls
<1>3. CASE Snapshot
  <2>1. /\ UNCHANGED <<world, modules, loaded, at, rewritten>>
        /\ phase = "snapshot" /\ phase' \in {"snapshot", "start", "over"}
    BY <1>3 DEF Snapshot, Skip, VisitMember, Visit, SnapshotEnds, History
  <2>2. Calls' = Calls /\ \A c \in Calls : CallStage(c)'
    BY <2>1 DEF StageInv, CallStage, Calls, Here
  <2> QED BY <1>1, <2>1, <2>2 DEF StageInv
<1>4. CASE StartRun
  <2>1. /\ UNCHANGED <<world, modules, at, rewritten, file>> /\ locked' = file
        /\ phase = "start" /\ phase' \in {"prefetch", "map"}
        /\ loaded' \subseteq loaded \cup {Prefetching}
    BY <1>4 DEF StartRun, History
  <2>2. Calls' = Calls /\ \A c \in Calls : CallStage(c)'
    BY <2>1 DEF StageInv, CallStage, Calls, Here
  <2> QED BY <1>1, <2>1, <2>2 DEF StageInv
<1>5. CASE PrefetchEnds
  <2>1. /\ UNCHANGED <<world, modules, at, rewritten, locked, loaded>>
        /\ phase = "prefetch"
        /\ \/ phase' = "map" /\ file' = locked
           \/ phase' = "over"
        /\ \A c \in CallsOf({Prefetching}) : at[c].pc \in Ended
    BY <1>5 DEF PrefetchEnds, History
  <2>2. \A c \in Calls : c.via = "prefetch" => at[c].pc \in Ended
    BY <1>1, <2>1, CallTypes DEF CallsOf, TypeInv, TearInv, Shape
  <2>3. Calls' = Calls /\ \A c \in Calls : CallStage(c)'
    BY <2>1, <2>2 DEF StageInv, CallStage, Calls, Here
  <2> QED BY <1>1, <2>1, <2>3 DEF StageInv
<1>6. CASE BuildMap \/ ChildOpens \/ ProgramEnds
  <2>1. /\ UNCHANGED <<world, at, rewritten, file>>
        /\ \/ phase = "map" /\ phase' = "spawn" /\ UNCHANGED <<loaded, locked>>
           \/ phase = "spawn" /\ phase' = "running"
           \/ phase = "running" /\ phase' = "over"
    BY <1>6 DEF BuildMap, ChildOpens, ProgramEnds, History, Shared
  <2>2. Calls' = Calls /\ \A c \in Calls : CallStage(c)'
    BY <2>1 DEF StageInv, CallStage, Calls, Here
  <2> QED BY <1>1, <2>1, <2>2 DEF StageInv
<1>7. CASE Rewrite
  <2>1. UNCHANGED <<world, phase, modules, loaded, at>> /\ rewritten'
    BY <1>7 DEF Rewrite
  <2>2. Calls' = Calls /\ \A c \in Calls : CallStage(c)'
    BY <2>1 DEF StageInv, CallStage, Calls, Here
  <2> QED BY <1>1, <2>1, <2>2 DEF StageInv
<1>8. CASE UNCHANGED vars
  <2>1. UNCHANGED <<world, phase, modules, loaded, at, rewritten, file, locked>>
    BY <1>8 DEF vars
  <2>2. Calls' = Calls /\ \A c \in Calls : CallStage(c)'
    BY <2>1 DEF StageInv, CallStage, Calls, Here
  <2> QED BY <1>1, <2>1, <2>2 DEF StageInv
<1>9. CASE Over
  BY <1>8, <1>9 DEF Over
<1> QED BY <1>2, <1>3, <1>4, <1>5, <1>6, <1>7, <1>8, <1>9 DEF Next, Run

\* Where an import is at work, and where it is before ingest would tell the lock.
Underway == {"fetch", "check", "wipe", "extract", "ingest", "entry"}
Unpacking == {"check", "wipe", "extract"}

\* The package of an import is in the lock by the time that it is entered: it was found
\* there, or ingest has put it there.  A member with its name and version may have replaced it.
Held(p) == locked[p] = "object" \/ TakenOver(p)

\* How an import goes on with the package that it has.
Onward(c) ==
    /\ at[c].pc \in Underway \ {"entry"} /\ UNCHANGED loaded
    /\ at'[c].of = at[c].of /\ at'[c].sub = at[c].sub
    /\ at'[c].pc \in (Underway \ {"fetch"}) \cup {"broken"}
    /\ at'[c].pc \in Unpacking /\ ~at'[c].fetched => at[c].pc \in Unpacking /\ ~at[c].fetched
    /\ at'[c].pc = "entry" => \/ at[c].pc \in Unpacking /\ ~at[c].fetched
                              \/ locked' = [locked EXCEPT ![Target(c)] = "object"]
    /\ UNCHANGED locked \/ locked' = [locked EXCEPT ![Target(c)] = "object"]

LEMMA OnwardIs ==
    ASSUME StageInv, NEW c \in Calls, c.via = "import",
           Fetch(c) \/ Check(c) \/ Wipe(c) \/ Extract(c) \/ ExtractFails(c) \/ RemovalFails(c)
           \/ Ingest(c)
    PROVE  Onward(c)
<1>1. at \in [Calls -> CallType]
  BY DEF StageInv, TypeInv
<1>2. ASSUME NEW how, Ends(c, how)
      PROVE  /\ at'[c].pc = how /\ at'[c].of = at[c].of /\ at'[c].sub = at[c].sub
             /\ at'[c].fetched = at[c].fetched
  BY <1>1, <1>2 DEF Ends, CallType
<1>3. AfterUnpack(c) = IF at[c].fetched THEN "ingest" ELSE "entry"
  BY <1>1 DEF AfterUnpack, CallType
<1>4. CASE Fetch(c)
  <2>1. /\ UNCHANGED <<loaded, locked>> /\ at[c].pc = "fetch"
        /\ at' = [at EXCEPT ![c].pc = "check", ![c].fetched = TRUE]
    BY <1>4 DEF Fetch
  <2>2. /\ at'[c].pc = "check" /\ at'[c].fetched
        /\ at'[c].of = at[c].of /\ at'[c].sub = at[c].sub
    BY <1>1, <2>1 DEF CallType
  <2> QED BY <2>1, <2>2 DEF Onward, Underway, Unpacking
<1>5. CASE Check(c)
  <2>1. /\ UNCHANGED <<loaded, locked>> /\ at[c].pc = "check"
        /\ Ends(c, IF Unpacked(c) THEN AfterUnpack(c) ELSE "wipe")
    BY <1>5 DEF Check, Shared
  <2>2. /\ at'[c].pc \in {AfterUnpack(c), "wipe"} /\ at'[c].fetched = at[c].fetched
        /\ at'[c].of = at[c].of /\ at'[c].sub = at[c].sub
    BY <1>2, <2>1
  <2> QED BY <1>3, <2>1, <2>2 DEF Onward, Underway, Unpacking
<1>6. CASE Wipe(c)
  <2>1. /\ UNCHANGED <<loaded, locked>> /\ at[c].pc = "wipe"
        /\ at' = [at EXCEPT ![c].pc = "extract", ![c].pos = 0]
    BY <1>6 DEF Wipe, Shared
  <2>2. /\ at'[c].pc = "extract" /\ at'[c].fetched = at[c].fetched
        /\ at'[c].of = at[c].of /\ at'[c].sub = at[c].sub
    BY <1>1, <2>1 DEF CallType
  <2> QED BY <2>1, <2>2 DEF Onward, Underway, Unpacking
<1>7. CASE Extract(c)
  <2> DEFINE last == at[c].pos + 1 = Len(Here.packages[Target(c)].archive)
  <2>1. /\ UNCHANGED <<loaded, locked>> /\ at[c].pc = "extract"
        /\ at' = [at EXCEPT ![c].pos = @ + 1, ![c].pc = IF last THEN AfterUnpack(c) ELSE @]
    BY <1>7 DEF Extract, Shared
  <2> HIDE DEF last
  <2>2. /\ at'[c].pc \in {AfterUnpack(c), "extract"} /\ at'[c].fetched = at[c].fetched
        /\ at'[c].of = at[c].of /\ at'[c].sub = at[c].sub
    BY <1>1, <2>1 DEF CallType
  <2> QED BY <1>3, <2>1, <2>2 DEF Onward, Underway, Unpacking
<1>8. CASE ExtractFails(c) \/ RemovalFails(c)
  <2>1. UNCHANGED <<loaded, locked>> /\ at[c].pc \in {"wipe", "extract"} /\ Ends(c, "broken")
    BY <1>8 DEF ExtractFails, RemovalFails, Shared
  <2> QED BY <1>2, <2>1 DEF Onward, Underway, Unpacking
<1>9. CASE Ingest(c)
  <2>1. /\ UNCHANGED loaded /\ at[c].pc = "ingest" /\ Ends(c, "entry")
        /\ locked' = [locked EXCEPT ![Target(c)] = "object"]
    BY <1>9 DEF Ingest
  <2> QED BY <1>2, <2>1 DEF Onward, Underway, Unpacking
<1> QED BY <1>4, <1>5, <1>6, <1>7, <1>8, <1>9

Outcomes == {"unfound", "directory", "done"}

\* An import that is entered loads what it has.
Enters(c) ==
    /\ at[c].pc = "entry" /\ UNCHANGED locked
    /\ at'[c].of = at[c].of /\ at'[c].sub = at[c].sub
    /\ at'[c].pc \in Outcomes \cup {"corrupt"} /\ loaded' \subseteq loaded \cup {at[c].of}
    /\ at'[c].pc = "done" =>
         /\ at'[c].file # NoFile
         /\ at'[c].file = ResolvePackageEntry(Tree(at[c].of), Described(Here, at[c].of).json,
                                              at[c].sub, NormalizeConditions(Asked))

LEMMA EntersIs == ASSUME StageInv, NEW c \in Calls, Entry(c) PROVE Enters(c)
<1> DEFINE owner == at[c].of
           found == ResolvePackageEntry(Tree(owner), Described(Here, owner).json, at[c].sub,
                                        NormalizeConditions(Asked))
           pc_1 == IF Manifest \notin Tree(owner) THEN "corrupt" ELSE Outcome(found)
           file_1 == IF pc_1 = "done" THEN found ELSE NoFile
           whole == Tree(owner) = Described(Here, owner).files
<1>1. /\ UNCHANGED locked /\ at[c].pc = "entry" /\ loaded' \subseteq loaded \cup {owner}
      /\ at' = [at EXCEPT ![c].pc = pc_1, ![c].file = file_1, ![c].whole = whole]
  BY DEF Entry, Shared
<1>2. pc_1 \in Outcomes \cup {"corrupt"}
  BY DEF Outcome, Outcomes
<1>3. pc_1 = "done" => file_1 = found /\ found # NoFile
  BY DEF Outcome
<1>4. at \in [Calls -> CallType]
  BY DEF StageInv, TypeInv
<1> HIDE DEF pc_1, file_1, whole, found
<1>5. /\ at'[c].pc = pc_1 /\ at'[c].file = file_1 /\ at'[c].of = at[c].of
      /\ at'[c].sub = at[c].sub
  BY <1>1, <1>4 DEF CallType
<1> QED BY <1>1, <1>2, <1>3, <1>5 DEF Enters, found

\* What a request r of an import leads to: nothing, one of the importer's own files, a member,
\* or a package.
Settles(c, r, o, pc) ==
    /\ at'[c].of = o /\ at'[c].pc = pc
    /\ \/ r.kind = "file" /\ o = r.importer /\ pc \in Outcomes /\ UNCHANGED locked
       \/ /\ r.kind = "package" /\ r.range # Undeclared /\ pc = "entry"
          /\ LET m == ResolveWorkspacePackage(Here.members, r.name, r.range)
             IN  m # NoMember /\ o = MemberCode(m) /\ locked' = Remembered(m)
       \/ LET choice == Choice(Here, mode, locked, store, r.name, r.range)
              p == <<r.name, choice.version>>
          IN  /\ r.kind = "package" /\ r.range # Undeclared /\ UNCHANGED locked
              /\ \/ choice.act = "reuse" /\ o = PackageCode(p) /\ pc = "check"
                 \/ choice.act = "member" /\ o = CodeOf(p) /\ pc = "entry"
                 \/ choice.act = "fetch" /\ choice.version # NoVersion /\ o = PackageCode(p)
                       /\ pc = "fetch"

\* Why a request fails.
Fails(c, r) ==
    /\ UNCHANGED locked /\ at'[c].of = at[c].of
    /\ \/ at'[c].pc = "undeclared"
       \/ /\ at'[c].pc = "unresolved" /\ r.kind = "package" /\ Local(c, r)
          /\ ResolveWorkspacePackage(Here.members, r.name, r.range) = NoMember
       \/ /\ at'[c].pc \in {"missing", "unresolved"} /\ r.kind = "package" /\ ~Local(c, r)
          /\ LET act == Choice(Here, mode, locked, store, r.name, r.range).act
             IN  \/ act = "refuse"
                \/ act = "fetch"

LEMMA SettlesIs ==
    ASSUME StageInv, NEW c \in Calls, c.via = "import", NEW r \in Requests(c),
           ImportOwn(c, r) \/ ImportUndeclared(c, r) \/ UseMember(c, r) \/ Resolve(c, r)
    PROVE  UNCHANGED loaded /\ (Fails(c, r) \/ \E o, pc : Settles(c, r, o, pc))
<1>1. at \in [Calls -> CallType]
  BY DEF StageInv, TypeInv
<1>2. ASSUME NEW how, Ends(c, how)
      PROVE  at'[c].pc = how /\ at'[c].of = at[c].of
  BY <1>1, <1>2 DEF Ends, CallType
<1>3. ASSUME NEW o, NEW sub, NEW pc,
             at' = [at EXCEPT ![c].of = o, ![c].sub = sub, ![c].pc = pc]
      PROVE  at'[c].pc = pc /\ at'[c].of = o
  BY <1>1, <1>3 DEF CallType
<1>4. CASE ImportOwn(c, r)
  <2>1. /\ at' = [at EXCEPT ![c].pc = Outcome(r.file), ![c].of = r.importer, ![c].file = r.file]
        /\ r.kind = "file" /\ UNCHANGED <<locked, loaded>>
    BY <1>4 DEF ImportOwn, Shared
  <2>2. at'[c].pc = Outcome(r.file) /\ at'[c].of = r.importer
    BY <1>1, <2>1 DEF CallType
  <2>3. Outcome(r.file) \in Outcomes
    BY DEF Outcome, Outcomes
  <2> QED BY <2>1, <2>2, <2>3 DEF Settles
<1>5. CASE ImportUndeclared(c, r)
  <2>1. Ends(c, "undeclared") /\ UNCHANGED <<locked, loaded>>
    BY <1>5 DEF ImportUndeclared, Shared
  <2> QED BY <1>2, <2>1 DEF Fails
<1>6. CASE UseMember(c, r)
  <2> DEFINE m == ResolveWorkspacePackage(Here.members, r.name, r.range)
  <2>1. /\ r.kind = "package" /\ r.range # Undeclared /\ Local(c, r) /\ UNCHANGED loaded
        /\ IF m = NoMember
           THEN Ends(c, "unresolved") /\ UNCHANGED locked
           ELSE /\ locked' = Remembered(m)
                /\ at' = [at EXCEPT ![c].of = MemberCode(m), ![c].sub = r.sub, ![c].pc = "entry"]
    BY <1>6 DEF UseMember
  <2>2. CASE m = NoMember
    BY <1>2, <2>1, <2>2 DEF Fails
  <2>3. CASE m # NoMember
    <3> DEFINE o == MemberCode(m)
    <3>0. at' = [at EXCEPT ![c].of = o, ![c].sub = r.sub, ![c].pc = "entry"]
      BY <2>1, <2>3
    <3> HIDE DEF m, o
    <3>1. at'[c].pc = "entry" /\ at'[c].of = o
      BY <1>3, <3>0
    <3> USE DEF o
    <3>2. Settles(c, r, MemberCode(m), "entry")
      BY <2>1, <2>3, <3>1 DEF Settles, m
    <3> QED BY <2>1, <3>2
  <2> QED BY <2>2, <2>3
<1>7. CASE Resolve(c, r)
  <2> DEFINE choice == Choice(Here, mode, locked, store, r.name, r.range)
             p == <<r.name, choice.version>>
  <2>1. /\ r.kind = "package" /\ r.range # Undeclared /\ ~Local(c, r)
        /\ UNCHANGED <<locked, loaded>>
        /\ CASE choice.act = "refuse" -> Ends(c, "missing")
             [] choice.act = "member" ->
                  at' = [at EXCEPT ![c].of = CodeOf(p), ![c].sub = r.sub, ![c].pc = "entry"]
             [] choice.act = "fetch" /\ choice.version = NoVersion -> Ends(c, "unresolved")
             [] OTHER -> at' = [at EXCEPT ![c].of = PackageCode(p), ![c].sub = r.sub,
                                          ![c].pc = IF choice.act = "reuse" THEN "check" ELSE "fetch"]
    BY <1>7 DEF Resolve, Shared
  <2>2. choice.act \in {"reuse", "member", "refuse", "fetch"}
    BY ChoiceIs
  <2>3. CASE choice.act = "refuse" \/ (choice.act = "fetch" /\ choice.version = NoVersion)
    <3>1. \E how \in {"missing", "unresolved"} : Ends(c, how)
      BY <2>1, <2>3
    <3>2. at'[c].pc \in {"missing", "unresolved"} /\ at'[c].of = at[c].of
      BY <1>2, <3>1
    <3> QED BY <2>1, <2>3, <3>2 DEF Fails
  <2>4. CASE choice.act = "member"
    <3>1. at' = [at EXCEPT ![c].of = CodeOf(p), ![c].sub = r.sub, ![c].pc = "entry"]
      BY <2>1, <2>4
    <3>2. at'[c].pc = "entry" /\ at'[c].of = CodeOf(p)
      <4> HIDE DEF p
      <4> QED BY <1>3, <3>1
    <3>3. Settles(c, r, CodeOf(p), "entry")
      BY <2>1, <2>4, <3>2 DEF Settles
    <3> QED BY <2>1, <3>3
  <2>5. CASE choice.act = "reuse"
    <3>1. at' = [at EXCEPT ![c].of = PackageCode(p), ![c].sub = r.sub, ![c].pc = "check"]
      BY <2>1, <2>5
    <3>2. at'[c].pc = "check" /\ at'[c].of = PackageCode(p)
      <4> HIDE DEF p
      <4> QED BY <1>3, <3>1
    <3>3. Settles(c, r, PackageCode(p), "check")
      BY <2>1, <2>5, <3>2 DEF Settles
    <3> QED BY <2>1, <3>3
  <2>6. CASE choice.act = "fetch" /\ choice.version # NoVersion
    <3>1. at' = [at EXCEPT ![c].of = PackageCode(p), ![c].sub = r.sub, ![c].pc = "fetch"]
      BY <2>1, <2>6
    <3>2. at'[c].pc = "fetch" /\ at'[c].of = PackageCode(p)
      <4> HIDE DEF p
      <4> QED BY <1>3, <3>1
    <3>3. Settles(c, r, PackageCode(p), "fetch")
      BY <2>1, <2>6, <3>2 DEF Settles
    <3> QED BY <2>1, <3>3
  <2> QED BY <2>2, <2>3, <2>4, <2>5, <2>6
<1> QED BY <1>4, <1>5, <1>6, <1>7

\* All code of a package that runs, and all that is about to, is of a package that is Held.
HeldInv ==
    ~rewritten =>
        /\ \A o \in loaded : o[1] = "package" => Held(PackageOf(o))
        /\ \A n \in Names : modules[n].of[1] = "package" => Held(PackageOf(modules[n].of))
        /\ \A c \in Calls :
              /\ c.via = "import" /\ at[c].of[1] = "package"
              /\ at[c].pc = "entry" \/ (at[c].pc \in Unpacking /\ ~at[c].fetched)
              => Held(Target(c))

\* A call only puts packages and members into the lock.
LEMMA HeldStays ==
    ASSUME StageInv, world' = world, NEW p \in Packages, Held(p),
           \/ UNCHANGED locked
           \/ \E q : locked' = [locked EXCEPT ![q] = "object"]
           \/ \E i \in DOMAIN Here.members : locked' = Remembered(Here.members[i])
    PROVE  Held(p)'
<1>1. TakenOver(p) => TakenOver(p)'
  BY DEF TakenOver, Here
<1>2. locked \in [Packages -> Entries]
  BY DEF StageInv, TypeInv, Honest
<1>3. ASSUME NEW q, locked' = [locked EXCEPT ![q] = "object"], locked[p] = "object"
      PROVE  locked'[p] = "object"
  BY <1>2, <1>3
<1>4. ASSUME NEW i \in DOMAIN Here.members, locked' = Remembered(Here.members[i]), locked[p] = "object"
      PROVE  locked'[p] = "object" \/ TakenOver(p)
  <2>1. PICK q : q = <<Here.members[i].name, Here.members[i].version>>
    OBVIOUS
  <2>2. CASE q = p
    BY <2>1, <2>2 DEF TakenOver
  <2>3. CASE q # p
    BY <1>2, <1>4, <2>1, <2>3 DEF Remembered
  <2> QED BY <2>2, <2>3
<1> QED BY <1>1, <1>3, <1>4 DEF Held

\* How the steps of calls write the lock.
LEMMA LockWrites ==
    ASSUME StageInv, NEW c \in Calls, Call(c) \/ OutsiderStarts(c) \/ OutsiderDies(c)
    PROVE  \/ UNCHANGED locked
           \/ at[c].pc = "ingest" /\ \E q : locked' = [locked EXCEPT ![q] = "object"]
           \/ \E i \in DOMAIN Here.members : locked' = Remembered(Here.members[i])
<1>1. CASE Ingest(c)
  BY <1>1 DEF Ingest
<1>2. ASSUME NEW r \in Requests(c), UseMember(c, r)
      PROVE  UNCHANGED locked \/ \E i \in DOMAIN Here.members : locked' = Remembered(Here.members[i])
  <2> DEFINE n == r.name
             range == IF c.via = "prefetch" THEN Undeclared ELSE r.range
             m == ResolveWorkspacePackage(Here.members, n, range)
  <2>1. UNCHANGED locked \/ (m # NoMember /\ locked' = Remembered(m))
    BY <1>2 DEF UseMember
  <2>2. IsSequence(Here.members)
    BY MemberFacts DEF StageInv, TypeInv, TearInv, Shape
  <2> HIDE DEF n, range
  <2>3. m = NoMember \/ \E i \in DOMAIN Here.members : m = Here.members[i]
    BY <2>2, MemberChosen
  <2> QED BY <2>1, <2>3
<1>3. CASE ~Ingest(c) /\ ~\E r \in Requests(c) : UseMember(c, r)
  BY <1>3 DEF Call, Require, Fetch, Check, Wipe, Extract, ExtractFails, RemovalFails, Entry,
              ImportOwn, ImportUndeclared, Resolve, OutsiderStarts, OutsiderDies, Shared
<1> QED BY <1>1, <1>2, <1>3

\* What code is of: a package that exists, or none.
LEMMA PackagesAre ==
    ASSUME world \in Worlds, NEW o, o = Nowhere \/ Real(o), o[1] = "package"
    PROVE  PackageOf(o) \in Packages /\ o = PackageCode(PackageOf(o))
<1>1. o # Nowhere /\ o \notin {Project, Prefetching, Outsider} /\ \A m : o # MemberCode(m)
  BY KindsOfOwners
<1> QED BY <1>1, WorldFacts DEF Real

LEMMA CodeOfHeld == ASSUME NEW p \in Packages, CodeOf(p)[1] = "package" PROVE Held(PackageOf(CodeOf(p)))
<1>1. locked[p] = "object"
  BY KindsOfOwners DEF CodeOf
<1>2. p = <<p[1], p[2]>>
  BY DEF Packages
<1>3. PackageOf(CodeOf(p)) = p
  BY <1>1, <1>2 DEF CodeOf, PackageCode, PackageOf
<1> QED BY <1>1, <1>3 DEF Held

LEMMA LoadsOnly ==
    ASSUME StageInv, NEW c \in Calls, Call(c) \/ OutsiderStarts(c) \/ OutsiderDies(c),
           NEW o \in loaded', o \notin loaded
    PROVE  \/ \E n \in Names : o = modules[n].of
           \/ o = at[c].of /\ at[c].pc = "entry" /\ c.via = "import"
<1>1. CASE Require(c)
  <2>1. c.spec.sub = Root /\ o = modules[c.spec.name].of
    BY <1>1 DEF Require
  <2>2. c.spec.name \in Names
    BY <2>1, CallTypes DEF StageInv, TypeInv, TearInv, Shape
  <2> QED BY <2>1, <2>2
<1>2. CASE Entry(c)
  <2>1. o = at[c].of /\ at[c].pc = "entry"
    BY <1>2, EntersIs DEF Enters
  <2>2. CallStage(c) /\ c.via \in {"import", "require", "prefetch", "outside"}
    BY CallTypes DEF StageInv, TypeInv, TearInv, Shape
  <2> QED BY <2>1, <2>2 DEF CallStage, Ended
<1>3. CASE ~Require(c) /\ ~Entry(c)
  BY <1>3 DEF Call, Fetch, Check, Wipe, Extract, ExtractFails, RemovalFails, Ingest,
              ImportOwn, ImportUndeclared, UseMember, Resolve, OutsiderStarts, OutsiderDies
<1> QED BY <1>1, <1>2, <1>3

\* Where a step of an import leaves the package that it is at.
LEMMA ImportHeld ==
    ASSUME StageInv, TypeInv', HeldInv, NEW c \in Calls, c.via = "import", Call(c), ~rewritten,
           world' = world, at'[c].of[1] = "package",
           at'[c].pc = "entry" \/ (at'[c].pc \in Unpacking /\ ~at'[c].fetched)
    PROVE  Held(Target(c))'
<1>1. world \in Worlds /\ world' \in Worlds /\ at \in [Calls -> CallType] /\ Calls' = Calls
  BY DEF StageInv, TypeInv, TearInv, Shape, Calls, Here
<1>2. (at[c].of = Nowhere \/ Real(at[c].of)) /\ (at'[c].of = Nowhere \/ Real(at'[c].of))
  <2>1. (at[c].of = Nowhere \/ Real(at[c].of))'
    BY <1>1 DEF TypeInv, Place
  <2>2. at'[c].of = Nowhere \/ Real(at'[c].of)
    BY <2>1 DEF Real, KnownHere, Here, Stored
  <2> QED BY <2>2 DEF StageInv, TypeInv, Place
<1>3. Target(c)' = PackageOf(at'[c].of) /\ PackageOf(at'[c].of) \in Packages
  BY <1>1, <1>2, PackagesAre DEF Target
<1>4. ASSUME NEW p \in Packages, Held(p) PROVE Held(p)'
  BY <1>4, HeldStays, LockWrites
<1>5. CASE Onward(c)
  <2>1. at'[c].of = at[c].of /\ Target(c) \in Packages /\ Target(c)' = Target(c)
    BY <1>3, <1>5 DEF Onward, Target
  <2>2. CASE at[c].pc \in Unpacking /\ ~at[c].fetched
    BY <1>4, <2>1, <2>2 DEF HeldInv
  <2>3. CASE locked' = [locked EXCEPT ![Target(c)] = "object"]
    <3>1. locked'[Target(c)] = "object"
      BY <2>1, <2>3 DEF StageInv, TypeInv, Honest
    <3> QED BY <2>1, <3>1 DEF Held
  <2> QED BY <1>5, <2>2, <2>3 DEF Onward, Unpacking
<1>6. CASE Enters(c)
  BY <1>6 DEF Enters, Outcomes, Unpacking
<1>7. ASSUME NEW r, Fails(c, r) PROVE Held(Target(c))'
  BY <1>7 DEF Fails, Unpacking
<1>8. ASSUME NEW r \in Requests(c), NEW o, NEW pc, Settles(c, r, o, pc) PROVE Held(Target(c))'
  <2> DEFINE m == ResolveWorkspacePackage(Here.members, r.name, r.range)
             choice == Choice(Here, mode, locked, store, r.name, r.range)
             p == <<r.name, choice.version>>
  <2>1. at'[c].of = o /\ at'[c].pc = pc
    BY <1>8 DEF Settles
  <2>2. CASE pc \in Outcomes
    BY <2>1, <2>2 DEF Outcomes, Unpacking
  <2>3. CASE o = MemberCode(m)
    BY <2>1, <2>3, KindsOfOwners
  <2>4. CASE choice.act = "reuse" /\ o = PackageCode(p)
    <3>1. locked[p] = "object"
      BY <2>4, ChoiceFound
    <3>2. PackageOf(o) = p
      BY <2>4 DEF PackageOf, PackageCode
    <3> HIDE DEF p
    <3> QED BY <1>3, <1>4, <2>1, <3>1, <3>2 DEF Held
  <2>5. CASE choice.act = "member" /\ o = CodeOf(p)
    <3>1. locked[p] = "workspace"
      BY <2>5, ChoiceFound
    <3> QED BY <2>1, <2>5, <3>1 DEF CodeOf
  <2>6. CASE pc = "fetch"
    BY <2>1, <2>6 DEF Unpacking
  <2> QED BY <1>8, <2>2, <2>3, <2>4, <2>5, <2>6 DEF Settles
<1> QED
  <2>1. ~Require(c)
    BY DEF Require
  <2>2. CASE Fetch(c) \/ Check(c) \/ Wipe(c) \/ Extract(c) \/ ExtractFails(c) \/ RemovalFails(c)
            \/ Ingest(c)
    BY <1>5, <2>2, OnwardIs
  <2>3. CASE Entry(c)
    BY <1>6, <2>3, EntersIs
  <2>4. ASSUME NEW r \in Requests(c),
               ImportOwn(c, r) \/ ImportUndeclared(c, r) \/ UseMember(c, r) \/ Resolve(c, r)
        PROVE  Held(Target(c))'
    BY <1>7, <1>8, <2>4, SettlesIs
  <2> QED BY <2>1, <2>2, <2>3, <2>4 DEF Call

LEMMA HeldCalls ==
    ASSUME StageInv, TypeInv', HeldInv, NEW c \in Calls,
           Call(c) \/ OutsiderStarts(c) \/ OutsiderDies(c)
    PROVE  HeldInv'
<1> SUFFICES ASSUME ~rewritten' PROVE HeldInv'
  BY DEF HeldInv
<1>1. UNCHANGED <<Rest, file>> /\ \A d \in Calls \ {c} : at'[d] = at[d]
  BY CallMoves
<1>2. ~rewritten /\ world \in Worlds /\ UNCHANGED <<world, modules>> /\ Calls' = Calls
  BY <1>1 DEF Rest, Calls, Here, StageInv, TypeInv, TearInv, Shape
<1>3. ASSUME NEW p \in Packages, Held(p) PROVE Held(p)'
  BY <1>2, <1>3, HeldStays, LockWrites
<1>4. ASSUME NEW n \in Names, modules[n].of[1] = "package" PROVE Held(PackageOf(modules[n].of))'
  <2>1. PICK o : o = modules[n].of
    OBVIOUS
  <2>2. PackageOf(o) \in Packages /\ Held(PackageOf(o))
    BY <1>2, <1>4, <2>1, PackagesAre DEF StageInv, TypeInv, HeldInv
  <2>3. Held(PackageOf(o))'
    BY <1>3, <2>2
  <2> QED BY <1>2, <2>1, <2>3
<1>5. ASSUME NEW o \in loaded', o[1] = "package" PROVE Held(PackageOf(o))'
  <2>1. CASE o \in loaded
    <3>1. PackageOf(o) \in Packages /\ Held(PackageOf(o))
      BY <1>2, <1>5, <2>1, PackagesAre DEF StageInv, TypeInv, HeldInv
    <3> QED BY <1>3, <3>1
  <2>2. ASSUME NEW n \in Names, o = modules[n].of PROVE Held(PackageOf(o))'
    BY <1>2, <1>4, <1>5, <2>2
  <2>3. CASE o = at[c].of /\ at[c].pc = "entry" /\ c.via = "import"
    <3>1. o = Nowhere \/ Real(o)
      BY <2>3 DEF StageInv, TypeInv, Place
    <3>2. PackageOf(o) \in Packages
      BY <1>2, <1>5, <3>1, PackagesAre
    <3>3. Held(PackageOf(o))
      BY <1>2, <1>5, <2>3 DEF HeldInv, Target
    <3> QED BY <1>3, <3>2, <3>3
  <2> QED BY <2>1, <2>2, <2>3, LoadsOnly
<1>6. ASSUME NEW d \in Calls, d.via = "import", at'[d].of[1] = "package",
             at'[d].pc = "entry" \/ (at'[d].pc \in Unpacking /\ ~at'[d].fetched)
      PROVE  Held(Target(d))'
  <2>1. CASE d = c
    <3>1. Call(c)
      BY <1>2, <1>6, <2>1, CallTypes DEF OutsiderStarts, OutsiderDies
    <3> QED BY <1>2, <1>6, <2>1, <3>1, ImportHeld
  <2>2. CASE d # c
    <3>1. at'[d] = at[d]
      BY <1>1, <2>2
    <3>2. at[d].of = Nowhere \/ Real(at[d].of)
      BY DEF StageInv, TypeInv, Place
    <3>3. PICK p : p = Target(d)
      OBVIOUS
    <3>4. p \in Packages /\ Held(p)
      BY <1>2, <1>6, <3>1, <3>2, <3>3, PackagesAre DEF Target, HeldInv
    <3>5. Target(d)' = p
      BY <3>1, <3>3 DEF Target
    <3> QED BY <1>3, <3>4, <3>5
  <2> QED BY <2>1, <2>2
<1> QED BY <1>2, <1>4, <1>5, <1>6 DEF HeldInv

\* Until the program runs, no import does.
LEMMA HeldEarly ==
    ASSUME StageInv, phase \in {"snapshot", "start", "prefetch"}, UNCHANGED <<world, at, modules>>,
           loaded' \subseteq loaded \cup {Prefetching}
    PROVE  HeldInv'
<1>1. \A o \in loaded' : o[1] # "package"
  BY KindsOfOwners DEF StageInv
<1>2. \A n \in Names : modules'[n].of[1] # "package"
  BY KindsOfOwners DEF StageInv
<1>3. \A c \in Calls : c.via = "import" => at'[c].pc = "idle"
  BY DEF StageInv, CallStage
<1>4. Calls' = Calls
  BY DEF Calls, Here
<1> QED BY <1>1, <1>2, <1>3, <1>4 DEF HeldInv, Unpacking

LEMMA HeldInit == Init => HeldInv
<1> SUFFICES ASSUME Init PROVE HeldInv
  OBVIOUS
<1>1. \A c \in Calls : at[c].pc = "idle"
  BY DEF Init, Waiting
<1>2. \A n \in Names : modules[n].of[1] # "package"
  BY KindsOfOwners DEF Init
<1>3. \A o \in loaded : o[1] # "package"
  BY KindsOfOwners DEF Init
<1> QED BY <1>1, <1>2, <1>3 DEF HeldInv, Unpacking

LEMMA HeldStep == StageInv /\ HeldInv /\ [Next]_vars => HeldInv'
<1> SUFFICES ASSUME StageInv, HeldInv, [Next]_vars PROVE HeldInv'
  OBVIOUS
<1>1. StageInv' /\ TypeInv' /\ world \in Worlds
  BY StageStep DEF StageInv, TypeInv, TearInv, Shape
<1>2. ASSUME NEW c \in Calls, Call(c) \/ OutsiderStarts(c) \/ OutsiderDies(c) PROVE HeldInv'
  BY <1>1, <1>2, HeldCalls
<1>3. CASE Snapshot \/ StartRun \/ PrefetchEnds
  <2>1. /\ UNCHANGED <<world, modules, at>> /\ phase \in {"snapshot", "start", "prefetch"}
        /\ loaded' \subseteq loaded \cup {Prefetching}
    BY <1>3 DEF Snapshot, Skip, VisitMember, Visit, SnapshotEnds, StartRun, PrefetchEnds
  <2> QED BY <2>1, HeldEarly
<1>4. CASE BuildMap
  <2>1. /\ UNCHANGED <<world, locked, loaded, at, rewritten>> /\ phase = "map"
        /\ \A n \in Names : modules'[n].of = LastOffering(n)
    BY <1>4 DEF BuildMap, History, Shared
  <2>2. \A o \in loaded : o[1] # "package"
    BY <2>1, KindsOfOwners DEF StageInv
  <2>3. \A c \in Calls : c.via = "import" => at[c].pc = "idle"
    BY <2>1 DEF StageInv, CallStage
  <2>4. ASSUME NEW n \in Names, LastOffering(n)[1] = "package" PROVE Held(PackageOf(LastOffering(n)))
    <3>1. \A v \in Versions : <<n, v>> \in Packages
      BY DEF Packages
    <3>2. PICK p \in Packages : LastOffering(n) = CodeOf(p)
      BY <2>4, <3>1, LastOfferingReal, KindsOfOwners DEF StageInv
    <3> QED BY <2>4, <3>2, CodeOfHeld
  <2>5. ASSUME NEW n \in Names, modules'[n].of[1] = "package" PROVE Held(PackageOf(modules[n].of))'
    <3>1. PICK p : p = PackageOf(LastOffering(n))
      OBVIOUS
    <3>2. Held(p)
      BY <2>1, <2>4, <2>5, <3>1
    <3>3. Held(p)'
      BY <2>1, <3>2 DEF Held, TakenOver, Here
    <3>4. PackageOf(modules'[n].of) = p
      BY <2>1, <3>1
    <3> QED BY <3>3, <3>4
  <2>6. Calls' = Calls
    BY <2>1 DEF Calls, Here
  <2> QED BY <2>1, <2>2, <2>3, <2>5, <2>6 DEF HeldInv, Unpacking
<1>5. CASE ChildOpens \/ ProgramEnds \/ UNCHANGED vars
  <2>1. /\ UNCHANGED <<world, modules, at, rewritten>> /\ loaded' \subseteq loaded \cup {Project}
        /\ UNCHANGED locked \/ (phase = "spawn" /\ locked' = file)
    BY <1>5 DEF ChildOpens, ProgramEnds, vars, Shared, History
  <2>2. ~rewritten => UNCHANGED locked
    BY <2>1 DEF StageInv
  <2>3. \A p : Held(p) /\ ~rewritten => Held(p)'
    BY <2>1, <2>2 DEF Held, TakenOver, Here
  <2>4. Calls' = Calls
    BY <2>1 DEF Calls, Here
  <2>5. ASSUME NEW o \in loaded', o[1] = "package", ~rewritten PROVE Held(PackageOf(o))'
    <3>1. o \in loaded
      BY <2>1, <2>5, KindsOfOwners
    <3> QED BY <2>3, <2>5, <3>1 DEF HeldInv
  <2>6. ASSUME NEW n \in Names, modules[n].of[1] = "package", ~rewritten
        PROVE  Held(PackageOf(modules[n].of))'
    <3>1. PICK p : p = PackageOf(modules[n].of)
      OBVIOUS
    <3>2. Held(p)'
      BY <2>3, <2>6, <3>1 DEF HeldInv
    <3> QED BY <2>1, <3>1, <3>2
  <2>7. ASSUME NEW d \in Calls, d.via = "import", at[d].of[1] = "package", ~rewritten,
               at[d].pc = "entry" \/ (at[d].pc \in Unpacking /\ ~at[d].fetched)
        PROVE  Held(Target(d))'
    <3>1. PICK p : p = Target(d)
      OBVIOUS
    <3>2. Held(p)'
      BY <2>3, <2>7, <3>1 DEF HeldInv
    <3>3. Target(d)' = p
      BY <2>1, <3>1 DEF Target
    <3> QED BY <3>2, <3>3
  <2> QED BY <2>1, <2>4, <2>5, <2>6, <2>7 DEF HeldInv
<1>6. CASE Rewrite
  BY <1>6 DEF Rewrite, HeldInv
<1>7. CASE Over
  BY <1>5, <1>7 DEF Over
<1> QED BY <1>2, <1>3, <1>4, <1>5, <1>6, <1>7 DEF Next, Run

------------------------------------------------------------------------------
(* What an importer has declared *)

LEMMA FirstOfThree == ASSUME NEW no, NEW a, NEW b, NEW d PROVE FirstBut(no, <<a, b, d>>) \in {no, a, b, d}
<1> DEFINE s == <<a, b, d>>
<1>1. DOMAIN s = 1 .. 3 /\ s[1] = a /\ s[2] = b /\ s[3] = d
  OBVIOUS
<1> HIDE DEF s
<1>2. DOMAIN s \subseteq Nat /\ \A i \in DOMAIN s : s[i] \in {a, b, d}
  BY <1>1
<1>3. FirstBut(no, s) = no \/ \E i \in DOMAIN s : FirstBut(no, s) = s[i]
  BY <1>2, FirstButFinds
<1> QED BY <1>2, <1>3 DEF s

Listed(list) == {<<n, list[n]>> : n \in DOMAIN list}

LEMMA AtListed == ASSUME NEW list, NEW n, At(list, n) # Undeclared PROVE <<n, At(list, n)>> \in Listed(list)
BY DEF At, Listed

LEMMA DeclaredIs ==
    ASSUME NEW o
    PROVE  LET d == Described(Here, o) IN
           /\ \A list \in {d.dependencies, d.development, d.optional, d.peers} :
                 Listed(list) \subseteq Declared(o)
           /\ \A list \in {Here.project.dependencies, Here.project.optional} :
                 \A spec \in Listed(list) : spec[1] \in DOMAIN d.peers => spec \in Declared(o)
BY DEF Declared, Listed

LEMMA RangeDeclared ==
    ASSUME NEW o, NEW n, RangeForImporter(Here, o, n) # Undeclared
    PROVE  <<n, RangeForImporter(Here, o, n)>> \in Declared(o)
<1> DEFINE d == Described(Here, o)
           importer == Importer(Here, o)
           peer == IF n \in DOMAIN importer.peers
                   THEN FirstBut(Undeclared, <<At(Here.project.dependencies, n),
                                               At(Here.project.optional, n), importer.peers[n]>>)
                   ELSE Undeclared
           range == RangeForImporter(Here, o, n)
<1>1. range \in {Undeclared, At(importer.dependencies, n), At(importer.optional, n), peer}
  BY FirstOfThree DEF RangeForImporter
<1>2. ASSUME At(importer.dependencies, n) # Undeclared
      PROVE  <<n, At(importer.dependencies, n)>> \in Declared(o)
  <2>1. CASE importer.dependencies = d.dependencies
    BY <1>2, <2>1, AtListed, DeclaredIs
  <2>2. CASE o = Project
    <3> DEFINE deps == d.dependencies
               dev == d.development
               both == [k \in DOMAIN deps \cup DOMAIN dev |-> IF k \in DOMAIN deps THEN deps[k] ELSE dev[k]]
    <3>1. importer.dependencies = both
      BY <2>2 DEF Importer
    <3>2. <<n, At(both, n)>> \in Listed(deps) \cup Listed(dev)
      <4>1. At(both, n) # Undeclared
        BY <1>2, <3>1
      <4> HIDE DEF deps, dev
      <4> QED BY <4>1 DEF At, Listed
    <3> HIDE DEF both
    <3> QED BY <3>1, <3>2, DeclaredIs
  <2> QED BY <2>1, <2>2 DEF Importer
<1>3. ASSUME At(importer.optional, n) # Undeclared
      PROVE  <<n, At(importer.optional, n)>> \in Declared(o)
  <2>1. importer.optional = d.optional
    BY DEF Importer
  <2> QED BY <1>3, <2>1, AtListed, DeclaredIs
<1>4. ASSUME peer # Undeclared PROVE <<n, peer>> \in Declared(o)
  <2>1. n \in DOMAIN importer.peers /\ importer.peers = d.peers
    BY <1>4 DEF Importer, None
  <2>2. peer \in {Undeclared, At(Here.project.dependencies, n), At(Here.project.optional, n),
                  importer.peers[n]}
    BY <2>1, FirstOfThree
  <2>3. CASE peer = importer.peers[n]
    BY <2>1, <2>3, DeclaredIs DEF Listed
  <2>4. CASE peer = At(Here.project.dependencies, n)
    BY <1>4, <2>1, <2>4, AtListed, DeclaredIs
  <2>5. CASE peer = At(Here.project.optional, n)
    BY <1>4, <2>1, <2>5, AtListed, DeclaredIs
  <2> QED BY <1>4, <2>2, <2>3, <2>4, <2>5
<1> HIDE DEF peer, importer, range
<1> QED BY <1>1, <1>2, <1>3, <1>4 DEF range

------------------------------------------------------------------------------
(* What a request of an import takes is declared *)

\* Who is not Mistakable is identified.
LEMMA Identified ==
    ASSUME TypeInv, HeldInv, NEW o \in loaded, ~Mistakable(o), o # Outsider, o # Prefetching
    PROVE  IdentifyImporter(Here, locked, o) = o
<1>1. world \in Worlds /\ Real(o)
  BY DEF TypeInv, TearInv, Shape
<1>2. ~rewritten
  BY DEF Mistakable
<1>3. \/ MemberAround(Here, o) = NoMember
      \/ o[1] = "workspace"
  BY <1>1, MemberAroundIs, MemberFacts
<1>4. CASE o[1] = "workspace"
  <2>1. MemberCode(MemberAround(Here, o)) = o
    BY <1>4 DEF Mistakable
  <2>2. MemberAround(Here, o) # NoMember
    <3>1. o[3] \in Versions
      <4>1. PICK i \in DOMAIN KnownHere : o = MemberCode(KnownHere[i])
        BY <1>1, <1>4, KindsOfOwners DEF Real
      <4>2. o[3] = KnownHere[i].version
        BY <4>1 DEF MemberCode
      <4> QED BY <1>1, <4>2, MemberFacts DEF Packages
    <3>2. MemberCode(NoMember)[3] \notin Versions
      BY VersionsAssumption DEF MemberCode, NoMember, NoVersion
    <3> QED BY <2>1, <3>1, <3>2
  <2> QED BY <2>1, <2>2 DEF IdentifyImporter
<1>5. CASE o[1] = "package"
  <2>1. MemberAround(Here, o) = NoMember
    BY <1>3, <1>5
  <2>2. locked[PackageOf(o)] = "object"
    BY <1>2, <1>5 DEF Mistakable, HeldInv, Held
  <2> QED BY <1>5, <2>1, <2>2 DEF IdentifyImporter
<1>6. CASE o = Project
  BY <1>3, <1>6, KindsOfOwners DEF IdentifyImporter
<1> QED BY <1>1, <1>4, <1>5, <1>6, KindsOfOwners DEF Real

\* The version that is fetched satisfies the range.
LEMMA SelectedSatisfies ==
    ASSUME world \in Worlds, NEW n, NEW r \in Ranges, SelectVersion(Here, n, r) # NoVersion
    PROVE  SelectVersion(Here, n, r) \in Sat[r]
<1> DEFINE published == {v \in Versions : <<n, v>> \in DOMAIN Here.packages}
<1>1. published # {}
  BY DEF SelectVersion
<1>2. CASE r = AnyVersion
  <2>1. SelectVersion(Here, n, r) = Here.tag[n]
    BY <1>1, <1>2 DEF SelectVersion
  <2>2. PICK v \in published : TRUE
    BY <1>1
  <2>3. <<n, Here.tag[n]>> \in Packages
    BY <2>2, WorldFacts, ManifestFacts DEF Stored
  <2> QED BY <1>2, <2>1, <2>3, SatAssumption DEF Packages
<1>3. CASE r # AnyVersion
  <2>1. SelectVersion(Here, n, r) = Highest(published \cap Sat[r])
    BY <1>1, <1>3 DEF SelectVersion
  <2> QED BY <2>1, HighestPicks
<1> QED BY <1>2, <1>3

LEMMA ChoiceSatisfies ==
    ASSUME world \in Worlds, NEW options, NEW n, NEW r \in Ranges,
           LET choice == Choice(Here, options, locked, store, n, r)
           IN  choice.act \in {"reuse", "member"} \/ (choice.act = "fetch" /\ choice.version # NoVersion)
    PROVE  Choice(Here, options, locked, store, n, r).version \in Sat[r]
<1> DEFINE choice == Choice(Here, options, locked, store, n, r)
           v == Reusable(locked, n, r)
           as == IF v = NoVersion THEN "absent" ELSE locked[<<n, v>>]
           sealed == options.frozen \/ options.offline
           stored == as = "object" /\ <<n, v>> \in store
<1>1. CASE choice.act \in {"reuse", "member"}
  BY <1>1, ChoiceFound
<1>2. CASE choice.act = "fetch" /\ choice.version # NoVersion
  <2>1. choice.version = SelectVersion(Here, n, r)
    <3>1. ~stored /\ ~(as = "workspace" /\ sealed) /\ ~(as # "workspace" /\ sealed)
      BY <1>2 DEF Choice
    <3> QED BY <3>1 DEF Choice
  <2> QED BY <1>2, <2>1, SelectedSatisfies
<1> QED BY <1>1, <1>2

\* Ranges are what manifests have for them.
LEMMA DeclaredRanges ==
    ASSUME world \in Worlds, NEW o, Real(o), NEW spec \in Declared(o)
    PROVE  spec[2] \in Ranges
<1> DEFINE d == Described(Here, o)
           lists == {d.dependencies, d.development, d.optional, d.peers}
           here == {Here.project.dependencies, Here.project.optional}
<1>1. lists \subseteq Declarations /\ here \subseteq Declarations
  BY DescribedIs, ManifestFacts DEF IsManifest
<1>2. \A list \in Declarations : \A s \in Listed(list) : s[2] \in Ranges
  BY DEF Listed, Declarations
<1>3. \E list \in lists \cup here : spec \in Listed(list)
  BY DEF Declared, Listed
<1> HIDE DEF lists, here
<1> QED BY <1>1, <1>2, <1>3

\* What a request takes meets what its importer declares.
LEMMA SettlesDeclared ==
    ASSUME StageInv, HeldInv, NEW c \in Calls, c.via = "import", NEW r \in Requests(c),
           NEW o, NEW pc, Settles(c, r, o, pc), ~Mistakable(c.owner)
    PROVE  \/ o = c.owner /\ pc \in Outcomes
           \/ pc \in Underway /\ Declares(c.owner, o)
<1>1. world \in Worlds /\ TypeInv /\ c.owner \in loaded /\ Real(c.owner)
  BY RequestTyped DEF StageInv, TypeInv, TearInv, Shape
<1>2. c.owner # Prefetching /\ c.owner # Outsider
  BY <1>1, CallTypes
<1>3. r.importer = c.owner
  BY <1>1, <1>2, Identified, RequestTyped
<1>4. r.range = RangeForImporter(Here, c.owner, r.name)
  <2>1. r = Request(c, c.owner, Mapped(c, c.owner))
    BY <1>1, <1>3, RequestTyped
  <2>2. PICK x : r = Request(c, c.owner, x)
    BY <2>1
  <2>3. r.range = RangeOf(c, c.owner, x.specifier.name) /\ r.name = x.specifier.name
    BY <2>2 DEF Request
  <2> QED BY <2>3 DEF RangeOf
<1>5. CASE r.kind = "file" /\ o = r.importer /\ pc \in Outcomes
  BY <1>3, <1>5
<1>6. ASSUME r.range # Undeclared
      PROVE  <<r.name, r.range>> \in Declared(c.owner) /\ r.range \in Ranges
  <2>1. <<r.name, r.range>> \in Declared(c.owner)
    BY <1>4, <1>6, RangeDeclared
  <2> QED BY <1>1, <2>1, DeclaredRanges
<1>7. ASSUME r.range # Undeclared, Meets(o, <<r.name, r.range>>) PROVE Declares(c.owner, o)
  BY <1>6, <1>7 DEF Declares
<1>8. ASSUME r.range # Undeclared, pc = "entry",
             LET m == ResolveWorkspacePackage(Here.members, r.name, r.range)
             IN  m # NoMember /\ o = MemberCode(m)
      PROVE  Declares(c.owner, o)
  <2> DEFINE m == ResolveWorkspacePackage(Here.members, r.name, r.range)
  <2>1. PICK i \in DOMAIN Here.members :
            /\ m = Here.members[i]
            /\ m.name = r.name \/ (r.range \in Workspace /\ m.path = PathOf[r.range])
    BY <1>1, <1>8, MemberChosen, MemberFacts
  <2>2. MemberOf(Here, MemberCode(m)) = m
    <3>1. PICK k \in DOMAIN KnownHere : KnownHere[k] = m
      BY <1>1, <2>1, MembersKnown
    <3> QED BY <1>1, <3>1, MemberOfIs, MembersKnown, MemberFacts DEF KnownHere
  <2>3. o[1] = "workspace" /\ o[2] = m.name /\ MemberOf(Here, o) = m
    BY <1>8, <2>2 DEF MemberCode
  <2> HIDE DEF m
  <2>4. Meets(o, <<r.name, r.range>>)
    BY <2>1, <2>3 DEF Meets
  <2> QED BY <1>7, <1>8, <2>4
<1>9. ASSUME r.range # Undeclared,
             LET choice == Choice(Here, mode, locked, store, r.name, r.range)
                 p == <<r.name, choice.version>>
             IN  \/ choice.act = "reuse" /\ o = PackageCode(p)
                 \/ choice.act = "member" /\ o = CodeOf(p)
                 \/ choice.act = "fetch" /\ choice.version # NoVersion /\ o = PackageCode(p)
      PROVE  Declares(c.owner, o)
  <2> DEFINE choice == Choice(Here, mode, locked, store, r.name, r.range)
             p == <<r.name, choice.version>>
  <2>1. r.range \in Ranges
    BY <1>6, <1>9
  <2>2. choice.version \in Sat[r.range]
    <3>1. choice.act \in {"reuse", "member"} \/ (choice.act = "fetch" /\ choice.version # NoVersion)
      BY <1>9
    <3> QED BY <1>1, <2>1, <3>1, ChoiceSatisfies
  <2>3. o[2] = r.name /\ o[3] = choice.version
    <3>1. choice.act = "member" => locked[p] = "workspace"
      BY ChoiceFound
    <3>2. choice.act = "member" => CodeOf(p) = <<"workspace", p[1], p[2]>>
      BY <3>1 DEF CodeOf
    <3>3. p[1] = r.name /\ p[2] = choice.version
      OBVIOUS
    <3>4. o = PackageCode(p) \/ (choice.act = "member" /\ o = CodeOf(p))
      BY <1>9
    <3> HIDE DEF p, choice
    <3> QED BY <3>2, <3>3, <3>4 DEF PackageCode
  <2> HIDE DEF choice
  <2> QED BY <1>7, <1>9, <2>2, <2>3 DEF Meets
<1>10. CASE pc \in Outcomes
  BY <1>5, <1>10 DEF Settles, Outcomes
<1>11. CASE pc \notin Outcomes
  <2>1. r.range # Undeclared /\ pc \in Underway
    BY <1>11 DEF Settles, Underway
  <2> QED BY <1>8, <1>9, <1>11, <2>1 DEF Settles
<1> QED BY <1>10, <1>11

\* What an import is at is declared by its importer, and what it has loaded is published.
LoadsOK(c) ==
    c.via = "import" /\ ~Mistakable(c.owner) =>
        /\ at[c].pc \in Underway => Declares(c.owner, at[c].of)
        /\ at[c].pc = "done" =>
              \/ at[c].of = c.owner
              \/ Declares(c.owner, at[c].of) /\ Published(at[c].of, at[c].sub, at[c].file)

LoadInv == StageInv /\ HeldInv /\ \A c \in Calls : LoadsOK(c)

LEMMA WorldOnly ==
    ASSUME world' = world
    PROVE  /\ \A o, other : Declares(o, other)' <=> Declares(o, other)
           /\ \A o, sub, f : Published(o, sub, f)' <=> Published(o, sub, f)
           /\ \A o : Mistakable(o) /\ (rewritten => rewritten') => Mistakable(o)'
<1>1. Here' = Here
  BY DEF Here
<1>2. \A o, other : Declares(o, other)' <=> Declares(o, other)
  BY <1>1 DEF Declares, Declared, Meets
<1>3. \A o, sub, f : Published(o, sub, f)' <=> Published(o, sub, f)
  BY <1>1 DEF Published
<1>4. \A o : Mistakable(o) /\ (rewritten => rewritten') => Mistakable(o)'
  BY <1>1 DEF Mistakable, TakenOver
<1> QED BY <1>2, <1>3, <1>4

LEMMA LoadsStays ==
    ASSUME world' = world, NEW c, at'[c] = at[c], rewritten => rewritten', LoadsOK(c)
    PROVE  LoadsOK(c)'
<1>1. PICK a : a = at[c]
  OBVIOUS
<1>2. Mistakable(c.owner) => Mistakable(c.owner)'
  BY WorldOnly
<1>3. /\ Declares(c.owner, a.of) => Declares(c.owner, a.of)'
      /\ Published(a.of, a.sub, a.file) => Published(a.of, a.sub, a.file)'
  BY WorldOnly
<1>4. at'[c] = a
  BY <1>1
<1> QED BY <1>1, <1>2, <1>3, <1>4 DEF LoadsOK

LEMMA LoadsMoves ==
    ASSUME LoadInv, NEW c \in Calls, c.via = "import", Call(c), UNCHANGED <<world, rewritten>>
    PROVE  LoadsOK(c)'
<1> SUFFICES ASSUME ~Mistakable(c.owner)' PROVE LoadsOK(c)'
  BY DEF LoadsOK
<1>1. ~Mistakable(c.owner) /\ LoadsOK(c) /\ StageInv /\ HeldInv
  BY WorldOnly DEF LoadInv
<1>2. world \in Worlds /\ Place(c) /\ at[c].sub \in STRING
  <2>1. at[c] \in CallType
    BY <1>1 DEF StageInv, TypeInv
  <2> QED BY <1>1, <2>1 DEF StageInv, TypeInv, TearInv, Shape, CallType
<1>3. PICK a : a = at'[c]
  OBVIOUS
<1>4. SUFFICES /\ a.pc \in Underway => Declares(c.owner, a.of)
               /\ a.pc = "done" => \/ a.of = c.owner
                                   \/ Declares(c.owner, a.of) /\ Published(a.of, a.sub, a.file)
  <2>1. /\ Declares(c.owner, a.of) => Declares(c.owner, a.of)'
        /\ Published(a.of, a.sub, a.file) => Published(a.of, a.sub, a.file)'
    BY WorldOnly
  <2> QED BY <1>3, <1>4, <2>1 DEF LoadsOK
<1>5. CASE Onward(c)
  BY <1>1, <1>3, <1>5 DEF Onward, LoadsOK, Underway
<1>6. CASE Enters(c)
  <2>1. Declares(c.owner, at[c].of) /\ a.of = at[c].of /\ a.sub = at[c].sub /\ a.pc \notin Underway
    BY <1>1, <1>3, <1>6 DEF Enters, LoadsOK, Underway, Outcomes
  <2>2. ASSUME a.pc = "done" PROVE Published(a.of, a.sub, a.file)
    <3> DEFINE cs == NormalizeConditions(Asked)
               found == ResolvePackageEntry(Tree(at[c].of), Described(Here, at[c].of).json, at[c].sub, cs)
    <3>1. a.file # NoFile /\ a.file = found
      BY <1>3, <1>6, <2>2 DEF Enters
    <3>2. found = NoFile \/ Published(at[c].of, at[c].sub, found)
      <4>1. cs \in Seq(Known)
        BY AskedAssumption, ConditionsKnown
      <4>2. at[c].of = Nowhere \/ Real(at[c].of)
        BY <1>2 DEF Place
      <4> HIDE DEF cs
      <4> QED BY <1>2, <4>1, <4>2, EntryOf
    <3> QED BY <2>1, <3>1, <3>2
  <2> QED BY <2>1, <2>2
<1>7. ASSUME NEW r, Fails(c, r)
      PROVE  a.pc \notin Underway /\ a.pc # "done"
  BY <1>3, <1>7 DEF Fails, Underway
<1>8. ASSUME NEW r \in Requests(c), NEW o, NEW pc, Settles(c, r, o, pc)
      PROVE  /\ a.pc \in Underway => Declares(c.owner, a.of)
             /\ a.pc = "done" => a.of = c.owner
  <2>1. a.of = o /\ a.pc = pc
    BY <1>3, <1>8 DEF Settles
  <2>2. \/ o = c.owner /\ pc \in Outcomes
        \/ pc \in Underway /\ Declares(c.owner, o)
    BY <1>1, <1>8, SettlesDeclared
  <2> QED BY <2>1, <2>2 DEF Outcomes, Underway
<1> QED
  <2>1. ~Require(c)
    BY DEF Require
  <2>2. CASE Fetch(c) \/ Check(c) \/ Wipe(c) \/ Extract(c) \/ ExtractFails(c) \/ RemovalFails(c)
            \/ Ingest(c)
    BY <1>1, <1>5, <2>2, OnwardIs
  <2>3. CASE Entry(c)
    BY <1>1, <1>6, <2>3, EntersIs
  <2>4. ASSUME NEW r \in Requests(c),
               ImportOwn(c, r) \/ ImportUndeclared(c, r) \/ UseMember(c, r) \/ Resolve(c, r)
        PROVE  /\ a.pc \in Underway => Declares(c.owner, a.of)
               /\ a.pc = "done" => \/ a.of = c.owner
                                   \/ Declares(c.owner, a.of) /\ Published(a.of, a.sub, a.file)
    BY <1>1, <1>7, <1>8, <2>4, SettlesIs
  <2> QED BY <2>1, <2>2, <2>3, <2>4 DEF Call

LEMMA LoadInit == Init => LoadInv
<1> SUFFICES ASSUME Init PROVE LoadInv
  OBVIOUS
<1>1. \A c \in Calls : at[c].pc = "idle"
  BY DEF Init, Waiting
<1> QED BY <1>1, StageInit, HeldInit DEF LoadInv, LoadsOK, Underway

LEMMA LoadStep == LoadInv /\ [Next]_vars => LoadInv'
<1> SUFFICES ASSUME LoadInv, [Next]_vars PROVE LoadInv'
  OBVIOUS
<1>1. StageInv' /\ HeldInv'
  BY StageStep, HeldStep DEF LoadInv
<1>2. SUFFICES \A d \in Calls' : LoadsOK(d)'
  BY <1>1 DEF LoadInv
<1>3. ASSUME NEW c \in Calls, Call(c) \/ OutsiderStarts(c) \/ OutsiderDies(c), NEW d \in Calls'
      PROVE  LoadsOK(d)'
  <2>1. UNCHANGED <<Rest, file>> /\ \A e \in Calls \ {c} : at'[e] = at[e]
    BY <1>3, CallMoves DEF LoadInv
  <2>2. UNCHANGED <<world, rewritten>> /\ d \in Calls
    BY <2>1 DEF Rest, Calls, Here
  <2>3. CASE d # c
    BY <2>1, <2>2, <2>3, LoadsStays DEF LoadInv
  <2>4. CASE d = c /\ d.via # "import"
    BY <2>4 DEF LoadsOK
  <2>5. CASE d = c /\ d.via = "import"
    <3>1. Call(c)
      BY <1>3, <2>5 DEF OutsiderStarts, OutsiderDies
    <3> QED BY <2>2, <2>5, <3>1, LoadsMoves
  <2> QED BY <2>3, <2>4, <2>5
<1>4. ASSUME UNCHANGED <<world, at>>, rewritten => rewritten', NEW d \in Calls' PROVE LoadsOK(d)'
  <2>1. d \in Calls
    BY <1>4 DEF Calls, Here
  <2> QED BY <1>4, <2>1, LoadsStays DEF LoadInv
<1>5. CASE Snapshot \/ Run \/ Rewrite \/ Over \/ UNCHANGED vars
  <2>1. UNCHANGED <<world, at>> /\ (rewritten' = rewritten \/ rewritten' = TRUE)
    <3>1. CASE Snapshot
      BY <3>1 DEF Snapshot, Skip, VisitMember, Visit, SnapshotEnds, History
    <3>2. CASE Run
      BY <3>2 DEF Run, StartRun, PrefetchEnds, BuildMap, ChildOpens, ProgramEnds, History
    <3>3. CASE Rewrite
      BY <3>3 DEF Rewrite
    <3>4. CASE Over \/ UNCHANGED vars
      BY <3>4 DEF Over, vars
    <3> QED BY <1>5, <3>1, <3>2, <3>3, <3>4
  <2> QED BY <1>4, <2>1
<1> QED BY <1>3, <1>5 DEF Next

\* An import that succeeds has loaded a file of the importer itself, or a published entry of a
\* package that the importer's manifest declares, in a version of the declared range: the
\* theorem of LoadsWhatItDeclares, whatever the lock, the registry and the imports beside it.
THEOREM ImportsAreDeclared == Spec => []LoadsWhatItDeclares
<1>1. LoadInv => LoadsWhatItDeclares
  BY DEF LoadInv, LoadsOK, LoadsWhatItDeclares, Imported
<1> QED BY <1>1, LoadInit, LoadStep, PTL DEF Spec
==============================================================================
