---------------------------- MODULE SnapshotProofs ----------------------------
(***************************************************************************)
(* Theorems about Imports, for any situations, packages and calls: what a  *)
(* snapshot leaves is enough for a sealed run.                             *)
(***************************************************************************)
EXTENDS ImportsProofs

\* A snapshot, then a run that may not change the lock or ask the network.
Sealed == mode.snapshot /\ (mode.frozen \/ mode.offline)

\* What a sealed run takes: a member, or a package in the store.
Kept(lock, stored, p) == lock[p] = "workspace" \/ (lock[p] = "object" /\ p \in stored)

\* A version of a range is kept, and so is whatever version the lock would prefer to it.
Serves(lock, stored, spec) ==
    \E v \in Sat[spec[2]] :
        /\ Kept(lock, stored, <<spec[1], v>>)
        /\ \A w \in Sat[spec[2]] : v < w /\ lock[<<spec[1], w>>] # "absent"
                                     => Kept(lock, stored, <<spec[1], w>>)

\* A tag may point below a locked version that the store lacks.
Excused(spec) == spec[2] = AnyVersion /\ ~Complete

Covers(lock) ==
    \A spec \in seen : \/ TakesMember(Here, spec[1], spec[2])
                       \/ Excused(spec)
                       \/ Serves(lock, store, spec)

Follows(lock) ==
    \A p \in Packages : PackageCode(p) \in followed => lock[p] = "object" \/ TakenOver(p)

Failed == phase = "over" /\ queue # << >>

AllKept == Complete => \A p \in Packages : locked[p] = "absent" \/ Kept(locked, store, p)

LockOK == Covers(locked) /\ Follows(locked) /\ (phase = "snapshot" => AllKept)

\* The lock at work, and the one that the snapshot has written.
LockInv ==
    ~Failed /\ ~rewritten =>
        LockOK /\ (phase \notin {"snapshot", "over"} => Covers(file) /\ Follows(file))

Among(x, s) == \E i \in DOMAIN s : s[i] = x
Needs(o) == {<<n, Described(Here, o).dependencies[n]>> : n \in DOMAIN Described(Here, o).dependencies}

\* Every dependency of the owners followed is seen, or queued.
Reached == \A o \in followed : \A x \in Needs(o) : x \in seen \/ Among(x, queue)

QueueInv ==
    /\ Reached
    /\ phase \notin {"snapshot", "over"} => queue = << >>
    /\ Failed => \A c \in Calls : c.via \in {"import", "require"} => at[c].pc = "idle"

\* Sealed calls fetch nothing.
FetchInv == \A c \in Calls : at[c].pc \notin {"fetch", "ingest"} /\ ~at[c].fetched

\* While nobody else unpacks packages, those followed are whole.
DiskInv ==
    Alone =>
        /\ phase = "snapshot" => torn = {}
        /\ \A p \in Stored : PackageCode(p) \in followed =>
              /\ Whole(p)
              /\ \A c \in Calls : at[c].pc \in {"wipe", "extract"} => Target(c) # p

NothingOffered(n) ==
    \A p \in Stored :
        p[1] = n /\ PackageCode(p) \in followed /\ ~TakenOver(p) =>
            ResolvePackageEntry(FilesOf(p), Here.packages[p].json, Root, RequireConditions) = NoFile

MapInv ==
    phase \in {"spawn", "running"} /\ Alone /\ ~rewritten =>
        \A n \in Names : modules[n].of = Nowhere => NothingOffered(n)

\* What has become of c.
Answered(c) ==
    LET declared == Described(Here, c.owner).dependencies
        n == c.spec.name
    IN
    /\ c.via = "import" /\ c.owner \in followed /\ ~Mistakable(c.owner)
         /\ at[c].pc \in {"missing", "unresolved"} /\ n \in DOMAIN declared
         => Excused(<<n, declared[n]>>)
    /\ c.via = "require" /\ at[c].pc = "undeclared" /\ c.spec.sub = Root /\ Alone /\ ~rewritten
         => NothingOffered(n)

SnapInv ==
    /\ StageInv /\ HeldInv
    /\ Sealed => /\ QueueInv /\ LockInv /\ FetchInv /\ DiskInv /\ MapInv
                 /\ \A c \in Calls : Answered(c)

------------------------------------------------------------------------------
(* Locks that serve a range *)

\* A lock goes on to serve what it serves when it and the store grow.
LEMMA ServesStays ==
    ASSUME NEW lock \in [Packages -> Entries], NEW stored, NEW p \in Packages, NEW as \in Entries,
           NEW stored_1, stored \subseteq stored_1,
           Kept([lock EXCEPT ![p] = as], stored_1, p),
           NEW n \in Names, NEW r \in Ranges, Serves(lock, stored, <<n, r>>)
    PROVE  Serves([lock EXCEPT ![p] = as], stored_1, <<n, r>>)
<1> DEFINE lock_1 == [lock EXCEPT ![p] = as]
<1>1. \A q \in Packages : q # p => lock_1[q] = lock[q]
  OBVIOUS
<1>2. \A q \in Packages : Kept(lock, stored, q) => Kept(lock_1, stored_1, q)
  BY <1>1 DEF Kept
<1>3. \A w \in Sat[r] : <<n, w>> \in Packages
  BY SatAssumption DEF Packages
<1>4. PICK v \in Sat[r] :
          /\ Kept(lock, stored, <<n, v>>)
          /\ \A w \in Sat[r] : v < w /\ lock[<<n, w>>] # "absent" => Kept(lock, stored, <<n, w>>)
  BY DEF Serves
<1>5. \A w \in Sat[r] : v < w /\ lock_1[<<n, w>>] # "absent" => Kept(lock_1, stored_1, <<n, w>>)
  <2> SUFFICES ASSUME NEW w \in Sat[r], v < w, lock_1[<<n, w>>] # "absent"
               PROVE  Kept(lock_1, stored_1, <<n, w>>)
    OBVIOUS
  <2>1. PICK q \in Packages : q = <<n, w>>
    BY <1>3
  <2>2. CASE q = p
    BY <2>1, <2>2
  <2>3. CASE q # p
    BY <1>1, <1>2, <1>4, <2>1, <2>3
  <2> QED BY <2>2, <2>3
<1>6. Kept(lock_1, stored_1, <<n, v>>)
  BY <1>2, <1>3, <1>4
<1> HIDE DEF lock_1
<1> QED BY <1>5, <1>6 DEF Serves, lock_1

\* A sealed run finds what the lock serves.
LEMMA ServesAnswers ==
    ASSUME NEW lock, NEW stored, NEW options, options.frozen \/ options.offline,
           NEW n, NEW r \in Ranges, Serves(lock, stored, <<n, r>>)
    PROVE  Choice(Here, options, lock, stored, n, r).act \in {"reuse", "member"}
<1> DEFINE V == LockedVersions(lock, n) \cap Sat[r]
           h == Reusable(lock, n, r)
<1>1. V \in SUBSET Versions /\ h = Highest(V)
  BY DEF LockedVersions, Reusable
<1>2. PICK v \in Sat[r] :
          /\ Kept(lock, stored, <<n, v>>)
          /\ \A w \in Sat[r] : v < w /\ lock[<<n, w>>] # "absent" => Kept(lock, stored, <<n, w>>)
  BY DEF Serves
<1>3. v \in V
  BY <1>2, SatAssumption DEF Kept, LockedVersions
<1>4. h \in V /\ v <= h
  BY <1>1, <1>3, HighestIs
<1>5. h \in Sat[r] /\ h \in Versions /\ v \in Versions /\ lock[<<n, h>>] # "absent"
  BY <1>3, <1>4 DEF LockedVersions
<1>6. h \in Nat /\ v \in Nat /\ h # NoVersion
  BY <1>5, VersionsAssumption DEF NoVersion
<1>7. Kept(lock, stored, <<n, h>>)
  BY <1>2, <1>4, <1>5, <1>6
<1> HIDE DEF h, V
<1>8. (lock[<<n, h>>] = "object" /\ <<n, h>> \in stored) \/ lock[<<n, h>>] = "workspace"
  BY <1>7 DEF Kept
<1> QED BY <1>6, <1>8 DEF Choice, h

\* What a visit of a package does, in short.
LEMMA VisitFinds ==
    ASSUME TypeInv, Visit, phase' # "over"
    PROVE  LET spec == Head(queue)
               choice == Choice(Here, Online, locked, store, spec[1], spec[2])
               p == <<spec[1], choice.version>>
           IN  /\ queue # << >> /\ spec \in Names \X Ranges /\ phase = "snapshot" /\ phase' = "snapshot"
               /\ ~TakesMember(Here, spec[1], spec[2])
               /\ UNCHANGED <<world, mode, file, modules, loaded, at, rewritten, torn>>
               /\ choice.act \in {"reuse", "fetch"} /\ choice.version # NoVersion /\ p \in Stored
               /\ p \in Packages /\ choice.version \in Sat[spec[2]]
               /\ locked' = [locked EXCEPT ![p] = "object"] /\ store' = store \cup {p}
               /\ disk' = [disk EXCEPT ![p] = IF Manifest \in @ THEN @ ELSE FilesOf(p)]
               /\ seen' = seen \cup {spec} /\ queue' = Tail(queue) \o Follow(PackageCode(p))
               /\ followed' = followed \cup {PackageCode(p)}
<1> DEFINE spec == Head(queue)
           choice == Choice(Here, Online, locked, store, spec[1], spec[2])
           p == <<spec[1], choice.version>>
<1>1. queue # << >> /\ spec \in Names \X Ranges /\ phase = "snapshot" /\ world \in Worlds
  <2>1. queue # << >> /\ phase = "snapshot"
    BY DEF Visit
  <2>2. queue \in Seq(Names \X Ranges) /\ world \in Worlds
    BY DEF TypeInv, TearInv, Shape
  <2>3. Head(queue) \in Names \X Ranges
    BY <2>1, <2>2
  <2> QED BY <2>1, <2>2, <2>3
<1>2. choice.version # NoVersion
  BY DEF Visit
<1>3. choice.act \in {"reuse", "fetch"}
  BY DEF Choice, Online
<1>4. p \in Stored /\ p \in Packages
  BY <1>1, <1>2, <1>3, ChoiceExists, WorldFacts DEF TypeInv, TearInv
<1>5. choice.version \in Sat[spec[2]]
  BY <1>1, <1>2, <1>3, ChoiceSatisfies
<1>6. /\ ~TakesMember(Here, spec[1], spec[2])
      /\ UNCHANGED <<world, mode, file, modules, loaded, at, rewritten, torn>>
      /\ seen' = seen \cup {spec}
  BY DEF Visit, Mark
<1>7. /\ phase' = phase
      /\ locked' = [locked EXCEPT ![p] = "object"] /\ store' = store \cup {p}
      /\ disk' = [disk EXCEPT ![p] = IF Manifest \in @ THEN @ ELSE Here.packages[p].files]
      /\ queue' = Tail(queue) \o Follow(PackageCode(p))
      /\ followed' = followed \cup {PackageCode(p)}
  BY <1>2 DEF Visit
<1> HIDE DEF p, choice
<1> QED BY <1>1, <1>2, <1>3, <1>4, <1>5, <1>6, <1>7 DEF p, choice, FilesOf

\* The lock that a visit leaves serves what has been visited.
LEMMA VisitServes ==
    ASSUME TypeInv, Visit, phase' # "over",
           Complete => \A p \in Packages : locked[p] = "absent" \/ Kept(locked, store, p)
    PROVE  Excused(Head(queue)) \/ Serves(locked', store', Head(queue))
<1> DEFINE spec == Head(queue)
           n == spec[1]
           r == spec[2]
           choice == Choice(Here, Online, locked, store, n, r)
           v == choice.version
           p == <<n, v>>
<1>1. /\ spec \in Names \X Ranges /\ v # NoVersion /\ choice.act \in {"reuse", "fetch"}
      /\ p \in Packages /\ v \in Sat[r]
      /\ locked' = [locked EXCEPT ![p] = "object"] /\ store' = store \cup {p}
  BY VisitFinds
<1>2. n \in Names /\ r \in Ranges /\ Sat[r] \subseteq Versions /\ world \in Worlds
  BY <1>1, SatAssumption DEF TypeInv, TearInv, Shape
<1>3. locked' [p] = "object" /\ \A q \in Packages : q # p => locked'[q] = locked[q]
  BY <1>1 DEF TypeInv, Honest
<1>4. Kept(locked', store', p)
  BY <1>1, <1>3 DEF Kept
<1>5. SUFFICES ASSUME ~Excused(spec), NEW w \in Sat[r], v < w, locked'[<<n, w>>] # "absent"
               PROVE  Kept(locked', store', <<n, w>>)
  BY <1>1, <1>4 DEF Serves
<1>a. w \in Nat /\ v \in Nat /\ ~(w <= v) /\ w # v /\ <<n, w>> \in Packages
  <2>1. v \in Sat[r] /\ w \in Sat[r] /\ v < w /\ Sat[r] \subseteq Versions /\ n \in Names
    BY <1>1, <1>2, <1>5
  <2> HIDE DEF v, r, n
  <2>2. v \in Nat /\ w \in Nat /\ w \in Versions
    BY <2>1, VersionsAssumption
  <2> QED BY <2>1, <2>2 DEF Packages
<1>6. <<n, w>> \in Packages /\ <<n, w>> # p /\ locked[<<n, w>>] = locked'[<<n, w>>]
  <2>1. <<n, w>> # p
    BY <1>a
  <2> QED BY <1>3, <1>a, <2>1
<1>7. locked[<<n, w>>] = "workspace" \/ Kept(locked, store, <<n, w>>)
  <2>1. CASE choice.act = "reuse"
    <3>1. v = Highest(LockedVersions(locked, n) \cap Sat[r])
      BY <2>1, ChoiceIs DEF Reusable
    <3>2. w \in LockedVersions(locked, n) \cap Sat[r]
      BY <1>2, <1>5, <1>6 DEF LockedVersions
    <3> DEFINE V == LockedVersions(locked, n) \cap Sat[r]
    <3>3. V \in SUBSET Versions
      BY DEF LockedVersions
    <3> HIDE DEF V, v
    <3>4. w <= v
      BY <3>1, <3>2, <3>3, HighestIs DEF V
    <3> QED BY <1>a, <3>4
  <2>2. CASE choice.act = "fetch" /\ r = AnyVersion
    <3>1. Complete
      BY <1>5, <2>2 DEF Excused
    <3> QED BY <1>5, <1>6, <3>1
  <2>3. CASE choice.act = "fetch" /\ r # AnyVersion
    <3> DEFINE published == {x \in Versions : <<n, x>> \in DOMAIN Here.packages}
    <3>1. v = SelectVersion(Here, n, r)
      BY <2>3 DEF Choice, Online
    <3>2. v = Highest(published \cap Sat[r])
      BY <1>1, <2>3, <3>1 DEF SelectVersion
    <3>3. ASSUME <<n, w>> \in Stored PROVE FALSE
      <4>1. w \in published \cap Sat[r]
        BY <1>2, <1>5, <3>3 DEF Stored
      <4> DEFINE V == published \cap Sat[r]
      <4>2. V \in SUBSET Versions
        OBVIOUS
      <4> HIDE DEF V, v
      <4>3. w <= v
        BY <3>2, <4>1, <4>2, HighestIs DEF V
      <4> QED BY <1>a, <4>3
    <3>4. locked[<<n, w>>] \notin {"bare", "object"}
      BY <1>6, <3>3 DEF TypeInv, Honest
    <3>5. locked[<<n, w>>] \in Entries /\ locked[<<n, w>>] # "absent"
      BY <1>5, <1>6 DEF TypeInv, Honest
    <3> QED BY <3>4, <3>5 DEF Entries
  <2> QED BY <1>1, <2>1, <2>2, <2>3
<1> QED BY <1>1, <1>6, <1>7 DEF Kept

------------------------------------------------------------------------------
(* Calls of a sealed run *)

Filling == {"wipe", "extract"}

\* What a step of a call may do to a directory.
Fills(c) ==
    /\ \A p \in Stored : disk'[p] = disk[p] \/ (at[c].pc \in Filling /\ p = Target(c))
    /\ at'[c].pc \in Filling =>
         /\ at'[c].of = at[c].of
         /\ at[c].pc \in Filling \/ (at[c].pc = "check" /\ ~Unpacked(c))

LEMMA SealedRequest ==
    ASSUME TypeInv, Sealed, NEW c \in Calls, NEW r \in Requests(c),
           ImportOwn(c, r) \/ ImportUndeclared(c, r) \/ UseMember(c, r) \/ Resolve(c, r)
    PROVE  /\ at'[c].pc \in Ended \cup {"entry", "check"} /\ at'[c].fetched = at[c].fetched
           /\ UNCHANGED <<store, disk>>
<1>1. at \in [Calls -> CallType]
  BY DEF TypeInv
<1>2. ASSUME NEW how \in Ended, Ends(c, how)
      PROVE  at'[c].pc = how /\ at'[c].fetched = at[c].fetched
  BY <1>1, <1>2 DEF Ends, CallType
<1>3. ASSUME NEW o, NEW sub, NEW pc,
             at' = [at EXCEPT ![c].of = o, ![c].sub = sub, ![c].pc = pc]
      PROVE  at'[c].pc = pc /\ at'[c].fetched = at[c].fetched
  BY <1>1, <1>3 DEF CallType
<1>4. CASE ImportOwn(c, r)
  <2>1. at' = [at EXCEPT ![c].pc = Outcome(r.file), ![c].of = r.importer, ![c].file = r.file]
        /\ UNCHANGED <<store, disk>>
    BY <1>4 DEF ImportOwn, Shared
  <2>2. at'[c].pc = Outcome(r.file) /\ at'[c].fetched = at[c].fetched
    BY <1>1, <2>1 DEF CallType
  <2> QED BY <2>1, <2>2, OutcomeEnds
<1>5. CASE ImportUndeclared(c, r)
  BY <1>2, <1>5 DEF ImportUndeclared, Shared, Ended
<1>6. CASE UseMember(c, r)
  <2> DEFINE m == ResolveWorkspacePackage(Here.members, r.name,
                                          IF c.via = "prefetch" THEN Undeclared ELSE r.range)
             pc_1 == IF c.via = "prefetch" THEN "done" ELSE "entry"
             o == MemberCode(m)
  <2>1. UNCHANGED <<store, disk>>
    BY <1>6 DEF UseMember
  <2>2. CASE m = NoMember
    BY <1>2, <1>6, <2>1, <2>2 DEF UseMember, Ended
  <2>3. CASE m # NoMember
    <3>1. at' = [at EXCEPT ![c].of = o, ![c].sub = r.sub, ![c].pc = pc_1]
      BY <1>6, <2>3 DEF UseMember
    <3>2. pc_1 \in {"done", "entry"}
      OBVIOUS
    <3> HIDE DEF pc_1, o, m
    <3>3. at'[c].pc = pc_1 /\ at'[c].fetched = at[c].fetched
      BY <1>3, <3>1
    <3> QED BY <2>1, <3>2, <3>3 DEF Ended
  <2> QED BY <2>2, <2>3
<1>7. CASE Resolve(c, r)
  <2> DEFINE choice == Choice(Here, mode, locked, store, r.name, r.range)
             p == <<r.name, choice.version>>
             pc_1 == IF c.via = "prefetch" THEN "done" ELSE "entry"
  <2>1. UNCHANGED <<store, disk>>
    BY <1>7 DEF Resolve, Shared
  <2>2. choice.act \in {"reuse", "member", "refuse"}
    BY DEF Sealed, Choice
  <2>3. CASE choice.act = "refuse"
    BY <1>2, <1>7, <2>1, <2>3 DEF Resolve, Ended
  <2>4. CASE choice.act = "member"
    <3>1. at' = [at EXCEPT ![c].of = CodeOf(p), ![c].sub = r.sub, ![c].pc = pc_1]
      BY <1>7, <2>4 DEF Resolve
    <3>2. pc_1 \in {"done", "entry"}
      OBVIOUS
    <3> HIDE DEF pc_1, p
    <3>3. at'[c].pc = pc_1 /\ at'[c].fetched = at[c].fetched
      BY <1>3, <3>1
    <3> QED BY <2>1, <3>2, <3>3 DEF Ended
  <2>5. CASE choice.act = "reuse"
    <3>1. at' = [at EXCEPT ![c].of = PackageCode(p), ![c].sub = r.sub, ![c].pc = "check"]
      BY <1>7, <2>5 DEF Resolve
    <3> HIDE DEF p
    <3>2. at'[c].pc = "check" /\ at'[c].fetched = at[c].fetched
      BY <1>3, <3>1
    <3> QED BY <2>1, <3>2
  <2> QED BY <2>2, <2>3, <2>4, <2>5
<1> QED BY <1>4, <1>5, <1>6, <1>7

LEMMA SealedCall ==
    ASSUME TypeInv, FetchInv, Sealed, NEW c \in Calls, Call(c) \/ OutsiderStarts(c) \/ OutsiderDies(c)
    PROVE  /\ UNCHANGED store /\ Fills(c)
           /\ at'[c].pc \notin {"idle", "fetch", "ingest"} /\ ~at'[c].fetched
<1>1. at \in [Calls -> CallType] /\ at[c].pc \notin {"fetch", "ingest"} /\ ~at[c].fetched
  BY DEF TypeInv, FetchInv
<1>2. DOMAIN disk = Stored
  BY DEF TypeInv, TearInv, Shape
<1>3. ASSUME NEW how, Ends(c, how)
      PROVE  at'[c].pc = how /\ at'[c].of = at[c].of /\ at'[c].fetched = at[c].fetched
  BY <1>1, <1>3 DEF Ends, CallType
<1>4. AfterUnpack(c) \in {"done", "entry"}
  BY <1>1 DEF AfterUnpack
<1>5. CASE Require(c)
  <2>1. UNCHANGED <<store, disk>>
    BY <1>5 DEF Require, Shared
  <2>2. at'[c].pc \in Ended /\ at'[c].fetched = at[c].fetched
    <3> DEFINE found == modules[c.spec.name]
    <3>1. CASE at' = [at EXCEPT ![c].pc = Outcome(found.file), ![c].of = found.of, ![c].file = found.file]
      <4> HIDE DEF found
      <4> QED BY <1>1, <3>1, OutcomeEnds DEF CallType
    <3>2. CASE Ends(c, "undeclared")
      BY <1>3, <3>2 DEF Ended
    <3> QED BY <1>5, <3>1, <3>2 DEF Require
  <2> QED BY <1>1, <2>1, <2>2 DEF Fills, Filling, Ended
<1>6. CASE Fetch(c) \/ Ingest(c)
  BY <1>1, <1>6 DEF Fetch, Ingest
<1>7. CASE Check(c)
  <2>1. /\ UNCHANGED <<store, disk>> /\ at[c].pc = "check"
        /\ Ends(c, IF Unpacked(c) THEN AfterUnpack(c) ELSE "wipe")
    BY <1>7 DEF Check, Shared
  <2>2. /\ at'[c].pc = IF Unpacked(c) THEN AfterUnpack(c) ELSE "wipe"
        /\ at'[c].of = at[c].of /\ at'[c].fetched = at[c].fetched
    BY <1>3, <2>1
  <2> QED BY <1>1, <1>4, <2>1, <2>2 DEF Fills, Filling
<1>8. CASE Wipe(c)
  <2>1. /\ UNCHANGED store /\ at[c].pc = "wipe" /\ disk' = [disk EXCEPT ![Target(c)] = {}]
        /\ at' = [at EXCEPT ![c].pc = "extract", ![c].pos = 0]
    BY <1>8 DEF Wipe, Shared
  <2>2. at'[c].pc = "extract" /\ at'[c].of = at[c].of /\ at'[c].fetched = at[c].fetched
    BY <1>1, <2>1 DEF CallType
  <2> QED BY <1>1, <1>2, <2>1, <2>2 DEF Fills, Filling
<1>9. CASE Extract(c)
  <2> DEFINE last == at[c].pos + 1 = Len(Here.packages[Target(c)].archive)
             one == Here.packages[Target(c)].archive[at[c].pos + 1]
  <2>1. /\ UNCHANGED store /\ at[c].pc = "extract"
        /\ disk' = [disk EXCEPT ![Target(c)] = @ \cup {one}]
        /\ at' = [at EXCEPT ![c].pos = @ + 1, ![c].pc = IF last THEN AfterUnpack(c) ELSE @]
    BY <1>9 DEF Extract, Shared
  <2> HIDE DEF last, one
  <2>2. /\ at'[c].pc \in {AfterUnpack(c), "extract"}
        /\ at'[c].of = at[c].of /\ at'[c].fetched = at[c].fetched
    BY <1>1, <2>1 DEF CallType
  <2> QED BY <1>1, <1>2, <1>4, <2>1, <2>2 DEF Fills, Filling
<1>10. CASE ExtractFails(c)
  <2>1. /\ UNCHANGED store /\ at[c].pc = "extract" /\ Ends(c, "broken")
        /\ disk' = [disk EXCEPT ![Target(c)] = {}]
    BY <1>10 DEF ExtractFails, Shared, Removed
  <2> QED BY <1>1, <1>2, <1>3, <2>1 DEF Fills, Filling
<1>11. CASE OutsiderDies(c)
  <2>1. UNCHANGED <<store, disk>> /\ Ends(c, "dead")
    BY <1>11 DEF OutsiderDies, Shared
  <2> QED BY <1>1, <1>3, <2>1 DEF Fills, Filling
<1>12. CASE OutsiderStarts(c)
  <2>1. /\ UNCHANGED <<store, disk>>
        /\ \E p \in store : at' = [at EXCEPT ![c].pc = "check", ![c].of = PackageCode(p)]
    BY <1>12 DEF OutsiderStarts, Shared
  <2>2. at'[c].pc = "check" /\ at'[c].fetched = at[c].fetched
    BY <1>1, <2>1 DEF CallType
  <2> QED BY <1>1, <2>1, <2>2 DEF Fills, Filling
<1>13. CASE Entry(c)
  <2>1. UNCHANGED <<store, disk>>
    BY <1>13 DEF Entry, Shared
  <2> DEFINE owner == at[c].of
             found == ResolvePackageEntry(Tree(owner), Described(Here, owner).json, at[c].sub,
                                          NormalizeConditions(Asked))
             pc_1 == IF Manifest \notin Tree(owner) THEN "corrupt" ELSE Outcome(found)
             file_1 == IF pc_1 = "done" THEN found ELSE NoFile
             whole == Tree(owner) = Described(Here, owner).files
  <2>2. at' = [at EXCEPT ![c].pc = pc_1, ![c].file = file_1, ![c].whole = whole]
    BY <1>13 DEF Entry
  <2>3. pc_1 \in Ended
    BY OutcomeEnds DEF Ended
  <2> HIDE DEF pc_1, file_1, whole
  <2>4. at'[c].pc = pc_1 /\ at'[c].fetched = at[c].fetched
    BY <1>1, <2>2 DEF CallType
  <2> QED BY <1>1, <2>1, <2>3, <2>4 DEF Fills, Filling, Ended
<1>14. ASSUME NEW r \in Requests(c),
              ImportOwn(c, r) \/ ImportUndeclared(c, r) \/ UseMember(c, r) \/ Resolve(c, r)
       PROVE  /\ UNCHANGED store /\ Fills(c)
              /\ at'[c].pc \notin {"idle", "fetch", "ingest"} /\ ~at'[c].fetched
  <2>1. /\ at'[c].pc \in Ended \cup {"entry", "check"} /\ at'[c].fetched = at[c].fetched
        /\ UNCHANGED <<store, disk>>
    BY <1>14, SealedRequest
  <2> QED BY <1>1, <2>1 DEF Fills, Filling, Ended
<1>15. CASE RemovalFails(c)
  <2>1. /\ UNCHANGED store /\ at[c].pc \in {"wipe", "extract"} /\ Ends(c, "broken")
        /\ \E left \in SUBSET disk[Target(c)] : disk' = [disk EXCEPT ![Target(c)] = left]
    BY <1>15 DEF RemovalFails, Shared
  <2> QED BY <1>1, <1>2, <1>3, <2>1 DEF Fills, Filling
<1> QED BY <1>5, <1>6, <1>7, <1>8, <1>9, <1>10, <1>11, <1>12, <1>13, <1>14,
           <1>15 DEF Call

------------------------------------------------------------------------------
(* The queue *)

LEMMA AmongTail ==
    ASSUME NEW S, NEW s \in Seq(S), s # << >>, NEW x, Among(x, s)
    PROVE  x = Head(s) \/ Among(x, Tail(s))
<1>1. PICK i \in DOMAIN s : s[i] = x
  BY DEF Among
<1>2. CASE i = 1
  BY <1>1, <1>2
<1>3. CASE i # 1
  <2>1. Len(s) \in Nat /\ i \in 1 .. Len(s) /\ Tail(s) \in Seq(S) /\ Len(Tail(s)) = Len(s) - 1
    BY <1>1
  <2>2. i - 1 \in 1 .. Len(Tail(s)) /\ DOMAIN Tail(s) = 1 .. Len(Tail(s))
    BY <1>3, <2>1
  <2>3. Tail(s)[i - 1] = s[i]
    BY <1>3, <2>1, <2>2
  <2> QED BY <1>1, <2>2, <2>3 DEF Among
<1> QED BY <1>2, <1>3

LEMMA AmongJoined ==
    ASSUME NEW S, NEW s \in Seq(S), NEW t \in Seq(S), NEW x, Among(x, s) \/ Among(x, t)
    PROVE  Among(x, s \o t)
<1> DEFINE u == s \o t
<1>1. Joins(u, s, t)
  BY Joined
<1> HIDE DEF u
<1>2. Among(x, u)
  BY <1>1 DEF Among, Joins
<1> QED BY <1>2 DEF u

LEMMA AmongFollow ==
    ASSUME world \in Worlds, NEW o, Real(o), NEW x \in Needs(o)
    PROVE  Among(x, Follow(o))
<1>1. Described(Here, o).dependencies \in Declarations
  BY DescribedIs DEF IsManifest
<1> QED BY <1>1, EntriesTyped DEF Needs, Follow, Among

LEMMA ReachedStays ==
    ASSUME UNCHANGED world, Reached, seen \subseteq seen',
           \A x : Among(x, queue) => x \in seen' \/ Among(x, queue'),
           \A o \in followed' \ followed : \A x \in Needs(o) : Among(x, queue')
    PROVE  Reached'
<1>1. \A o : Needs(o)' = Needs(o)
  BY DEF Needs, Here
<1>2. \A o \in followed' : \A x \in Needs(o) : x \in seen' \/ Among(x, queue')
  BY DEF Reached
<1> QED BY <1>1, <1>2 DEF Reached, Among

\* A visit of o.
LEMMA ReachedVisit ==
    ASSUME TypeInv, Reached, UNCHANGED world, queue # << >>, NEW o, Real(o),
           seen' = seen \cup {Head(queue)}, queue' = Tail(queue) \o Follow(o),
           followed' = followed \cup {o}
    PROVE  Reached'
<1>1. world \in Worlds /\ queue \in Seq(Names \X Ranges)
  BY DEF TypeInv, TearInv, Shape
<1>2. Tail(queue) \in Seq(Names \X Ranges) /\ Follow(o) \in Seq(Names \X Ranges)
  BY QueueTyped
<1>3. ASSUME NEW x, Among(x, queue) PROVE x \in seen' \/ Among(x, queue')
  <2>1. x = Head(queue) \/ Among(x, Tail(queue))
    BY <1>1, <1>3, AmongTail
  <2> QED BY <1>2, <2>1, AmongJoined
<1>4. \A x \in Needs(o) : Among(x, queue')
  BY <1>1, <1>2, AmongFollow, AmongJoined
<1> QED BY <1>3, <1>4, ReachedStays

\* The owner whose dependencies a member's visit queues, and what it leaves.
LEMMA MemberVisit ==
    ASSUME TypeInv, VisitMember
    PROVE  \E m : /\ \E i \in DOMAIN Here.members : m = Here.members[i]
                  /\ Real(MemberCode(m)) /\ <<m.name, m.version>> \in Packages
                  /\ locked' = [locked EXCEPT ![<<m.name, m.version>>] = "workspace"]
                  /\ queue # << >> /\ queue' = Tail(queue) \o Follow(MemberCode(m))
                  /\ followed' = followed \cup {MemberCode(m)} /\ seen' = seen \cup {Head(queue)}
<1>m. PICK m : m = ResolveWorkspacePackage(Here.members, Head(queue)[1], Undeclared)
  OBVIOUS
<1>1. /\ \E i \in DOMAIN Here.members : m = Here.members[i]
      /\ Real(MemberCode(m)) /\ <<m.name, m.version>> \in Packages
  BY <1>m, VisitedMember
<1>2. /\ queue # << >> /\ seen' = seen \cup {Head(queue)}
      /\ locked' = [locked EXCEPT ![<<m.name, m.version>>] = "workspace"]
      /\ queue' = Tail(queue) \o Follow(MemberCode(m))
      /\ followed' = followed \cup {MemberCode(m)}
  BY <1>m DEF VisitMember, Mark, Remembered
<1> QED BY <1>1, <1>2

\* Requests begin while the commands are at work.
LEMMA OverStarts ==
    ASSUME StageInv, NEW c \in Calls, c.via \in {"import", "require"}, at[c].pc = "idle",
           phase \notin {"prefetch", "running"}
    PROVE  ~(Call(c) \/ OutsiderStarts(c) \/ OutsiderDies(c))
BY DEF Call, Require, Fetch, Check, Wipe, Extract, ExtractFails, RemovalFails, Ingest,
       Entry, Requests, OutsiderStarts, OutsiderDies

\* Steps that neither visit nor skip.
LEMMA QueueRests ==
    ASSUME QueueInv, UNCHANGED <<world, queue, seen, followed>>,
           phase' = phase \/ (phase = "snapshot" /\ queue = << >>) \/ phase \notin {"snapshot", "over"},
           phase = "over" => phase' = "over",
           phase' = "snapshot" => phase = "snapshot",
           \A c \in Calls : Failed /\ c.via \in {"import", "require"} => at'[c].pc = at[c].pc
    PROVE  QueueInv'
<1>1. Reached'
  BY ReachedStays DEF QueueInv
<1>2. phase' \notin {"snapshot", "over"} => queue' = << >>
  BY DEF QueueInv
<1>3. ASSUME Failed' PROVE \A c \in Calls : c.via \in {"import", "require"} => at'[c].pc = "idle"
  <2>1. Failed
    BY <1>3 DEF Failed, QueueInv
  <2> QED BY <2>1 DEF QueueInv
<1>4. Calls' = Calls
  BY DEF Calls, Here
<1> QED BY <1>1, <1>2, <1>3, <1>4 DEF QueueInv

LEMMA QueueStep == ASSUME StageInv, QueueInv, [Next]_vars PROVE QueueInv'
<1>1. TypeInv /\ world \in Worlds
  BY DEF StageInv, TypeInv, TearInv, Shape
<1>2. ASSUME NEW c \in Calls, Call(c) \/ OutsiderStarts(c) \/ OutsiderDies(c) PROVE QueueInv'
  <2>1. UNCHANGED <<Rest, file>> /\ \A d \in Calls \ {c} : at'[d] = at[d]
    BY <1>2, CallMoves
  <2>2. ASSUME NEW d \in Calls, Failed, d.via \in {"import", "require"} PROVE at'[d].pc = at[d].pc
    <3>1. at[d].pc = "idle" /\ phase = "over"
      BY <2>2 DEF QueueInv, Failed
    <3>2. d # c
      BY <1>2, <2>2, <3>1, OverStarts
    <3> QED BY <2>1, <3>2
  <2>3. UNCHANGED <<world, phase, queue, seen, followed>>
    BY <2>1 DEF Rest
  <2> QED BY <2>2, <2>3, QueueRests
<1>3. CASE Skip
  <2>1. /\ UNCHANGED <<world, phase, seen, followed, at>> /\ phase = "snapshot"
        /\ queue # << >> /\ Head(queue) \in seen /\ queue' = Tail(queue)
    BY <1>3 DEF Skip, History
  <2>2. \A x : Among(x, queue) => x \in seen' \/ Among(x, queue')
    BY <1>1, <2>1, AmongTail DEF TypeInv
  <2>3. Reached'
    BY <2>1, <2>2, ReachedStays DEF QueueInv
  <2> QED BY <2>1, <2>3 DEF QueueInv, Failed
<1>4. CASE VisitMember
  <2>1. Reached'
    <3>1. UNCHANGED world
      BY <1>4 DEF VisitMember
    <3> QED BY <1>1, <1>4, <3>1, MemberVisit, ReachedVisit DEF QueueInv
  <2>2. phase' = "snapshot"
    BY <1>4 DEF VisitMember
  <2> QED BY <2>1, <2>2 DEF QueueInv, Failed
<1>5. CASE Visit /\ phase' # "over"
  <2> DEFINE p == <<Head(queue)[1], Choice(Here, Online, locked, store, Head(queue)[1], Head(queue)[2]).version>>
  <2>1. /\ UNCHANGED world /\ phase' = "snapshot" /\ queue # << >> /\ p \in Stored
        /\ seen' = seen \cup {Head(queue)} /\ queue' = Tail(queue) \o Follow(PackageCode(p))
        /\ followed' = followed \cup {PackageCode(p)}
    BY <1>1, <1>5, VisitFinds
  <2> HIDE DEF p
  <2>2. Real(PackageCode(p))
    BY <1>1, <2>1, PackageCodeReal
  <2>3. Reached'
    BY <1>1, <2>1, <2>2, ReachedVisit DEF QueueInv
  <2> QED BY <2>1, <2>3 DEF QueueInv, Failed
<1>6. CASE Visit /\ phase' = "over"
  <2>1. /\ UNCHANGED <<world, queue, followed, at>> /\ phase = "snapshot" /\ seen \subseteq seen'
    <3>1. Choice(Here, Online, locked, store, Head(queue)[1], Head(queue)[2]).version = NoVersion
      BY <1>6 DEF Visit
    <3> QED BY <1>6, <3>1 DEF Visit
  <2>2. Reached'
    BY <2>1, ReachedStays DEF QueueInv
  <2>3. Calls' = Calls /\ \A c \in Calls : c.via \in {"import", "require"} => at'[c].pc = "idle"
    BY <2>1 DEF StageInv, CallStage, Calls, Here
  <2> QED BY <1>6, <2>2, <2>3 DEF QueueInv
<1>7. CASE SnapshotEnds \/ StartRun \/ PrefetchEnds \/ BuildMap \/ ChildOpens \/ ProgramEnds
  <2>1. /\ UNCHANGED <<world, queue, seen, followed, at>>
        /\ \/ phase = "snapshot" /\ queue = << >> /\ phase' = "start"
           \/ phase \in {"start", "prefetch", "map", "spawn", "running"}
                /\ phase' \in {"prefetch", "map", "spawn", "running", "over"}
    BY <1>7 DEF SnapshotEnds, StartRun, PrefetchEnds, BuildMap, ChildOpens, ProgramEnds, History
  <2> QED BY <2>1, QueueRests
<1>8. CASE Rewrite
  BY <1>8, QueueRests DEF Rewrite
<1>9. CASE Over \/ UNCHANGED vars
  <2>1. UNCHANGED <<world, phase, queue, seen, followed, at>>
    BY <1>9 DEF Over, vars
  <2> QED BY <2>1, QueueRests
<1> QED BY <1>2, <1>3, <1>4, <1>5, <1>6, <1>7, <1>8, <1>9 DEF Next, Snapshot, Run

------------------------------------------------------------------------------
(* The lock *)

\* What a lock serves it goes on to serve when p is entered and spec visited.
LEMMA CoversStays ==
    ASSUME TypeInv, NEW lock \in [Packages -> Entries], Covers(lock),
           NEW p \in Packages, NEW as \in Entries, Kept([lock EXCEPT ![p] = as], store', p),
           store \subseteq store', NEW spec \in seen
    PROVE  TakesMember(Here, spec[1], spec[2]) \/ Excused(spec)
             \/ Serves([lock EXCEPT ![p] = as], store', spec)
<1>1. PICK n \in Names, r \in Ranges : spec = <<n, r>>
  BY DEF TypeInv
<1>2. CASE Serves(lock, store, spec)
  <2> DEFINE lock_1 == [lock EXCEPT ![p] = as]
  <2>1. Serves(lock_1, store', <<n, r>>)
    BY <1>1, <1>2, ServesStays
  <2> HIDE DEF lock_1
  <2>2. Serves(lock_1, store', spec)
    BY <1>1, <2>1
  <2> QED BY <2>2 DEF lock_1
<1> QED BY <1>2 DEF Covers

\* A step that puts p into the lock.
LEMMA LockGrows ==
    ASSUME TypeInv, LockOK, UNCHANGED <<world, phase>>, NEW p \in Packages, NEW as \in Entries,
           locked' = [locked EXCEPT ![p] = as],
           \/ as = "object" /\ p \in store'
           \/ as = "workspace" /\ TakenOver(p),
           store \subseteq store',
           \A spec \in seen' \ seen : \/ TakesMember(Here, spec[1], spec[2])
                                      \/ Excused(spec)
                                      \/ Serves(locked', store', spec),
           \A o \in followed' \ followed : o[1] = "package" => o = PackageCode(p) /\ as = "object"
    PROVE  LockOK'
<1>1. locked \in [Packages -> Entries]
  BY DEF TypeInv, Honest
<1>2. locked'[p] = as /\ \A q \in Packages : q # p => locked'[q] = locked[q]
  BY <1>1
<1>3. Kept(locked', store', p)
  BY <1>2 DEF Kept
<1>4. Here' = Here
  BY DEF Here
<1>5. \A spec \in seen' : \/ TakesMember(Here, spec[1], spec[2])
                          \/ Excused(spec)
                          \/ Serves(locked', store', spec)
  BY <1>1, <1>3, CoversStays DEF LockOK
<1>6. Covers(locked)'
  BY <1>4, <1>5 DEF Covers, Excused, Complete, Serves, Kept
<1>7. Follows(locked)'
  <2>1. ASSUME NEW q \in Packages, PackageCode(q) \in followed'
        PROVE  locked'[q] = "object" \/ TakenOver(q)
    <3>1. q = <<q[1], q[2]>> /\ p = <<p[1], p[2]>>
      BY DEF Packages
    <3>2. CASE q = p
      BY <1>2, <3>2
    <3>3. CASE q # p
      <4>1. PackageCode(q)[1] = "package" /\ PackageCode(q) # PackageCode(p)
        BY <3>1, <3>3 DEF PackageCode
      <4>2. PackageCode(q) \in followed
        BY <2>1, <4>1
      <4> QED BY <1>2, <3>3, <4>2 DEF LockOK, Follows
    <3> QED BY <3>2, <3>3
  <2> QED BY <1>4, <2>1 DEF Follows, TakenOver
<1>8. phase' = "snapshot" => AllKept'
  <2>1. ASSUME NEW q \in Packages, locked[q] = "absent" \/ Kept(locked, store, q)
        PROVE  locked'[q] = "absent" \/ Kept(locked', store', q)
    BY <1>2, <1>3, <2>1 DEF Kept
  <2> QED BY <1>4, <2>1 DEF LockOK, AllKept, Complete, Kept
<1> QED BY <1>6, <1>7, <1>8 DEF LockOK

\* Steps that change no lock, or have one take the place of the other.
LEMMA LockRests ==
    ASSUME LockInv, UNCHANGED <<world, queue, seen, store, followed>>,
           rewritten' \/ ~rewritten,
           ~rewritten' => \/ UNCHANGED <<phase, file, locked>>
                          \/ phase = "snapshot" /\ locked' = locked /\ phase' = "start" /\ file' = locked
                          \/ /\ phase \notin {"snapshot", "over"} /\ phase' # "snapshot"
                             /\ locked' \in {file, locked}
                             /\ file' \in {file, locked},
           Failed => Failed'
    PROVE  LockInv'
<1> SUFFICES ASSUME ~Failed', ~rewritten' PROVE LockInv'
  BY DEF LockInv
<1>1. /\ Covers(locked) /\ Follows(locked) /\ (phase = "snapshot" => AllKept)
      /\ phase \notin {"snapshot", "over"} => Covers(file) /\ Follows(file)
  BY DEF LockInv, LockOK
<1>2. Here' = Here
  BY DEF Here
<1>3. ASSUME NEW lock, Follows(lock)
      PROVE  \A p \in Packages : PackageCode(p) \in followed' => lock[p] = "object" \/ TakenOver(p)'
  BY <1>2, <1>3 DEF Follows, TakenOver
<1>4. ASSUME Covers(locked), locked' = locked PROVE Covers(locked)'
  BY <1>2, <1>4 DEF Covers, Excused, Complete, Serves, Kept
<1>5. ASSUME Covers(file), locked' = file PROVE Covers(locked)'
  BY <1>2, <1>5 DEF Covers, Excused, Complete, Serves, Kept
<1>6. ASSUME Covers(locked), file' = locked PROVE Covers(file)'
  BY <1>2, <1>6 DEF Covers, Excused, Complete, Serves, Kept
<1>7. ASSUME Covers(file), file' = file PROVE Covers(file)'
  BY <1>2, <1>7 DEF Covers, Excused, Complete, Serves, Kept
<1>8. /\ Follows(locked) /\ locked' = locked => Follows(locked)'
      /\ Follows(file) /\ locked' = file => Follows(locked)'
      /\ Follows(locked) /\ file' = locked => Follows(file)'
      /\ Follows(file) /\ file' = file => Follows(file)'
  BY <1>3 DEF Follows
<1>9. AllKept /\ locked' = locked => AllKept'
  BY <1>2 DEF AllKept, Complete, Kept
<1>10. CASE UNCHANGED <<phase, file, locked>>
  BY <1>1, <1>4, <1>7, <1>8, <1>9, <1>10 DEF LockInv, LockOK
<1>11. CASE phase = "snapshot" /\ locked' = locked /\ phase' = "start" /\ file' = locked
  BY <1>1, <1>4, <1>6, <1>8, <1>11 DEF LockInv, LockOK
<1>12. CASE /\ phase \notin {"snapshot", "over"} /\ phase' # "snapshot"
            /\ locked' \in {file, locked} /\ file' \in {file, locked}
  BY <1>1, <1>4, <1>5, <1>6, <1>7, <1>8, <1>12 DEF LockInv, LockOK
<1> QED BY <1>10, <1>11, <1>12

LEMMA LockVisit == ASSUME TypeInv, LockInv, Visit, ~Failed', ~rewritten' PROVE LockOK'
<1>1. phase' # "over" /\ phase = "snapshot"
  <2>1. CASE Choice(Here, Online, locked, store, Head(queue)[1], Head(queue)[2]).version = NoVersion
    BY <2>1 DEF Visit, Failed
  <2> QED BY <2>1 DEF Visit
<1> DEFINE p == <<Head(queue)[1], Choice(Here, Online, locked, store, Head(queue)[1], Head(queue)[2]).version>>
<1>2. /\ UNCHANGED <<world, phase, rewritten>> /\ p \in Packages
      /\ locked' = [locked EXCEPT ![p] = "object"] /\ store' = store \cup {p}
      /\ seen' = seen \cup {Head(queue)} /\ followed' = followed \cup {PackageCode(p)}
  BY <1>1, VisitFinds
<1> HIDE DEF p
<1>3. LockOK
  BY <1>1, <1>2 DEF LockInv, Failed
<1>4. Excused(Head(queue)) \/ Serves(locked', store', Head(queue))
  BY <1>1, <1>3, VisitServes DEF LockOK, AllKept
<1>5. "object" \in Entries /\ p \in store' /\ store \subseteq store'
  BY <1>2 DEF Entries
<1> QED BY <1>2, <1>3, <1>4, <1>5, LockGrows

LEMMA LockVisitMember == ASSUME TypeInv, LockInv, VisitMember, ~rewritten' PROVE LockOK'
<1>1. PICK m : /\ \E i \in DOMAIN Here.members : m = Here.members[i]
               /\ Real(MemberCode(m)) /\ <<m.name, m.version>> \in Packages
               /\ locked' = [locked EXCEPT ![<<m.name, m.version>>] = "workspace"]
               /\ followed' = followed \cup {MemberCode(m)} /\ seen' = seen \cup {Head(queue)}
  BY MemberVisit
<1>2. PICK p : p = <<m.name, m.version>>
  OBVIOUS
<1>3. /\ UNCHANGED <<world, phase, store, rewritten>> /\ phase = "snapshot"
      /\ TakesMember(Here, Head(queue)[1], Head(queue)[2])
  BY DEF VisitMember
<1>4. LockOK
  BY <1>3 DEF LockInv, Failed
<1>5. TakenOver(p) /\ p \in Packages /\ locked' = [locked EXCEPT ![p] = "workspace"]
  BY <1>1, <1>2 DEF TakenOver
<1>6. MemberCode(m)[1] # "package" /\ "workspace" \in Entries
  BY KindsOfOwners DEF Entries
<1> QED BY <1>1, <1>3, <1>4, <1>5, <1>6, LockGrows

\* A call of a sealed run puts members into the lock, or nothing.
LEMMA LockCall ==
    ASSUME StageInv, FetchInv, Sealed, LockInv, NEW c \in Calls,
           Call(c) \/ OutsiderStarts(c) \/ OutsiderDies(c)
    PROVE  LockInv'
<1>1. UNCHANGED <<Rest, file>> /\ \A d \in Calls \ {c} : at'[d] = at[d]
  BY CallMoves
<1>2. UNCHANGED store /\ TypeInv
  BY SealedCall DEF StageInv
<1>3. UNCHANGED <<world, phase, queue, seen, followed, file, rewritten>>
  BY <1>1 DEF Rest
<1>4. CASE UNCHANGED locked
  BY <1>2, <1>3, <1>4, LockRests DEF Failed
<1>5. ASSUME NEW i \in DOMAIN Here.members, locked' = Remembered(Here.members[i]) PROVE LockInv'
  <2>1. PICK p : p = <<Here.members[i].name, Here.members[i].version>>
    OBVIOUS
  <2>2. locked' = [locked EXCEPT ![p] = "workspace"] /\ TakenOver(p) /\ "workspace" \in Entries
    BY <1>5, <2>1 DEF Remembered, TakenOver, Entries
  <2>3. p \in Packages
    <3>1. world \in Worlds
      BY <1>2 DEF TypeInv, TearInv, Shape
    <3> QED BY <2>1, <3>1, MemberFacts, MembersKnown
  <2>4. ASSUME ~Failed', ~rewritten'
        PROVE  LockOK' /\ (phase' \notin {"snapshot", "over"} => Covers(file)' /\ Follows(file)')
    <3>1. LockOK /\ (phase \notin {"snapshot", "over"} => Covers(file) /\ Follows(file))
      BY <1>3, <2>4 DEF LockInv, Failed
    <3>2. LockOK'
      BY <1>2, <1>3, <2>2, <2>3, <3>1, LockGrows
    <3>3. Here' = Here
      BY <1>3 DEF Here
    <3>4. Covers(file) => Covers(file)'
      BY <1>2, <1>3, <3>3 DEF Covers, Excused, Complete, Serves, Kept
    <3>5. Follows(file) => Follows(file)'
      BY <1>3, <3>3 DEF Follows, TakenOver
    <3> QED BY <1>3, <3>1, <3>2, <3>4, <3>5
  <2> QED BY <2>4 DEF LockInv
<1> QED BY <1>4, <1>5, LockWrites DEF FetchInv

LEMMA LockStep ==
    ASSUME StageInv, QueueInv, FetchInv, Sealed, LockInv, [Next]_vars
    PROVE  LockInv'
<1>1. TypeInv
  BY DEF StageInv
<1>2. ASSUME NEW c \in Calls, Call(c) \/ OutsiderStarts(c) \/ OutsiderDies(c) PROVE LockInv'
  BY <1>2, LockCall
<1>3. CASE Skip
  <2>1. UNCHANGED <<world, phase, file, locked, store, seen, followed, rewritten>> /\ phase = "snapshot"
    BY <1>3 DEF Skip, Shared, History
  <2>2. Here' = Here
    BY <2>1 DEF Here
  <2>3. Covers(locked) => Covers(locked)'
    BY <2>1, <2>2 DEF Covers, Excused, Complete, Serves, Kept
  <2>4. Follows(locked) => Follows(locked)'
    BY <2>1, <2>2 DEF Follows, TakenOver
  <2>5. AllKept => AllKept'
    BY <2>1, <2>2 DEF AllKept, Complete, Kept
  <2> QED BY <2>1, <2>3, <2>4, <2>5 DEF LockInv, LockOK, Failed
<1>4. CASE Visit
  <2>1. ~Failed' => phase' = "snapshot"
    BY <1>4 DEF Visit, Failed
  <2> QED BY <1>1, <1>4, <2>1, LockVisit DEF LockInv
<1>5. CASE VisitMember
  <2>1. phase' = "snapshot"
    BY <1>5 DEF VisitMember
  <2> QED BY <1>1, <1>5, <2>1, LockVisitMember DEF LockInv
<1>6. CASE SnapshotEnds
  <2>1. /\ UNCHANGED <<world, queue, seen, store, followed, rewritten, locked>>
        /\ phase = "snapshot" /\ phase' = "start" /\ file' = locked
    BY <1>6 DEF SnapshotEnds, History
  <2> QED BY <2>1, LockRests DEF Failed
<1>7. CASE StartRun \/ PrefetchEnds \/ BuildMap \/ ChildOpens \/ ProgramEnds
  <2>1. /\ UNCHANGED <<world, queue, seen, store, followed, rewritten>>
        /\ phase \in {"start", "prefetch", "map", "spawn", "running"} /\ phase' # "snapshot"
        /\ locked' \in {file, locked} /\ file' \in {file, locked}
    BY <1>7 DEF StartRun, PrefetchEnds, BuildMap, ChildOpens, ProgramEnds, History, Shared
  <2> QED BY <2>1, LockRests DEF Failed
<1>8. CASE Rewrite
  <2>1. UNCHANGED <<world, queue, seen, store, followed, phase>> /\ rewritten' = TRUE
    BY <1>8 DEF Rewrite
  <2> QED BY <2>1 DEF LockInv
<1>9. CASE Over \/ UNCHANGED vars
  <2>1. UNCHANGED <<world, phase, queue, seen, followed, store, file, locked, rewritten>>
    BY <1>9 DEF Over, vars
  <2> QED BY <2>1, LockRests DEF Failed
<1> QED BY <1>2, <1>3, <1>4, <1>5, <1>6, <1>7, <1>8, <1>9 DEF Next, Snapshot, Run

------------------------------------------------------------------------------
(* Steps of commands *)

LEMMA CommandsRest ==
    ASSUME Snapshot \/ Run \/ Rewrite \/ Over \/ UNCHANGED vars
    PROVE  UNCHANGED <<world, mode, at>> /\ (rewritten' = rewritten \/ rewritten' = TRUE)
<1>1. CASE Snapshot
  BY <1>1 DEF Snapshot, Skip, VisitMember, Visit, SnapshotEnds, History
<1>2. CASE Run
  BY <1>2 DEF Run, StartRun, PrefetchEnds, BuildMap, ChildOpens, ProgramEnds, History
<1>3. CASE Rewrite
  BY <1>3 DEF Rewrite
<1>4. CASE Over \/ UNCHANGED vars
  BY <1>4 DEF Over, vars
<1> QED BY <1>1, <1>2, <1>3, <1>4

------------------------------------------------------------------------------
(* Calls, directories and require() *)

LEMMA FetchStep == ASSUME StageInv, FetchInv, Sealed, [Next]_vars PROVE FetchInv'
<1>1. ASSUME NEW c \in Calls, Call(c) \/ OutsiderStarts(c) \/ OutsiderDies(c) PROVE FetchInv'
  <2>1. UNCHANGED Rest /\ \A d \in Calls \ {c} : at'[d] = at[d]
    BY <1>1, CallMoves
  <2>2. Calls' = Calls
    BY <2>1 DEF Rest, Calls, Here
  <2>3. at'[c].pc \notin {"fetch", "ingest"} /\ ~at'[c].fetched
    BY <1>1, SealedCall DEF StageInv
  <2> QED BY <2>1, <2>2, <2>3 DEF FetchInv
<1>2. CASE Snapshot \/ Run \/ Rewrite \/ Over \/ UNCHANGED vars
  <2>1. UNCHANGED <<world, at>>
    BY <1>2, CommandsRest
  <2> QED BY <2>1 DEF FetchInv, Calls, Here
<1> QED BY <1>1, <1>2 DEF Next

\* Nobody else begins to unpack, and a sealed call is no outsider's.
LEMMA AloneCall ==
    ASSUME StageInv, FetchInv, Sealed, NEW c \in Calls,
           Call(c) \/ OutsiderStarts(c) \/ OutsiderDies(c), Alone'
    PROVE  Alone /\ c.via # "outside" /\ phase # "snapshot"
<1>1. UNCHANGED Rest /\ \A d \in Calls \ {c} : at'[d] = at[d]
  BY CallMoves
<1>2. Calls' = Calls
  BY <1>1 DEF Rest, Calls, Here
<1>3. at'[c].pc # "idle"
  BY SealedCall DEF StageInv
<1>4. c.via # "outside"
  BY <1>2, <1>3 DEF Alone
<1>5. Alone
  BY <1>1, <1>2, <1>4 DEF Alone
<1>6. phase # "snapshot"
  <2> SUFFICES ASSUME phase = "snapshot" PROVE FALSE
    OBVIOUS
  <2>1. at[c].pc = "idle"
    <3>1. c.via \in {"import", "require", "prefetch", "outside"}
      BY CallTypes DEF StageInv, TypeInv, TearInv, Shape
    <3> QED BY <1>4, <3>1 DEF StageInv, CallStage
  <2> QED BY <1>4, <2>1 DEF Call, Require, Fetch, Check, Wipe, Extract, ExtractFails,
                            RemovalFails, Ingest, Entry, Requests, OutsiderStarts, OutsiderDies
<1> QED BY <1>4, <1>5, <1>6

LEMMA DiskCall ==
    ASSUME StageInv, FetchInv, DiskInv, Sealed, NEW c \in Calls,
           Call(c) \/ OutsiderStarts(c) \/ OutsiderDies(c)
    PROVE  DiskInv'
<1> SUFFICES ASSUME Alone' PROVE DiskInv'
  BY DEF DiskInv
<1>1. UNCHANGED Rest /\ \A d \in Calls \ {c} : at'[d] = at[d]
  BY CallMoves
<1>2. Calls' = Calls /\ Stored' = Stored /\ phase' = phase /\ followed' = followed
        /\ \A p : FilesOf(p)' = FilesOf(p)
  BY <1>1, WorldStays DEF Rest, Same
<1>3. Alone /\ phase # "snapshot"
  BY AloneCall
<1>4. Fills(c)
  BY SealedCall DEF StageInv
<1>5. ASSUME NEW p \in Stored, PackageCode(p) \in followed
      PROVE  disk'[p] = FilesOf(p) /\ \A d \in Calls : at'[d].pc \in Filling => PackageOf(at'[d].of) # p
  <2>1. disk[p] = FilesOf(p) /\ \A d \in Calls : at[d].pc \in Filling => Target(d) # p
    BY <1>3, <1>5 DEF DiskInv, Whole, Filling
  <2>2. disk'[p] = FilesOf(p)
    BY <1>4, <2>1 DEF Fills
  <2>3. Manifest \in disk[p]
    BY <2>1, ManifestFacts DEF StageInv, TypeInv, TearInv, Shape
  <2>4. at'[c].pc \in Filling => PackageOf(at'[c].of) # p
    BY <1>4, <2>1, <2>3 DEF Fills, Target, Unpacked
  <2>5. ASSUME NEW d \in Calls \ {c}, at'[d].pc \in Filling PROVE PackageOf(at'[d].of) # p
    BY <1>1, <2>1, <2>5 DEF Target
  <2> QED BY <2>2, <2>4, <2>5
<1> QED BY <1>2, <1>3, <1>5 DEF DiskInv, Whole, Target, Filling

\* Visits unpack what nobody else unpacks.
LEMMA DiskVisit == ASSUME StageInv, DiskInv, Visit, phase' # "over" PROVE DiskInv'
<1> SUFFICES ASSUME Alone' PROVE DiskInv'
  BY DEF DiskInv
<1> DEFINE p == <<Head(queue)[1], Choice(Here, Online, locked, store, Head(queue)[1], Head(queue)[2]).version>>
<1>1. /\ UNCHANGED <<world, at, torn>> /\ phase = "snapshot" /\ p \in Stored
      /\ disk' = [disk EXCEPT ![p] = IF Manifest \in @ THEN @ ELSE FilesOf(p)]
      /\ followed' = followed \cup {PackageCode(p)}
  BY VisitFinds DEF StageInv
<1> HIDE DEF p
<1>2. Calls' = Calls /\ Stored' = Stored /\ \A q : FilesOf(q)' = FilesOf(q)
  BY <1>1, WorldStays DEF Same
<1>3. Alone /\ torn = {}
  BY <1>1, <1>2 DEF Alone, DiskInv
<1>4. \A c \in Calls : at[c].pc = "idle"
  <2>1. \A c \in Calls : c.via \in {"import", "require", "prefetch", "outside"}
    BY CallTypes DEF StageInv, TypeInv, TearInv, Shape
  <2> QED BY <1>1, <1>3, <2>1 DEF StageInv, CallStage, Alone
<1>5. DOMAIN disk = Stored /\ (disk[p] = {} \/ disk[p] = FilesOf(p))
  <2>1. DirectoryOK(p) /\ DOMAIN disk = Stored
    BY <1>1 DEF StageInv, TypeInv, TearInv, Shape
  <2> QED BY <1>3, <1>4, <2>1 DEF DirectoryOK, Extracting, Whole
<1>6. disk'[p] = FilesOf(p) /\ \A q \in Stored : q # p => disk'[q] = disk[q]
  BY <1>1, <1>5
<1>7. ASSUME NEW q \in Stored, PackageCode(q) \in followed' PROVE disk'[q] = FilesOf(q)
  <2>1. CASE q = p
    BY <1>6, <2>1
  <2>2. CASE q # p
    <3>1. q = <<q[1], q[2]>> /\ p = <<p[1], p[2]>>
      BY <1>1, WorldFacts DEF StageInv, TypeInv, TearInv, Shape, Packages
    <3>2. PackageCode(q) \in followed
      BY <1>1, <1>7, <2>2, <3>1 DEF PackageCode
    <3> QED BY <1>3, <1>6, <2>2, <3>2 DEF DiskInv, Whole
  <2> QED BY <2>1, <2>2
<1>8. torn' = {} /\ \A c \in Calls : at'[c].pc = "idle"
  BY <1>1, <1>3, <1>4
<1> QED BY <1>2, <1>7, <1>8 DEF DiskInv, Whole

LEMMA DiskStep == ASSUME StageInv, FetchInv, DiskInv, Sealed, [Next]_vars PROVE DiskInv'
<1>1. ASSUME NEW c \in Calls, Call(c) \/ OutsiderStarts(c) \/ OutsiderDies(c) PROVE DiskInv'
  BY <1>1, DiskCall
<1>2. CASE Visit /\ phase' # "over"
  BY <1>2, DiskVisit
<1>3. ASSUME UNCHANGED <<world, at, disk, torn>>, phase' = "snapshot" => phase = "snapshot",
             \A p \in Packages : PackageCode(p) \in followed' => PackageCode(p) \in followed
      PROVE  DiskInv'
  <2>1. Calls' = Calls /\ Stored' = Stored /\ \A q : FilesOf(q)' = FilesOf(q)
    BY <1>3, WorldStays DEF Same
  <2>2. Stored \subseteq Packages
    BY WorldFacts DEF StageInv, TypeInv, TearInv, Shape
  <2>3. Alone' => Alone
    BY <1>3, <2>1 DEF Alone
  <2>4. \A c : Target(c)' = Target(c)
    BY <1>3 DEF Target
  <2> QED BY <1>3, <2>1, <2>2, <2>3, <2>4 DEF DiskInv, Whole
<1>4. CASE Visit /\ phase' = "over"
  <2>1. Choice(Here, Online, locked, store, Head(queue)[1], Head(queue)[2]).version = NoVersion
    BY <1>4 DEF Visit
  <2> QED BY <1>3, <1>4, <2>1 DEF Visit
<1>5. CASE VisitMember
  <2>1. PICK m : followed' = followed \cup {MemberCode(m)}
    BY <1>5, MemberVisit DEF StageInv
  <2>2. MemberCode(m)[1] = "workspace" /\ \A p : PackageCode(p)[1] = "package"
    BY DEF MemberCode, PackageCode
  <2> QED BY <1>3, <1>5, <2>1, <2>2 DEF VisitMember
<1>6. CASE Skip \/ SnapshotEnds
  BY <1>3, <1>6 DEF Skip, SnapshotEnds, History
<1>7. CASE StartRun \/ PrefetchEnds \/ BuildMap \/ ChildOpens \/ ProgramEnds
  BY <1>3, <1>7 DEF StartRun, PrefetchEnds, BuildMap, ChildOpens, ProgramEnds, History
<1>8. CASE Rewrite \/ Over \/ UNCHANGED vars
  BY <1>3, <1>8 DEF Rewrite, Over, vars
<1> QED BY <1>1, <1>2, <1>4, <1>5, <1>6, <1>7, <1>8 DEF Next, Snapshot, Run

\* A name without an entry in the map: the packages that the snapshot followed offer none.
LEMMA NowhereOffers ==
    ASSUME StageInv, DiskInv, LockInv, Alone, ~rewritten, phase = "map",
           NEW n \in Names, LastOffering(n) = Nowhere
    PROVE  NothingOffered(n)
<1> SUFFICES ASSUME NEW p \in Stored, p[1] = n, PackageCode(p) \in followed, ~TakenOver(p)
             PROVE  ResolvePackageEntry(FilesOf(p), Here.packages[p].json, Root, RequireConditions) = NoFile
  BY DEF NothingOffered
<1>1. world \in Worlds /\ p \in Packages /\ p = <<n, p[2]>> /\ p[2] \in Versions
  BY WorldFacts DEF StageInv, TypeInv, TearInv, Shape, Packages
<1>2. locked[p] = "object"
  BY <1>1 DEF LockInv, LockOK, Failed, Follows
<1>3. CodeOf(p) = PackageCode(p) /\ PackageCode(p) # Nowhere
  BY <1>2 DEF CodeOf, PackageCode, Nowhere
<1>4. PackageOf(PackageCode(p)) = p /\ PackageCode(p)[1] = "package"
  BY <1>1 DEF PackageOf, PackageCode
<1>5. Tree(PackageCode(p)) = FilesOf(p) /\ Described(Here, PackageCode(p)) = Here.packages[p]
  BY <1>4 DEF DiskInv, Whole, Tree, Described
<1>6. Manifest \in FilesOf(p)
  BY <1>1, ManifestFacts
<1>7. RequireEntry(CodeOf(p)) = ResolvePackageEntry(FilesOf(p), Here.packages[p].json, Root, RequireConditions)
  BY <1>3, <1>5, <1>6 DEF RequireEntry
<1> DEFINE offering == {i \in DOMAIN TextOrder : RequireEntry(CodeOf(<<n, TextOrder[i]>>)) # NoFile}
           last == CHOOSE i \in offering : \A j \in offering : j <= i
<1>8. PICK i \in DOMAIN TextOrder : TextOrder[i] = p[2]
  BY <1>1, VersionsAssumption
<1>9. CASE offering = {}
  <2>1. RequireEntry(CodeOf(<<n, TextOrder[i]>>)) = NoFile
    BY <1>9
  <2> QED BY <1>1, <1>7, <1>8, <2>1
<1>10. CASE offering # {}
  <2>1. LastOffering(n) = CodeOf(<<n, TextOrder[last]>>)
    BY <1>10 DEF LastOffering
  <2>2. Len(TextOrder) \in Nat /\ DOMAIN TextOrder = 1 .. Len(TextOrder)
    BY VersionsAssumption
  <2>3. offering \in SUBSET (1 .. Len(TextOrder))
    BY <2>2
  <2>4. \A k \in offering : RequireEntry(CodeOf(<<n, TextOrder[k]>>)) # NoFile
    OBVIOUS
  <2> HIDE DEF offering
  <2>5. \E k \in offering : \A j \in offering : j <= k
    BY <1>10, <2>2, <2>3, GreatestIndex
  <2>6. last \in offering
    BY <2>5
  <2> HIDE DEF last
  <2>7. RequireEntry(Nowhere) # NoFile
    BY <2>1, <2>4, <2>6
  <2> QED BY <2>7 DEF RequireEntry
<1> QED BY <1>9, <1>10

LEMMA OffersStays ==
    ASSUME UNCHANGED <<world, followed>>, NEW n, NothingOffered(n)
    PROVE  NothingOffered(n)'
BY DEF NothingOffered, Stored, FilesOf, TakenOver, Here

LEMMA MapStep ==
    ASSUME StageInv, FetchInv, DiskInv, LockInv, MapInv, Sealed, [Next]_vars
    PROVE  MapInv'
<1> SUFFICES ASSUME phase' \in {"spawn", "running"}, Alone', ~rewritten' PROVE MapInv'
  BY DEF MapInv
<1>1. ASSUME UNCHANGED <<world, followed, modules>>, phase \in {"spawn", "running"}, ~rewritten, Alone
      PROVE  MapInv'
  <2>1. ASSUME NEW n \in Names, modules'[n].of = Nowhere PROVE NothingOffered(n)'
    BY <1>1, <2>1, OffersStays DEF MapInv
  <2> QED BY <2>1 DEF MapInv
<1>2. ASSUME NEW c \in Calls, Call(c) \/ OutsiderStarts(c) \/ OutsiderDies(c) PROVE MapInv'
  <2>1. UNCHANGED <<world, followed, modules, phase, rewritten>>
    BY <1>2, CallMoves DEF Rest
  <2>2. Alone
    BY <1>2, AloneCall
  <2> QED BY <1>1, <2>1, <2>2
<1>3. UNCHANGED <<world, at>> => Alone
  BY DEF Alone, Calls, Here
<1>4. CASE Snapshot \/ StartRun \/ PrefetchEnds
  BY <1>4 DEF Snapshot, Skip, VisitMember, Visit, SnapshotEnds, StartRun, PrefetchEnds
<1>5. CASE BuildMap
  <2>1. /\ UNCHANGED <<world, at, followed, rewritten>> /\ phase = "map"
        /\ modules' = [n \in Names |-> [of |-> LastOffering(n), file |-> RequireEntry(LastOffering(n))]]
    BY <1>5 DEF BuildMap, History
  <2>2. ASSUME NEW n \in Names, modules'[n].of = Nowhere PROVE NothingOffered(n)'
    <3>1. LastOffering(n) = Nowhere
      BY <2>1, <2>2
    <3>2. NothingOffered(n)
      BY <1>3, <2>1, <3>1, NowhereOffers
    <3> QED BY <2>1, <3>2, OffersStays
  <2> QED BY <2>2 DEF MapInv
<1>6. CASE ChildOpens \/ ProgramEnds
  BY <1>1, <1>3, <1>6 DEF ChildOpens, ProgramEnds, History
<1>7. CASE Rewrite \/ Over \/ UNCHANGED vars
  BY <1>1, <1>3, <1>7 DEF Rewrite, Over, vars
<1> QED BY <1>2, <1>4, <1>5, <1>6, <1>7 DEF Next, Run

------------------------------------------------------------------------------
(* What becomes of a call *)

LEMMA FirstTaken == ASSUME NEW no, NEW a, NEW b, NEW d, a # no PROVE FirstBut(no, <<a, b, d>>) = a
<1> DEFINE s == <<a, b, d>>
           I == {i \in DOMAIN s : s[i] # no}
           first == CHOOSE i \in I : \A j \in I : i <= j
<1>1. DOMAIN s = 1 .. 3 /\ s[1] = a
  OBVIOUS
<1> HIDE DEF s
<1>2. 1 \in I /\ \A j \in I : j \in Nat /\ 1 <= j
  BY <1>1
<1>3. FirstBut(no, s) = s[first]
  BY <1>2 DEF FirstBut
<1> HIDE DEF I
<1>4. first \in I /\ first <= 1
  BY <1>2
<1>5. first = 1
  BY <1>2, <1>4
<1> HIDE DEF first
<1> QED BY <1>1, <1>3, <1>5 DEF s

\* A dependency that an importer declares, in the range that it declares.
LEMMA RangeTaken ==
    ASSUME world \in Worlds, NEW o, Real(o), NEW n \in DOMAIN Described(Here, o).dependencies
    PROVE  /\ n \in Names /\ Described(Here, o).dependencies[n] \in Ranges
           /\ RangeForImporter(Here, o, n) = Described(Here, o).dependencies[n]
<1> DEFINE d == Described(Here, o)
           importer == Importer(Here, o)
           range == d.dependencies[n]
<1>1. d.dependencies \in Declarations
  BY DescribedIs DEF IsManifest
<1>2. n \in Names /\ range \in Ranges
  BY <1>1 DEF Declarations
<1>3. At(importer.dependencies, n) = range
  <2>1. CASE o = Project
    <3> DEFINE deps == d.dependencies
               dev == d.development
               both == [k \in DOMAIN deps \cup DOMAIN dev |-> IF k \in DOMAIN deps THEN deps[k] ELSE dev[k]]
    <3>1. importer.dependencies = both
      BY <2>1 DEF Importer
    <3>2. n \in DOMAIN both /\ both[n] = range
      OBVIOUS
    <3> HIDE DEF both
    <3> QED BY <3>1, <3>2 DEF At
  <2>2. CASE o # Project
    BY <2>2 DEF Importer, At
  <2> QED BY <2>1, <2>2
<1>4. range # Undeclared
  BY <1>2, RangesAssumption
<1> HIDE DEF importer, range
<1>5. RangeForImporter(Here, o, n) = At(importer.dependencies, n)
  BY <1>3, <1>4, FirstTaken DEF RangeForImporter, importer
<1> QED BY <1>2, <1>3, <1>5 DEF range

\* A request of a followed owner for a dependency of its own.
LEMMA RequestOwn ==
    ASSUME StageInv, HeldInv, NEW c \in Calls, c.via = "import", NEW r \in Requests(c),
           ~Mistakable(c.owner), c.spec.name \in DOMAIN Described(Here, c.owner).dependencies
    PROVE  /\ phase = "running" /\ r.kind = "package" /\ r.name = c.spec.name /\ r.name \in Names
           /\ r.range = Described(Here, c.owner).dependencies[r.name] /\ r.range \in Ranges
<1> DEFINE o == c.owner
           n == c.spec.name
<1>1. world \in Worlds /\ TypeInv /\ o \in loaded /\ Real(o)
  BY RequestTyped DEF StageInv, TypeInv, TearInv, Shape
<1>2. o # Outsider /\ o # Prefetching
  BY <1>1, CallTypes
<1>3. r.importer = o
  <2>1. IdentifyImporter(Here, locked, o) = o
    BY <1>1, <1>2, Identified
  <2> QED BY <1>1, <2>1, RequestTyped
<1>4. r = Request(c, o, Mapped(c, o))
  BY <1>1, <1>3, RequestTyped
<1>5. /\ n \in Names /\ Described(Here, o).dependencies[n] \in Ranges
      /\ RangeForImporter(Here, o, n) = Described(Here, o).dependencies[n]
  BY <1>1, RangeTaken
<1>6. Mapped(c, o) = [kind |-> "package", specifier |-> c.spec, file |-> NoFile]
  BY <1>5, NamesAssumption DEF Mapped
<1>7. r.kind = "package" /\ r.name = n /\ r.range = RangeOf(c, o, n)
  BY <1>4, <1>6 DEF Request
<1>8. RangeOf(c, o, n) = RangeForImporter(Here, o, n)
  BY DEF RangeOf
<1>9. phase = "running"
  BY DEF Requests
<1> QED BY <1>5, <1>7, <1>8, <1>9

\* A sealed run refuses only what is excused.
LEMMA FailsExcused ==
    ASSUME StageInv, HeldInv, QueueInv, LockInv, Sealed, NEW c \in Calls, c.via = "import",
           NEW r \in Requests(c), Fails(c, r), c.owner \in followed, ~Mistakable(c.owner),
           at'[c].pc \in {"missing", "unresolved"},
           c.spec.name \in DOMAIN Described(Here, c.owner).dependencies
    PROVE  Excused(<<c.spec.name, Described(Here, c.owner).dependencies[c.spec.name]>>)
<1> DEFINE n == r.name
           range == r.range
           spec == <<n, range>>
<1>1. /\ phase = "running" /\ r.kind = "package" /\ n = c.spec.name /\ n \in Names
      /\ range = Described(Here, c.owner).dependencies[n] /\ range \in Ranges
  BY RequestOwn
<1>2. world \in Worlds /\ ~rewritten
  BY DEF StageInv, TypeInv, TearInv, Shape, Mistakable
<1>3. spec \in Needs(c.owner)
  BY <1>1 DEF Needs
<1>4. spec \in seen
  <2>1. queue = << >> /\ (spec \in seen \/ Among(spec, queue))
    BY <1>1, <1>3 DEF QueueInv, Reached
  <2> QED BY <2>1 DEF Among
<1>5. TakesMember(Here, n, range) \/ Excused(spec) \/ Serves(locked, store, spec)
  <2>1. Covers(locked)
    BY <1>1, <1>2 DEF LockInv, LockOK, Failed
  <2> QED BY <1>4, <2>1 DEF Covers
<1>6. IsMember(Here.members, n) => ResolveWorkspacePackage(Here.members, n, range) # NoMember
  BY <1>2, MemberFacts, MembersKnown, MemberChosen
<1>7. ~IsMember(Here.members, n)
  BY <1>6 DEF Fails, Local
<1>8. ~TakesMember(Here, n, range)
  BY <1>7 DEF TakesMember
<1>9. ASSUME Serves(locked, store, spec) PROVE FALSE
  <2>1. range \notin Workspace
    <3>1. Sat[range] # {}
      BY <1>9 DEF Serves
    <3> QED BY <3>1, SatAssumption
  <2>2. ~Local(c, r)
    BY <1>7, <2>1 DEF Local
  <2>3. Choice(Here, mode, locked, store, n, range).act \in {"reuse", "member"}
    BY <1>1, <1>9, ServesAnswers DEF Sealed
  <2> QED BY <2>2, <2>3 DEF Fails
<1> QED BY <1>1, <1>5, <1>8, <1>9

\* A step of an import.
LEMMA ImportAnswered ==
    ASSUME StageInv, HeldInv, QueueInv, LockInv, Sealed, NEW c \in Calls, c.via = "import", Call(c),
           c.owner \in followed, ~Mistakable(c.owner), at'[c].pc \in {"missing", "unresolved"},
           c.spec.name \in DOMAIN Described(Here, c.owner).dependencies
    PROVE  Excused(<<c.spec.name, Described(Here, c.owner).dependencies[c.spec.name]>>)
<1>1. ~Require(c) /\ ~Onward(c) /\ ~Enters(c)
  BY DEF Require, Onward, Enters, Underway, Outcomes
<1>2. PICK r \in Requests(c) :
          ImportOwn(c, r) \/ ImportUndeclared(c, r) \/ UseMember(c, r) \/ Resolve(c, r)
  BY <1>1, OnwardIs, EntersIs DEF Call
<1>3. ASSUME NEW o, NEW pc, Settles(c, r, o, pc) PROVE FALSE
  BY <1>3 DEF Settles, Outcomes
<1> QED BY <1>2, <1>3, SettlesIs, FailsExcused

\* A step of require().
LEMMA RequireAnswered ==
    ASSUME StageInv, FetchInv, MapInv, Sealed, NEW c \in Calls, c.via = "require",
           Call(c) \/ OutsiderStarts(c) \/ OutsiderDies(c),
           at'[c].pc = "undeclared", c.spec.sub = Root, Alone', ~rewritten
    PROVE  NothingOffered(c.spec.name)
<1>1. Alone
  BY AloneCall
<1>2. at[c].pc = "idle"
  BY CallMoves DEF StageInv, CallStage
<1>3. Require(c)
  BY <1>2 DEF Call, Fetch, Check, Wipe, Extract, ExtractFails, RemovalFails, Ingest,
              Entry, Requests, OutsiderStarts, OutsiderDies
<1>4. modules[c.spec.name].of = Nowhere
  <2>1. at \in [Calls -> CallType]
    BY DEF StageInv, TypeInv
  <2> DEFINE found == modules[c.spec.name]
  <2>2. ASSUME at' = [at EXCEPT ![c].pc = Outcome(found.file), ![c].of = found.of, ![c].file = found.file]
        PROVE  FALSE
    <3> HIDE DEF found
    <3>1. at'[c].pc = Outcome(found.file)
      BY <2>1, <2>2 DEF CallType
    <3> QED BY <3>1 DEF Outcome
  <2> QED BY <1>3, <2>2 DEF Require
<1>5. c.spec.name \in Names /\ phase = "running"
  BY <1>3, CallTypes DEF Require, StageInv, TypeInv, TearInv, Shape
<1> QED BY <1>1, <1>4, <1>5 DEF MapInv

LEMMA AnsweredStays ==
    ASSUME StageInv, UNCHANGED world, NEW c \in Calls, at'[c] = at[c], rewritten => rewritten',
           Alone' => Alone, at[c].pc = "idle" \/ followed' = followed, Answered(c)
    PROVE  Answered(c)'
<1>1. Here' = Here
  BY DEF Here
<1>2. Mistakable(c.owner) => Mistakable(c.owner)'
  BY WorldOnly
<1>3. \A x : Excused(x)' = Excused(x)
  BY <1>1 DEF Excused, Complete
<1>4. CASE at[c].pc = "idle"
  BY <1>4 DEF Answered
<1>5. CASE followed' = followed
  <2>1. NothingOffered(c.spec.name) => NothingOffered(c.spec.name)'
    BY <1>5, OffersStays
  <2> QED BY <1>1, <1>2, <1>3, <1>5, <2>1 DEF Answered
<1> QED BY <1>4, <1>5

LEMMA AnsweredCall ==
    ASSUME SnapInv, Sealed, NEW c \in Calls, Call(c) \/ OutsiderStarts(c) \/ OutsiderDies(c),
           NEW d \in Calls
    PROVE  Answered(d)'
<1>1. StageInv /\ HeldInv /\ QueueInv /\ LockInv /\ FetchInv /\ MapInv /\ Answered(d)
  BY DEF SnapInv
<1>2. UNCHANGED Rest /\ \A e \in Calls \ {c} : at'[e] = at[e]
  BY <1>1, CallMoves
<1>3. UNCHANGED <<world, followed, rewritten>> /\ Here' = Here
  BY <1>2 DEF Rest, Here
<1>4. Alone' => Alone
  BY <1>1, AloneCall
<1>5. CASE d # c
  BY <1>1, <1>2, <1>3, <1>4, <1>5, AnsweredStays
<1>6. CASE d = c /\ c.via = "import"
  <2>1. Call(c)
    BY <1>6 DEF OutsiderStarts, OutsiderDies
  <2>2. ASSUME c.owner \in followed', ~Mistakable(c.owner)', at'[c].pc \in {"missing", "unresolved"},
               c.spec.name \in DOMAIN Described(Here, c.owner).dependencies
        PROVE  Excused(<<c.spec.name, Described(Here, c.owner).dependencies[c.spec.name]>>)
    <3>1. ~Mistakable(c.owner)
      BY <1>3, <2>2, WorldOnly
    <3> QED BY <1>1, <1>3, <1>6, <2>1, <2>2, <3>1, ImportAnswered
  <2> QED BY <1>3, <1>6, <2>2 DEF Answered, Excused, Complete
<1>7. CASE d = c /\ c.via = "require"
  <2>1. ASSUME at'[c].pc = "undeclared", c.spec.sub = Root, Alone', ~rewritten'
        PROVE  NothingOffered(c.spec.name)'
    <3>1. NothingOffered(c.spec.name)
      BY <1>1, <1>3, <1>7, <2>1, RequireAnswered
    <3> QED BY <1>3, <3>1, OffersStays
  <2> QED BY <1>7, <2>1 DEF Answered
<1>8. CASE d.via \notin {"import", "require"}
  BY <1>8 DEF Answered
<1> QED BY <1>5, <1>6, <1>7, <1>8

LEMMA AnsweredStep == ASSUME SnapInv, Sealed, [Next]_vars, NEW d \in Calls PROVE Answered(d)'
<1>1. CASE \E c \in Calls : Call(c) \/ OutsiderStarts(c) \/ OutsiderDies(c)
  BY <1>1, AnsweredCall
<1>2. CASE Snapshot \/ Run \/ Rewrite \/ Over \/ UNCHANGED vars
  <2>1. UNCHANGED <<world, at>> /\ (rewritten => rewritten')
    <3>1. rewritten' = rewritten \/ rewritten' = TRUE
      BY <1>2, CommandsRest
    <3>2. rewritten => rewritten'
      BY <3>1, Zenon
    <3> QED BY <1>2, <3>2, CommandsRest
  <2>2. Alone' => Alone
    BY <2>1 DEF Alone, Calls, Here
  <2>3. CASE d.via \notin {"import", "require"}
    BY <2>3 DEF Answered
  <2>4. CASE d.via \in {"import", "require"}
    <3>1. at[d].pc = "idle" \/ followed' = followed
      <4>1. CASE Snapshot
        <5>1. phase = "snapshot"
          BY <4>1 DEF Snapshot, Skip, VisitMember, Visit, SnapshotEnds
        <5> QED BY <2>4, <5>1 DEF SnapInv, StageInv, CallStage
      <4>2. CASE Run
        BY <4>2 DEF Run, StartRun, PrefetchEnds, BuildMap, ChildOpens, ProgramEnds, History
      <4>3. CASE Rewrite \/ Over \/ UNCHANGED vars
        BY <4>3 DEF Rewrite, Over, vars
      <4> QED BY <1>2, <4>1, <4>2, <4>3
    <3> QED BY <2>1, <2>2, <3>1, AnsweredStays DEF SnapInv
  <2> QED BY <2>3, <2>4
<1> QED BY <1>1, <1>2 DEF Next

------------------------------------------------------------------------------
(* The theorem *)

LEMMA SnapInit == Init => SnapInv
<1> SUFFICES ASSUME Init PROVE SnapInv
  OBVIOUS
<1>1. StageInv /\ HeldInv /\ world \in Worlds
  BY StageInit, HeldInit DEF Init
<1> SUFFICES ASSUME Sealed
             PROVE  /\ QueueInv /\ LockInv /\ FetchInv /\ DiskInv /\ MapInv
                    /\ \A c \in Calls : Answered(c)
  BY <1>1 DEF SnapInv
<1>2. /\ phase = "snapshot" /\ seen = {} /\ followed = {Project} /\ torn = {}
      /\ queue = Follow(Project) /\ locked = Here.lock /\ store = Here.store
      /\ \A c \in Calls : at[c].pc = "idle" /\ ~at[c].fetched
  BY DEF Init, Sealed, Waiting, Follow, Described, Project
<1>3. \A p : PackageCode(p) \notin followed
  BY <1>2 DEF PackageCode, Project
<1>4. QueueInv
  <2>1. \A x \in Needs(Project) : Among(x, queue)
    BY <1>1, <1>2, AmongFollow DEF Real
  <2> QED BY <1>2, <2>1 DEF QueueInv, Reached, Failed
<1>5. LockInv
  <2>1. AllKept
    BY <1>2 DEF AllKept, Complete, Kept
  <2> QED BY <1>2, <1>3, <2>1 DEF LockInv, LockOK, Covers, Follows
<1>6. FetchInv /\ MapInv
  BY <1>2 DEF FetchInv, MapInv
<1>7. DiskInv
  BY <1>2, <1>3 DEF DiskInv
<1>8. \A c \in Calls : Answered(c)
  BY <1>2 DEF Answered
<1> QED BY <1>4, <1>5, <1>6, <1>7, <1>8

LEMMA SnapStep == SnapInv /\ [Next]_vars => SnapInv'
<1> SUFFICES ASSUME SnapInv, [Next]_vars PROVE SnapInv'
  OBVIOUS
<1>1. StageInv' /\ HeldInv' /\ StageInv
  BY StageStep, HeldStep DEF SnapInv
<1>2. UNCHANGED <<world, mode>>
  <2>1. ASSUME NEW c \in Calls, Call(c) \/ OutsiderStarts(c) \/ OutsiderDies(c)
        PROVE  UNCHANGED <<world, mode>>
    BY <1>1, <2>1, CallMoves DEF Rest
  <2> QED BY <2>1, CommandsRest DEF Next
<1>3. SUFFICES ASSUME Sealed
               PROVE  /\ QueueInv' /\ LockInv' /\ FetchInv' /\ DiskInv' /\ MapInv'
                      /\ \A c \in Calls : Answered(c)'
  <2>1. Calls' = Calls
    BY <1>2 DEF Calls, Here
  <2> QED BY <1>1, <1>2, <1>3, <2>1 DEF SnapInv, Sealed
<1>4. QueueInv /\ LockInv /\ FetchInv /\ DiskInv /\ MapInv
  BY <1>3 DEF SnapInv
<1> QED BY <1>1, <1>3, <1>4, QueueStep, LockStep, FetchStep, DiskStep, MapStep, AnsweredStep

\* After a snapshot, a frozen or offline run lacks no dependency of what the snapshot reached,
\* neither for import nor for require(): the theorem of SnapshotSuffices, for dependencies of
\* any shape, cyclic ones included, whatever else unpacks packages meanwhile.
THEOREM SnapshotIsEnough == Spec => []SnapshotSuffices
<1>1. SnapInv => SnapshotSuffices
  <2> SUFFICES ASSUME SnapInv, Sealed, ~rewritten, NEW c \in Calls
               PROVE  LET declared == Described(Here, c.owner).dependencies
                          n == c.spec.name
                      IN
                      /\ c.via = "import" /\ c.owner \in followed /\ ~Mistakable(c.owner)
                           /\ at[c].pc \in {"missing", "unresolved"} /\ n \in DOMAIN declared
                           => declared[n] = AnyVersion /\ ~Complete
                      /\ c.via = "require" /\ at[c].pc = "undeclared" /\ c.spec.sub = Root /\ Alone
                           => \A p \in DOMAIN Here.packages :
                                p[1] = n /\ PackageCode(p) \in followed /\ ~TakenOver(p) =>
                                  ResolvePackageEntry(Here.packages[p].files, Here.packages[p].json,
                                                      Root, RequireConditions) = NoFile
    BY DEF SnapshotSuffices, Sealed
  <2>1. Answered(c)
    BY DEF SnapInv
  <2> QED BY <2>1 DEF Answered, Excused, NothingOffered, Stored, FilesOf
<1> QED BY <1>1, SnapInit, SnapStep, PTL DEF Spec
==============================================================================
