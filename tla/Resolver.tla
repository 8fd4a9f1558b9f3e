------------------------------- MODULE Resolver -------------------------------
(***************************************************************************)
(* packages/core/src/resolver/index.ts over lockfile/index.ts and          *)
(* registry/npm.ts: one session turns names and ranges into stored         *)
(* packages.  Requests of one process run concurrently (the imports of a   *)
(* module graph, the Promise.all of prefetch), and every await is the end  *)
(* of an action.  The registry goes on publishing meanwhile, and other     *)
(* processes collect garbage in the store that all share.                  *)
(***************************************************************************)
EXTENDS Naturals, FiniteSets

CONSTANTS Names,      \* package names
          Versions,   \* versions, in semver order
          Ranges,     \* semver ranges, "*", "latest" and "workspace:"
          Sat,        \* the versions that satisfy a range
          Members,    \* names of workspace packages
          MemberVersion,  \* the version their package.json states
          Denied,     \* packages that script or platform policy rejects
          Calls,      \* concurrent requests; each is made at most once
          NoCall,     \* "nobody" in the inflight map
          Worlds      \* the situations a session may start in

Any == "*"
Latest == "latest"
Work == "workspace:"

ASSUME VersionsAssumption == IsFiniteSet(Versions) /\ Versions \subseteq Nat \ {0}
ASSUME RangesAssumption == {Any, Latest, Work} \subseteq Ranges
ASSUME SatAssumption == /\ Sat \in [Ranges -> SUBSET Versions]
                        /\ Sat[Any] = Versions
                        /\ Sat[Latest] = {} /\ Sat[Work] = {}
ASSUME MembersAssumption == Members \subseteq Names /\ MemberVersion \in Versions
ASSUME CallsAssumption == NoCall \notin Calls

Packages == Names \X Versions
Keys == Names \X Ranges
NoVersion == 0

\* The lock: is a package in it, and as what?  An entry without an object comes
\* from migrate; one of a workspace package never has an object.
Entries == {"absent", "bare", "object", "workspace"}

\* A request comes from an import (resolveFileUrl) or from prefetch.
Requests == [via : {"import", "prefetch"}, name : Names, range : Ranges]

\* What a promise resolves to: a version, and where the package was found.
Failure == [version |-> NoVersion, from |-> "nowhere"]
Results == [version : Versions, from : {"lock", "bare", "registry", "workspace"}]
             \cup {Failure}

\* The versions of a packument; {} stands for the absence of a cached one.
Packuments == SUBSET Versions

ASSUME WorldsAssumption ==
    Worlds \subseteq [req : [Calls -> Requests], frozen : BOOLEAN, offline : BOOLEAN,
                      lock : [Packages -> Entries], store : SUBSET Packages,
                      published : [Names -> Packuments], disk : [Names -> Packuments]]

VARIABLES
  frozen, offline,  \* the modes of the session
  req,        \* the requests
  lock,       \* Resolver.lock
  store,      \* the packages whose object is in the store
  published,  \* the registry
  cache,      \* NpmPackageSource.packumentCache
  disk,       \* the packuments cached in the store directory
  inflight,   \* Resolver.inflight
  pc, answer, result,   \* where each call is; the packument and the result of its promise
  held,       \* history: the locked version a promise began with, and if it was stored
  disturbed   \* history: has anything failed, or left the store?

vars == <<frozen, offline, req, lock, store, published, cache, disk, inflight,
          pc, answer, result, held, disturbed>>

Leading == {"readDisk", "packument", "writeDisk", "settle"}
PCs == {"start", "await", "ensure", "fetch", "unpack", "ingest", "done", "failed"}
         \cup Leading

TypeOK ==
    /\ frozen \in BOOLEAN /\ offline \in BOOLEAN
    /\ req \in [Calls -> Requests]
    /\ lock \in [Packages -> Entries]
    /\ store \subseteq Packages
    /\ published \in [Names -> Packuments]
    /\ cache \in [Names -> Packuments]
    /\ disk \in [Names -> Packuments]
    /\ inflight \in [Keys -> Calls \cup {NoCall}]
    /\ pc \in [Calls -> PCs]
    /\ answer \in [Calls -> Packuments]
    /\ result \in [Calls -> Results]
    /\ held \in [Calls -> [version : Versions \cup {NoVersion}, stored : BOOLEAN]]
    /\ disturbed \in BOOLEAN

Init ==
    /\ \E w \in Worlds :
          /\ frozen = w.frozen /\ offline = w.offline
          /\ req = w.req /\ lock = w.lock /\ store = w.store
          /\ published = w.published /\ disk = w.disk
    /\ cache = [n \in Names |-> {}]
    /\ inflight = [k \in Keys |-> NoCall]
    /\ pc = [c \in Calls |-> "start"]
    /\ answer = [c \in Calls |-> {}]
    /\ result = [c \in Calls |-> Failure]
    /\ held = [c \in Calls |-> [version |-> NoVersion, stored |-> FALSE]]
    /\ disturbed = FALSE

------------------------------------------------------------------------------
(* Choosing *)

Name(c) == req[c].name
Range(c) == req[c].range
Key(c) == <<Name(c), Range(c)>>
Chosen(c) == <<Name(c), result[c].version>>

Maximal(V) == {v \in V : \A w \in V : w <= v}
Highest(V) == IF Maximal(V) = {} THEN NoVersion ELSE CHOOSE v \in Maximal(V) : TRUE

LockedVersions(n) == {v \in Versions : lock[<<n, v>>] # "absent"}

\* Fault: the fallback of findLockPackage is used without a look at the range.
Reusable_Fallback(n, r) ==
    IF LockedVersions(n) \cap Sat[r] = {} THEN Highest(LockedVersions(n))
    ELSE Highest(LockedVersions(n) \cap Sat[r])

\* findLockPackage falls back to a version that does not satisfy the range; all that
\* follows from it is that the lock has drifted.
Reusable(n, r) == Highest(LockedVersions(n) \cap Sat[r])
Drifted(n, r) == LockedVersions(n) # {} /\ Reusable(n, r) = NoVersion

\* The versions selectVersion may pick: what a tag points to is up to the registry.
Selectable(V, r) == IF r \in {Any, Latest} THEN V
                    ELSE Maximal(V \cap Sat[r])

\* Fault: maxSatisfying's null is taken for a version.
Picked_Unchecked(V, r) == {[version |-> Highest(V \cap Sat[r]), from |-> "registry"]}

Picked(V, r) ==
    IF Selectable(V, r) = {} THEN {Failure}
    ELSE {[version |-> v, from |-> "registry"] : v \in Selectable(V, r)}

\* lockToResolved.  The result has no tarball URL, whatever the entry.
FromLock(n, v) ==
    [version |-> v, from |-> CASE lock[<<n, v>>] = "object" -> "lock"
                               [] lock[<<n, v>>] = "workspace" -> "workspace"
                               [] OTHER -> "bare"]

------------------------------------------------------------------------------
(* Steps *)

Modes == <<frozen, offline, req>>
World == <<store, published, disturbed>>
Caches == <<cache, disk>>

Goto(c, where) == pc' = [pc EXCEPT ![c] = where]

\* resolveFileUrl takes a member for every range, resolveSpecifier for workspace ranges.
IsLocal(c) == Name(c) \in Members /\ (req[c].via = "import" \/ Range(c) = Work)

\* rememberWorkspace: the lock learns of the member in every mode.
UseWorkspace(c) ==
    /\ pc[c] = "start"
    /\ IsLocal(c)
    /\ lock' = [lock EXCEPT ![<<Name(c), MemberVersion>>] = "workspace"]
    /\ result' = [result EXCEPT ![c] = [version |-> MemberVersion, from |-> "workspace"]]
    /\ Goto(c, "done")
    /\ UNCHANGED <<Modes, World, Caches, inflight, answer, held>>

\* resolveWorkspacePackage throws.
NoSuchMember(c) ==
    /\ pc[c] = "start"
    /\ Name(c) \notin Members /\ req[c].via = "import" /\ Range(c) = Work
    /\ Goto(c, "failed")
    /\ UNCHANGED <<Modes, World, Caches, lock, inflight, answer, result, held>>

\* Does the request reach resolveSpecifier's map?
Specified(c) == pc[c] = "start" /\ ~IsLocal(c)
                  /\ ~(req[c].via = "import" /\ Range(c) = Work)

Join(c) ==
    /\ Specified(c)
    /\ inflight[Key(c)] # NoCall
    /\ held' = [held EXCEPT ![c] = held[inflight[Key(c)]]]
    /\ Goto(c, "await")
    /\ UNCHANGED <<Modes, World, Caches, lock, inflight, answer, result>>

\* Faults: the lock is trusted without a look into the store; the registry is asked even
\* for what the store has.
Decision_Trusting(n, r) ==
    IF Reusable(n, r) # NoVersion THEN "reuse"
    ELSE IF frozen \/ (offline /\ ~Drifted(n, r)) THEN "refuse" ELSE "ask"
Decision_Fresh(n, r) ==
    IF Reusable(n, r) # NoVersion THEN (IF offline \/ frozen THEN "reuse" ELSE "ask")
    ELSE IF frozen \/ (offline /\ ~Drifted(n, r)) THEN "refuse" ELSE "ask"

\* What resolveOnce does about a request.
Decision(n, r) ==
    LET v == Reusable(n, r)
    IN  IF v # NoVersion
        THEN IF offline \/ frozen \/ (lock[<<n, v>>] = "object" /\ <<n, v>> \in store)
             THEN "reuse" ELSE "ask"
        ELSE IF frozen \/ (offline /\ ~Drifted(n, r)) THEN "refuse" ELSE "ask"

\* Fault: the mode of the source is not consulted.
AskPc_Online(n) == IF cache[n] # {} THEN "settle" ELSE "packument"

\* packument(): the cache in memory, then, offline, the one on disk.
AskPc(n) == IF cache[n] # {} THEN "settle" ELSE IF offline THEN "readDisk" ELSE "packument"

\* The result resolveOnce has before its first await, if it needs none.
FirstResults(n, r) ==
    CASE Decision(n, r) = "reuse" -> {FromLock(n, Reusable(n, r))}
      [] Decision(n, r) = "ask" /\ cache[n] # {} -> Picked(cache[n], r)
      [] OTHER -> {Failure}

\* Fault: the map is not looked into.
Vacant_Always(c) == TRUE

Vacant(c) == inflight[Key(c)] = NoCall

Lead(c) ==
    LET n == Name(c)  v == Reusable(n, Range(c)) IN
    /\ Specified(c)
    /\ Vacant(c)
    /\ inflight' = [inflight EXCEPT ![Key(c)] = c]
    /\ held' = [held EXCEPT ![c] =
                  [version |-> v,
                   stored |-> v # NoVersion /\ lock[<<n, v>>] = "object" /\ <<n, v>> \in store]]
    /\ Goto(c, IF Decision(n, Range(c)) = "ask" THEN AskPc(n) ELSE "settle")
    /\ answer' = [answer EXCEPT ![c] = cache[n]]
    /\ \E x \in FirstResults(n, Range(c)) : result' = [result EXCEPT ![c] = x]
    /\ UNCHANGED <<Modes, World, Caches, lock>>

ReadDisk(c) ==
    /\ pc[c] = "readDisk"
    /\ answer' = [answer EXCEPT ![c] = disk[Name(c)]]
    /\ cache' = IF disk[Name(c)] = {} THEN cache
                ELSE [cache EXCEPT ![Name(c)] = disk[Name(c)]]
    /\ \E x \in Picked(disk[Name(c)], Range(c)) : result' = [result EXCEPT ![c] = x]
    /\ Goto(c, "settle")
    /\ UNCHANGED <<Modes, World, disk, lock, inflight, held>>

\* The registry answers, with what it has published by then.
Answered(c) ==
    /\ pc[c] = "packument"
    /\ answer' = [answer EXCEPT ![c] = published[Name(c)]]
    /\ cache' = [cache EXCEPT ![Name(c)] = published[Name(c)]]
    /\ Goto(c, IF published[Name(c)] = {} THEN "settle" ELSE "writeDisk")
    /\ UNCHANGED <<Modes, World, disk, lock, inflight, result, held>>

WriteDisk(c) ==
    /\ pc[c] = "writeDisk"
    /\ disk' = [disk EXCEPT ![Name(c)] = answer[c]]
    /\ \E x \in Picked(answer[c], Range(c)) : result' = [result EXCEPT ![c] = x]
    /\ Goto(c, "settle")
    /\ UNCHANGED <<Modes, World, cache, lock, inflight, answer, held>>

\* The registry is unreachable or the disk full: the promise is rejected.
AskFails(c) ==
    /\ pc[c] \in {"packument", "writeDisk"}
    /\ disk' = IF pc[c] = "writeDisk" THEN [disk EXCEPT ![Name(c)] = {}] ELSE disk
    /\ disturbed' = TRUE
    /\ Goto(c, "settle")
    /\ UNCHANGED <<Modes, store, published, cache, lock, inflight, answer, result, held>>

\* Fault: a rejected promise reaches only its maker.
Waiters_Fulfilled(c) ==
    {d \in Calls : pc[d] = "await" /\ Key(d) = Key(c) /\ result[c] # Failure}

Waiters(c) == {d \in Calls : pc[d] = "await" /\ Key(d) = Key(c)}

\* The finally of resolveSpecifier: the key is freed, everyone learns the result.
Settle(c) ==
    /\ pc[c] = "settle"
    /\ inflight' = [inflight EXCEPT ![Key(c)] = NoCall]
    /\ result' = [d \in Calls |-> IF d \in Waiters(c) THEN result[c] ELSE result[d]]
    /\ pc' = [d \in Calls |-> IF d \in Waiters(c) \cup {c}
                              THEN IF result[c] = Failure THEN "failed" ELSE "ensure"
                              ELSE pc[d]]
    /\ answer' = [d \in Calls |-> IF d \in Waiters(c) THEN answer[c] ELSE answer[d]]
    /\ UNCHANGED <<Modes, World, Caches, lock, held>>

\* Fault: what the lock names without an object is fetched in every mode.
EnsurePc_Refetch(c) ==
    CASE result[c].from = "workspace" -> "done"
      [] result[c].from = "registry" -> IF offline \/ frozen THEN "failed" ELSE "fetch"
      [] result[c].from = "lock" /\ Chosen(c) \in store -> "unpack"
      [] OTHER -> "ingest"

\* ensurePackage.  A package from the registry has no object yet: it is fetched even if
\* the store has it.  One from the lock can only be found, for lack of a URL.
EnsurePc(c) ==
    CASE result[c].from = "workspace" -> "done"
      [] result[c].from = "registry" -> IF offline \/ frozen THEN "failed" ELSE "fetch"
      [] result[c].from = "lock" /\ Chosen(c) \in store -> "unpack"
      [] OTHER -> "failed"

Ensure(c) ==
    /\ pc[c] = "ensure"
    /\ Goto(c, EnsurePc(c))
    /\ UNCHANGED <<Modes, World, Caches, lock, inflight, answer, result, held>>

\* The download and its put.
Fetch(c) ==
    /\ pc[c] = "fetch"
    /\ store' = store \cup {Chosen(c)}
    /\ Goto(c, "unpack")
    /\ UNCHANGED <<Modes, published, disturbed, Caches, lock, inflight, answer, result, held>>

Unpack(c) ==
    /\ pc[c] = "unpack"
    /\ Goto(c, IF result[c].from = "registry" THEN "ingest" ELSE "done")
    /\ UNCHANGED <<Modes, World, Caches, lock, inflight, answer, result, held>>

\* Policy, the package manifest, and the upsert of the lock as it is then.
Ingest(c) ==
    /\ pc[c] = "ingest"
    /\ Chosen(c) \notin Denied
    /\ lock' = [lock EXCEPT ![Chosen(c)] = "object"]
    /\ Goto(c, "done")
    /\ UNCHANGED <<Modes, World, Caches, inflight, answer, result, held>>

IngestDenied(c) ==
    /\ pc[c] = "ingest"
    /\ Chosen(c) \in Denied
    /\ Goto(c, "failed")
    /\ UNCHANGED <<Modes, World, Caches, lock, inflight, answer, result, held>>

\* The download, the store, the extraction or the manifest's write fails.
StepFails(c) ==
    /\ pc[c] \in {"fetch", "unpack", "ingest"}
    /\ disturbed' = TRUE
    /\ Goto(c, "failed")
    /\ UNCHANGED <<Modes, store, published, Caches, lock, inflight, answer, result, held>>

Step(c) ==
    \/ UseWorkspace(c) \/ NoSuchMember(c) \/ Join(c) \/ Lead(c)
    \/ ReadDisk(c) \/ Answered(c) \/ WriteDisk(c) \/ AskFails(c) \/ Settle(c)
    \/ Ensure(c) \/ Fetch(c) \/ Unpack(c) \/ Ingest(c) \/ IngestDenied(c)
    \/ StepFails(c)

------------------------------------------------------------------------------
(* The surroundings *)

\* Somebody publishes another version of a known package.
Publish(n, v) ==
    /\ published[n] # {} /\ v \notin published[n]
    /\ published' = [published EXCEPT ![n] = @ \cup {v}]
    /\ UNCHANGED <<Modes, store, disturbed, Caches, lock, inflight, pc, answer, result, held>>

\* gc of another process deletes an object.
Collected(p) ==
    /\ p \in store
    /\ store' = store \ {p}
    /\ disturbed' = TRUE
    /\ UNCHANGED <<Modes, published, Caches, lock, inflight, pc, answer, result, held>>

Next ==
    \/ \E c \in Calls : Step(c)
    \/ \E n \in Names, v \in Versions : Publish(n, v)
    \/ \E p \in Packages : Collected(p)

\* The event loop goes on as long as some request can.
Fairness == WF_vars(\E c \in Calls : pc[c] # "start" /\ Step(c))

Spec == Init /\ [][Next]_vars /\ Fairness
------------------------------------------------------------------------------
(* Properties *)

Online == ~offline /\ ~frozen

\* A package that the resolver hands out satisfies the range that was asked for, be it
\* found in the lock, by a rival's promise, or in a packument of any age.
ResultSatisfies ==
    \A c \in Calls : pc[c] = "done" /\ ~IsLocal(c) =>
        result[c].version \in (IF Range(c) = Latest THEN Versions ELSE Sat[Range(c)])

\* What the lock holds and the store has is used, in every mode and whatever the registry
\* publishes: a request that could be met locally is met, with the locked version.
ReusesStored ==
    \A c \in Calls : held[c].stored /\ ~disturbed =>
        /\ pc[c] # "failed"
        /\ pc[c] = "done" => result[c].version = held[c].version

\* Frozen and offline sessions never talk to the registry, not even when the lock has
\* drifted, lacks objects, or changed while the request was under way.
SealedModes ==
    frozen \/ offline => \A c \in Calls : pc[c] \notin {"packument", "fetch", "ingest"}

\* A frozen session drops no package of its lock and puts none in from the registry: an
\* entry stays as it is, or becomes the note of a workspace member, also where that member
\* has the name and the version of a locked package.
FrozenKeepsLock ==
    [][frozen => \A p \in Packages : lock'[p] = lock[p] \/ lock'[p] = "workspace"]_vars

\* One resolution per name and range at a time, and nobody awaits a promise that has
\* been settled.
OneResolutionPerKey ==
    \A c, d \in Calls :
        /\ pc[c] \in Leading /\ pc[d] \in Leading /\ Key(c) = Key(d) => c = d
        /\ pc[c] = "await" => /\ inflight[Key(c)] # NoCall
                              /\ pc[inflight[Key(c)]] \in Leading

\* Online, and with the network, the disk and the store intact, a request fails only for
\* a reason of its own: no such member, no version in the range, or a denied package.
FailuresAreExplained ==
    \A c \in Calls : pc[c] = "failed" /\ Online /\ ~disturbed =>
        \/ Name(c) \notin Members /\ Range(c) = Work
        \/ Selectable(answer[c], Range(c)) = {}
        \/ Chosen(c) \in Denied

\* Every request ends, those that await the promise of another one included.
CallsReturn == \A c \in Calls : pc[c] # "start" ~> pc[c] \in {"done", "failed"}

\* docs/resolution.md:15: "If a range still satisfies a locked version, Knot reuses it."
\* A bare "*" is left out, for which the registry's tag decides, and entries without an
\* object.
ReusesLocked ==
    \A c \in Calls :
        /\ pc[c] = "done" /\ Range(c) # Any /\ held[c].version # NoVersion
        /\ lock[<<Name(c), held[c].version>>] = "object"
        => result[c].version = held[c].version
=============================================================================
