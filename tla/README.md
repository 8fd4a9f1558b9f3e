# Knot.js in TLA+

A model of Knot, the dependency execution system of this repository, that TLC
checks on small instances and TLAPS proves theorems about. Knot resolves the bare
imports of a Node.js program against a lock file and a registry, keeps package
archives in a content-addressed store that every project of the machine shares, and
runs the program from there. All paths below are under `src/packages/core/src/`
unless they say otherwise.

## The system

| Component | Code | State it keeps | Operations |
|---|---|---|---|
| Store locks | `store/locks.ts` | one file per lock under `locks/` | `acquireLock`, `release`, `withLock` |
| Content store | `store/index.ts` | `objects/`, `metadata/`, `unpacked/`, `indexes/projects/`, `tmp/`; the promises of running puts, per process | `put`, `read`, `verifyObject`, `registerProject`, `gc`, `clearOrphans`, `stats` |
| Atomic files | `fs-atomic.ts` | `.partial` files in `tmp/`, `trash/` | `writeFileAtomic`, `moveToTrash` |
| Unpacking | `archive.ts`, `resolver/index.ts` | `unpacked/<id>/package` | `ensureUnpacked`, `extractNpmTarball` |
| Resolver | `resolver/index.ts` | the session's copy of the lock, the promises of running resolutions | `resolveSpecifier`, `ensurePackage`, `snapshotReachable` |
| Registry client | `registry/npm.ts` | packument cache in memory and on disk | `resolve`, `fetch`, `fetchAttestations` |
| Lock file | `lockfile/*.ts` | `knot.lock`: packages, digest, signature | `readLockfile`, `writeLockfile`, the digest and signature tests |
| Runtime session | `runtime/execute.ts`, `session.ts`, `loader.ts` | project, lock and resolver of one process; the session file of a child | `open`, `resolveFileUrl`, `runProject`, `persistSession` |
| Importer, exports, imports | `runtime/parent.ts`, `exports.ts`, `imports.ts` | none | who imports, what may be imported, which file it is |
| Workspaces | `workspace/index.ts` | none | discovery, range test |
| Lock trust | `lockfile/digest.ts`, `lockfile/sign.ts`, `security/verify.ts`, the `keygen`, `lock sign` and `ci` commands of `packages/cli/src/index.ts` | digest and signature in `knot.lock`, the public key in `knot.toml` or `.knot/lock.pub`, private keys in the project, the home directory or the environment | `signLock`, `verifyLock`, `loadLockPrivateKey`, the frozen checks |
| Attestations | `security/attestations.ts` | none | which checks a bundle passes, what all bundles together establish |
| Graph, why, doctor, eject, pack | the files of those names | none | reports over lock and store |

How they interact. A command opens a *session*: it reads the manifest and `knot.lock`
and creates a resolver over the store and the registry client. Resolving an import
finds a lock entry or asks the registry; `ensurePackage` fetches, puts into the store
and unpacks. `persistSession` writes `knot.lock` back and registers the lock's objects
as the project's index, which is what `gc` spares. `knot run` starts a child process
whose loader opens a session of its own on the same files. Any number of commands run
at once on one store; nothing but the files under the store and the project connects
them.

What is hard, and what makes the components correct:

* *Locks.* Processes race between the system calls of one attempt, die with the file
  there, or outlive its staleness. Correct: at most one owner as long as nobody's file
  was taken away; a call ends; it fails only because of somebody, or of a file that a live
  process left there, that cannot be seen or that cannot be removed.
* *Store.* Calls of one process interleave at every `await`, calls of other processes
  anywhere; a crash or a full disk leaves any prefix of an insert. Correct: a path
  never names part of an object; what is read is verified; what `put` returned is
  there; `gc` spares what a project lists in an index that can be read; failed calls leave
  no lock and no promise, and no temporary file that could be removed.
* *Unpacking.* A directory with a `package.json` counts as filled, and an extraction
  empties and refills it in place. Correct: only extractions of one package that overlap,
  with one another or with an import, or one that dies or fails and then cannot empty the
  directory, leave or show a part of it.
* *Imports.* The members, the lock and the path of the importing file decide who imports;
  the manifests decide what; maps, fallbacks and extensions decide which file. Correct:
  what is loaded is declared and published by the manifests, however the lock changes; a
  snapshot ends and suffices for a frozen or offline run.
* *Lock trust.* Several projects share one private key, several clones one lock; commands
  sign, edit and judge the same file in turn. Correct: what is trusted was signed, and no
  command takes away trust that it could keep.
* *Sessions: lock file and index.* Two sessions write each other's updates away; a reader sees a
  half-written file; a crash between the two writes leaves them apart.
* *Resolver.* The lock changes during a resolution; frozen and offline runs must
  neither fetch nor drift.

`PROJECT.json` lists every hazard at its line, with the properties that watch it.

## Modules

| Module | Models |
|---|---|
| `ExclusiveLock` | what the store expects of a lock: one owner, until somebody is robbed |
| `StoreLock` | `acquireLock` and `release`, one action per system call |
| `StoreLockProofs` | theorems about `StoreLock` |
| `ObjectStore` | what the store promises: whole objects, pins that collectors respect |
| `ContentStore` | the store's calls, one action per awaited file operation |
| `ContentStoreProofs` | theorems about `ContentStore`: types, objects and pins, refinement, how its calls end |
| `Resolver` | the requests of one session, from a name and a range to a stored package, over the lock, the registry client and its caches |
| `ResolverProofs` | theorems about `Resolver` |
| `ProjectSession` | commands and children of runs that share the files of one project, its index and the store |
| `ProjectSessionProofs` | theorems about `ProjectSession`: a command alone, and commands in sequence |
| `PackageMaps` | `exports` and `imports` maps, entries and files, as functions |
| `Importers` | members, importers, declared ranges and the choice of a version, as operators |
| `Imports` | a snapshot, then a run with its prefetch, its child, `import`, `require` and the extractions of several processes |
| `ImportersProofs` | what the functions of `PackageMaps` and `Importers` return: which entry, which member, which version |
| `ImportsProofs` | theorems about `Imports`: directories, types, the end of a snapshot, what an import may load |
| `SnapshotProofs` | the theorem that a snapshot suffices for a sealed run |
| `Attestations` | the checks of an attestation bundle and of a response, as operators |
| `LockTrust` | commands in several checkouts that generate keys, sign, write, verify and run locks |
| `LockTrustProofs` | theorems about `LockTrust` |
| `MC*` | constants for TLC |

Each module takes from the one below it what that one promises, in an abstract form:
`ContentStore` an exclusive lock that may be lost (`ExclusiveLock`), `Resolver` a store
whose objects another process may collect (`ObjectStore` has `Collect`), `ProjectSession`
a resolution that ends with the package stored and locked.

### StoreLock

`file` is the lock file: who created it (`DeadPid` once that process has died),
whether the payload has been written, whether `createdAt` is older than `staleMs`.
`pc` is where each process is in `acquireLock`; the names of the actions follow the
calls in `locks.ts`: `Open`, `Write`, `CheckExists`, `Read`, `UnlinkStale`,
`UnlinkUnreadable`, `Release`. Every one of them may fail, and has an action of that name
with `Fails` for it: a stale file that cannot be removed costs a second attempt to remove it
and then a try, a file that cannot be read is removed as unreadable, and `ReleaseFails`
leaves the file of a process that goes on living. `robbed`, `disturbed` and the field `left`
of the file are history variables that only properties read: a live owner has lost its file;
the call has met another process, a file that a live one left, or one that could not be seen
or removed; the writer, alive, has got out without removing the file.

### ContentStore

A *call* is one invocation of a method. Its request is chosen once (`req`), its locals
are in `loc`, and `pc` names the await it is at. `object[i]` is what the path of object
`i` holds: nothing, the bytes, part of them, or corrupted ones; `meta[i]` says how
recent the metadata are; `tmp` are the `.partial` files of each call; `index` the
project indexes; `inflight` the promises of `dedupe`. `writeFileAtomic` is three
actions, `Create`, `Write` and one of four `Rename...` actions that say what the target
was for; a write may fail (`WriteFault`), a temporary file may be removed by
`clearOrphans` (`RenameFails`). After a failed write the temporary file is removed, or
stays because that fails too (`AfterFault`; it is then `left` in `tmp`). `gc` reads the
indexes one by one; one of `BadIndexes` may turn out unreadable and is skipped
(`GcSkipIndex`), with all it lists. `Crash` ends all calls of a process. `Rot` corrupts an
object, `Age` makes its last access old.

Locks are abstract here: `AcquireLock` grants a free lock or throws, and with
`LossyLocks` it may also grant one that is owned, because that is what `ExclusiveLock`
allows after a robbery. The check therefore covers what the lock files really give.
`lost`, `steady` and `overlapped` are history variables: the puts whose object a `gc` has
deleted since they began, what the indexes that a collector can read have listed ever since
it looked for them, and the calls that ran beside another one. `ObjectStore` says the same
of its collectors with `Look`, `Skip` and `Stop`: one collects only between the two, and
only what no index it has read pins.

Data are abstracted to what the properties tell apart. Bytes are identified with the
content id they hash to; the size and integrity tests that `assertObjectValid` makes
after the digest cannot fail once it has passed and are left out; two `existsSync` calls
in one synchronous expression are one step.

### Resolver

A *call* is one request of a session: an import (`resolveFileUrl` treats a workspace
member first, whatever the range) or a name of a prefetch. The call that finds its key
free leads the promise of `inflight` (`Lead`, then `readDisk`, `packument`, `writeDisk`
as far as the resolution needs them, then `settle`); the others `Join` it. Afterwards
each call is on its own in `ensurePackage`: `ensure`, `fetch`, `unpack`, `ingest`. Every
state of `pc` is an await of the code, and what lies between two of them is one action.

A package is a name and a version. A range is the set of versions that satisfy it (`Sat`);
versions are numbers in semver order. A lock entry is `absent`, `bare` (from `migrate`,
without an object), with an `object`, or a `workspace` member. `Decision` is the body of
`resolveOnce` up to its first await, in the order of the code: the lock, frozen drift, the
stored entry, the refusals, the registry. The registry publishes (`Publish`), another
process collects (`Collected`), and the network, the disk and the policies fail a step
(`AskFails`, `StepFails`, `IngestDenied`). `held` and `disturbed` are history variables.

### ProjectSession

A *session* is a process with one command: `add`, `remove`, `snapshot`, a `run` with or
without prefetch (`prefetch`, `run`), the `child` of a run, or `gc`. `file` and `state` are
the contents of `knot.toml`, `package.json` and `knot.lock`: the packages listed, and
whether the text is whole, empty (or not there), or garbled by two writers. `deps` and
`lock` are the copies of a session. The names that a prefetch
scans may be declared or not. `Open`, `ReadToml` and `ReadLock` are the reads of
`RuntimeSession.open`; `Add`, `Remove`, `Fetch`, `Run` and `Import` the work; `Truncate` and
`Fill` the halves of one `writeFile`, for each file in the order of `persistManifests`;
`Register` is the index, which is written atomically. `Die` ends a process at any step,
because it is killed or because a step throws. `added`, `crowded` and `interrupted` are
history variables: `crowded` are the processes that have had another command beside them
(a child is part of its run), and `Orderly` says that there is none and that no command
was stopped in its writes. `AloneTakesHold` needs no such history: it says that one command
that runs alone mends what earlier ones have left.

A package stands for its closure and its one object, and a project has a `package.json`.
A garbled text counts as unreadable; the properties that hold are about states in which
no two writers met. Resolution and storage are one step here, because `Resolver` and
`ContentStore` are about what happens inside of them.

### PackageMaps, Importers, Imports

`PackageMaps` has the target selection of `exports.ts` and `imports.ts`: a JSON value is a
record with its kind, a subpath that a pattern covers is listed with the pattern, and a
file is the path of the map, what its `*` stands for, and the extension that completes it.
`ResolveTarget` and `ResolveExports` are recursive functions. `Leaves` and `Offered` are
the reference: what a map offers without regard to order and conditions.

`Importers` has what `parent.ts`, `session.ts` and `workspace/index.ts` compute without
changing anything: the members of a workspace from their directories (`ReadMember`,
`Members`; `former` are those that only the lock still names), who imports
(`IdentifyImporter`), with which range (`RangeForImporter`), and what `resolveOnce` and
`ensurePackage` make of that (`Choice`).

`Imports` composes the two. A *situation* (`World[world]`) is a project with its members,
the packages of the registry, a lock, a store and the calls that the code of each owner
makes once it runs. `phase` is where the snapshot and the run are: `Skip`, `VisitMember`
and `Visit` are the loop of `snapshotReachable`; `StartRun`, `PrefetchEnds`, `BuildMap`,
`ChildOpens` and `ProgramEnds` are `runProject` and the loader. A *call* is an import, a
`require`, a name of the prefetch, or an extraction by another project's process.
`resolveFileUrl` up to its first await is one action (`ImportOwn`, `ImportUndeclared`,
`UseMember`, `Resolve`, which share the request that `Requests` computes); then come
`Fetch`, `Check`, `Wipe`, one `Extract` per file, `Ingest` and `Entry`. An extraction may
fail at each file, and the removal of what it has written may fail too (`RemovalFails`),
another project's process may die in it (`OutsiderDies`), and another
command may drop an entry of the lock before the child opens it (`Rewrite`). `followed`,
`torn` and `rewritten` are history variables.

### Attestations, LockTrust

`Attestations` is a module of operators: `VerifyAttestationBundle`, the merging of the
results of a response (`VerifyNpmAttestations`), the chain of a certificate, and the record
that `knot inspect` shows.

`LockTrust` has several checkouts, of one project or of several, on machines with one home
directory each. A digest is the list it was computed from, a signature a key and a digest,
a key pair a number. A *process* runs one command after the other: `Open` reads the project
and the lock, `Check` judges a run (`Accepted`: `verifyLock` for `knot ci`, then the frozen
checks), `Prefetch`, `Spawn` and `RunEnds` are the rest of it; `Snapshot`, `AddOrRemove` and
`Sign` write; `WritePrivate` and `WritePublic` are the two halves of `keygen`. `Dies` may end
a command between its steps. `Edit` and `EditMember` are an editor or a merge, `Pull` is git.
`disturbed` and `signed` are history variables: `disturbed` are the processes beside which
somebody else has written.

## Runs

| Run | Instance | Shows |
|---|---|---|
| `store_lock` | 3 processes, 2 attempts | exclusion until a robbery, no leaked file unless removing it failed, no failure without a cause, release of the own file, termination, refinement of `ExclusiveLock` |
| `lock_exclusion` (violation) | as above | two holders after a waiter read an empty lock file |
| `content_store` | 3 calls of 2 processes, 1 object, 2 projects, lossy locks, bit rot | all properties of the store, refinement of `ObjectStore` |
| `gc_race` (violation) | put, register and gc | `gc` deletes an object that an index lists |
| `dedupe_integrity` (violation) | two puts and a read | a put with a wrong integrity succeeds |
| `resolver` | 3 calls, 1 or 2 names, 2 versions, 5 ranges, every frozen and offline mode and every lock of those | results in range, reuse of the lock, no network in sealed modes, one resolution per key, explained failures, a frozen lock that stays, termination |
| `reuse_locked` (violation) | as above | a newer version is taken instead of the locked one that is not stored, and locked beside it |
| `project_session` | 3 processes, 2 packages, 6 combinations of commands, a new and an established project | agreement of lock, index, manifests and store for commands in sequence, a command alone that mends what killed and rival ones left, readable files, termination |
| `adds_lost` (violation) | run, its child, add | the lock of a run overwrites what was added meanwhile |
| `live_content` (violation) | run, its child, gc | gc deletes what the running program imported |
| `imports` | 12 situations, every mode of each that matters, 113 initial states | an import loads what manifests declare and publish; a snapshot ends and suffices; only extractions that overlap, die, or fail and cannot clean up, tear |
| `lock_trust` | 3 checkouts, 2 machines, 2 processes, 3 commands, 2 edits, 2 key pairs, 5 worlds; responses of up to 2 bundles of 19 kinds | what is trusted was signed, commands keep trust, a verified publisher is vouched for |

Why the bounds are enough. A third process is needed at the lock: one owner, and two
waiters of which one breaks the lock the other one has just taken. Two attempts are the
least with a retry; eight, as in the code, only lengthen the traces. Three calls of two
processes cover a promise that is shared within a process, a rival of another process,
and a third party (`gc`, `clearOrphans`). Objects are independent of one another except
in what `gc` collects, so one object is enough; two projects are needed for an object
that moves between indexes. Symmetry is used in `lock_trust` only, whose two processes are
alike and which has no liveness property.
Three calls of the resolver are two that share a promise and one with another range of
the same name; two versions are a locked one and a newer one, and the second name is
needed for members that ordinary imports run beside. Three processes of a project are a
run, its child and one other command, or three commands of which the last one sees what
the other two left; two packages are one that is there and one that comes or goes.
The situations of `imports` are chosen so that each branch of the maps, of the importer and
of the choice of a version is taken: a diamond on an empty store, maps with conditions,
patterns and paths out of the package, members inside and beside each other, with and
without `package.json`, a member under another name, a `workspace:` range without a member,
cyclic dependencies, a clone whose lock names what its store lacks, and an extraction that
another process shares, `require()` while the lock is rewritten under the child, a lock that
still names a member that has left the workspace, and a member with the name and version of
a package. Three files per package are enough for a part that has
`package.json` and one that has not. In `lock_trust` a key, a lock and a reader of it need
three commands; two of them at a time are a command and its rival, two key pairs are one
that replaces another, and the third checkout is a clone without the private key.
The runs of the store, the resolver and the sessions disable the deadlock check, because
every call is made at most once: when all are over the model stops.

## Fairness

`StoreLock` assumes weak fairness of the steps inside `acquireLock`: it is synchronous, so a
process that is in it leaves only by returning or dying. `ContentStore` assumes weak
fairness of the steps of each call: the awaited file operations complete. `Resolver` has one
weak fairness condition for the steps of all calls together: one event loop runs them, and
as each call has finitely many steps that is enough. `ProjectSession` assumes weak fairness
of the steps of each process that has been started, the start of a child by its parent
included; for a child that means that the program ends, so `CommandsEnd` speaks of runs of
programs that do. Nothing is assumed about calls being made, processes dying or time
passing. `Imports` and `LockTrust` state no fairness and no liveness: that a snapshot ends
is stated as `SnapshotAdvances`, a measure that every step of its loop decreases.

## Proofs

All theorems hold for any set of processes, calls, ids, projects and checkouts.

* `StoreLockProofs`: type correctness; `Exclusion`, from the invariant that an owner
  that has not been robbed is the creator of the file at the path; `ReleaseOwn`,
  `NoLeak` (unless the call that should have removed the file failed) and `Refinement` from
  the same invariant; `TimeoutCauses` for two or more attempts without pid reuse, from an
  invariant on how many attempts a process can have used while nothing disturbed it.
* `ContentStoreProofs`: `TypeCorrect` needs `PlaceOK`, which says that a call stays within
  its operation, because a step takes the object or the project from the request.
  `PinnedAreSpared` is proved from `GcInv`: what one project has listed since the
  collector's `readdir` is still in that project's index, and either that index has not been
  read yet or the id is among the reachable ones, unless the collector has skipped the index;
  ids are judged only when every index has been read or skipped.
  `WholeObjects` is proved from `WholeInv`: what a call is about to rename is
  complete or gone. `Refinement` combines the three: a rename of an object is `Insert`, of
  an index `List`, `readdir` is `Look`, a skipped index `Skip`, a deletion `Collect`, the end
  of a collector `Stop`, and every other step stutters.
  The other five invariants of the store follow from one, `CallsInv`, of three parts.
  `PromisesOK`: a promise is that of a put under way which awaits none itself, and a put
  that awaits finds one; so `InsertsAreDeduplicated`. `CallOK` speaks of each call by
  itself: what it has read and checked (`ReadsVerify`), that the files it found or wrote are
  there or collected since (`PutsLast`), that it owns locks and temporary files only where it
  will give them back, but for a file whose removal failed (`CallsTidyUp`).
  `SoloOK` says of a call that has met no other that it
  finds every file as it left it, so it cannot fail for the lack of one
  (`AloneNothingFails`). `PutsLast` needs that objects are only ever removed by gc; that is
  why `lost` is part of the property: it excuses a put by a deletion of its object that came
  after the put, or the put it joined, began, and by no other.
* `ResolverProofs`, for any names, versions, ranges, members and starting situations:
  `TypeCorrect` needs `Placed` (a call past its promise has a result). `SharedPromises`
  rests on `LeadInv`: the call that `inflight` names is the only leader of its key, and
  who awaits a key awaits a leader. `NoNetworkWhenSealed` rests on `SealInv`: no leader of
  a frozen or offline session is at the request. `VersionsInRange` rests on `RangeInv`,
  which extends the property to results that are not settled yet, with the lemmas that
  `Highest`, `Reusable` and `Selectable` return versions of their range. `StoredIsReused`
  rests on `HeldInv`: while nothing is disturbed, the version a promise began with is the
  one it has. `FailuresHaveReasons` rests on `ReasonInv`: while nothing is disturbed, an
  online request that is at `settle` without a result had nothing to select from, and one
  with a result has it from the registry or in the store, so only policy can reject it.
  `FrozenLock` is an action property, from `TypeCorrect` and the guards.
* `ProjectSessionProofs`, for any packages, any number of processes and any world:
  `TypeCorrect`, and `CommandsTakeHold` from three invariants. `Placed` says where a process
  of each kind can be. `Company` says that beside a command that has had no company there is
  nobody but children of its own run, while it waits for them: so no other process writes
  the files or deletes objects under it. `AloneInv` says for such a command that what it has
  resolved is in its lock and in the store, that a snapshot has resolved or will resolve all
  that is declared, and that the lock on disk is its own once it registers. For worlds that
  are `Consistent` at the start (readable files, an index that is the lock's and stored; TLC
  checks that the worlds of the runs are): `OrderKeepsTheIndex`, `OrderKeepsTheAdded` and
  `OrderKeepsReadable`. The invariant says, as long as commands are in sequence, what the
  one command at work has read and which of the three files it has rewritten so far; it uses
  `Company`, that beside a command only its own children run.
* `ImportersProofs`, for any maps, members and versions. `ResolveTarget` and `ResolveExports`
  are recursive functions over JSON values; that they have the value their definitions say is
  proved by well-founded recursion on `Depth` (`RecursionHolds`), and then, by least
  counterexample, that they return only what `Offered` lists. `EntryPublished`: the entry of a
  package is one its `exports` field offers for the subpath, however lists and conditions are
  nested. `EntryExists`: an entry that is found exists. The other lemmas say which member
  `ResolveWorkspacePackage` and `MemberAround` choose, and that `Highest` returns the greatest
  version of a range.
* `ImportsProofs`, for any situations, packages, members, locks and numbers of calls, about
  the five properties of the run `imports`:
  * `TornByOverlap`: the invariant `TearInv` gives each call the directory it works on
    (`PlaceOK`), says that one call at a time extracts there and has written what it has
    passed in the archive, that calls past the extraction find the tree whole (`CallFinds`),
    and that a directory nobody fills is empty or whole (`DirectoryOK`), all of that for
    packages not in `torn`, which an overlap, a death or a failed removal adds to.
  * `ImportsTypes`: `TypeOK` alone is not inductive, because a step looks up the manifest of
    whatever is queued, locked or mapped. `TypeInv` adds that the locks name only packages
    and members that exist (`Honest`), and so does every call, owner and entry of the map.
  * `SnapshotGetsOn`: each step of the loop of `snapshotReachable` shortens the queue or sees
    a specifier for the first time; as specifiers are finitely many, it ends through cycles.
  * `ImportsAreDeclared`: `LoadsOK` extends the property to calls that are under way. What
    identifies an importer is its path and the lock, so `HeldInv` says that the lock goes on
    to name what has been loaded and mapped unless `Rewrite` has dropped it, and
    `StageInv` which calls can be under way in which phase.
* `SnapshotProofs`, for any situations: `SnapshotIsEnough`. The invariant says of a run with a
  snapshot that is frozen or offline: `Reached`, every dependency of an owner followed is seen
  or queued; `Covers`, every specifier seen is a member, or the lock has a version of its range
  that is stored, and no version that `Highest` would prefer and that is not; this outlasts
  the snapshot, in the lock and in the file the child reads (`LockInv`); so no call fetches
  (`FetchInv`). Packages followed are whole on disk while no other project unpacks
  (`DiskInv`), so the map for `require()` has all that offers an entry (`MapInv`). What has
  become of a call (`Answered`) follows when it is made, and stays.
* `LockTrustProofs`, for any checkouts, keys, members and worlds in which every signature is
  about the digest beside it: the invariant has five parts besides the types. `Given`: a
  process that works has a command. `Covered`: a signature is about the digest beside it,
  which `writeLockfile` keeps because it drops the signature of another digest. `Recorded`:
  every signature in sight has been made. `Fresh`: a process beside which nobody has written
  knows what is on disk. `Upheld`: what a sealed run has checked is what it holds, and what
  its child finds. `TrustIsEarned` follows from `Covered` and `Upheld`, which rests on
  `Recorded` and `Fresh`; `CommandsKeepTrust` is an action property and follows from `Fresh`.
  `StepShape` says once what all steps of a command have in common. `PublishersAreVouched`, for
  any response and roots: a publisher that a report calls verified is vouched for by one bundle
  that passes every check by itself, and nothing matches an artifact without a digest; the
  report is what `VerifyNpmAttestations` returned, so it follows from lemmas about one bundle.

The assumptions on the constants are named in the modules that declare them, and TLC
evaluates them for the instances of the runs. The ones that are more than types:
`MapsAssumption` says that a JSON value is finite, by a `Depth` that decreases from a value to
what it contains; `WorldsAssumption` of `Imports` that archives list the files of their
packages, that a lock names only what is published or is or was a member, and that no two
members share name and version; `VersionsAssumption` that versions are finitely many numbers
in semver order.
`LiteralsAssumption` is there for the provers, which do not know that a literal is a string.

Only model-checked: the liveness properties `AcquireReturns`, `CallsReturn` (of the store and
of the resolver) and `CommandsEnd`, which need fairness and `ENABLED`. Every other property of
a passing run is a theorem.

## Disagreements found

* `lock_exclusion`, `gc_race`, `dedupe_integrity`: see the findings in `PROJECT.json`.
* `reuse_locked`: on a machine whose store lacks a locked object, the range is resolved
  anew and a newer version is loaded and locked beside it, against `docs/resolution.md:15`.
* `adds_lost`: `knot run` writes back the lock it read before its program started.
* `live_content`: what a child fetches reaches neither `knot.lock` nor the index.

Seen in the models and stated by no run:

* *Store.* An index that cannot be read counts as one that lists nothing (`GcSkipIndex`): what
  only it lists is deleted, against `docs/content-store.md:14`.
* *Imports.* Two imports of one package on a cold store, or one beside another project's
  process, can end with "corrupt" or load a part of the package (`torn`), although
  `README.md:81` says that partially written artifacts are never executed and
  `docs/lazy-execution.md:7` that concurrent requests for an artifact share one promise. A
  directory that is the target of `main` or `exports` is handed to Node as it is, which
  refuses it: the `index.js` candidate of `assertFile` is never reached. A
  `workspace:./path` range never equals the relative path of a member. Names under which a
  range names a member by its path resolve on import, but snapshot and prefetch look the
  name up and fail. A member with only a `knot.toml` has no dependencies and version 0.0.0.
  The code of a member within another member counts as the outer one's. The map for
  `require()` is keyed by names alone, the last version in text order wins, and packages
  that nobody declared can be required. A member with the name and version of a locked
  package takes its place in the lock, and the code of that package then counts as the
  project's; a member that has left the workspace keeps its entry, and its directory is
  imported as it is. Peers of stored packages are undeclared, against `README.md:422`.
* *Lock trust.* A frozen run with prefetch, and `knot ci` with an entry, rewrite `knot.lock`
  with the absolute path of a member; without a private key the signature is dropped, and the
  next frozen run on that machine is refused. `keygen` in one project replaces the key that
  the others of the machine sign with. An empty lock is spared the frozen checks that
  `verifyLock` makes. A listed public key file that is missing means that nothing is checked.
  `knot add` drops the key in `knot.toml` where `.knot/lock.pub` exists. `keygen` leaves the
  lock unsigned, or signed with the old key. `verifyAttestations` of the public interface
  passes no roots, so its publisher is never verified; the identity shown is the first one
  found, not that of the verified bundle; one unreadable payload fails the whole response.

## Plan

What would extend the project next: an abstract specification of a session of imports (a package
is loaded once, whole, from one version per range) that `Resolver` and `Imports` implement;
`unpacked/` beside `gc`, which needs the collector of `ContentStore` in `Imports`.

## Not modelled

Cryptography, hashing and certificate parsing (a content id stands for its bytes, a signature
for its key and digest), the formats of the files, logging, argument parsing, the scan of
sources for imports and the stripping of types. `graph` and `why` are loops over a lock that
change nothing. `doctor` calls the store's operations one after the other, which
`ContentStore` has beside other processes. `eject`, `pack`, `inspect`, `init` and `migrate`
copy or convert files one after the other; the policies test single fields, and the audit
asks a remote service.
