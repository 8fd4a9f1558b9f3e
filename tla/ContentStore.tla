----------------------------- MODULE ContentStore -----------------------------
(***************************************************************************)
(* packages/core/src/store/index.ts over fs-atomic.ts: the global store of *)
(* content-addressed objects, shared by processes that put and read        *)
(* objects, register project indexes, collect garbage and clear tmp/.      *)
(*                                                                         *)
(* A call is one invocation of a method of ContentStore.  Each awaited file*)
(* operation is an action, so calls of one process and of several ones     *)
(* interleave at every one of them, and a process may die between two.     *)
(***************************************************************************)
EXTENDS Naturals, FiniteSets

CONSTANTS Ids,        \* content ids: each stands for the bytes that hash to it
          Projects,   \* project keys
          Procs,      \* operating-system processes
          Calls,      \* method calls; each is made at most once
          Owner,      \* the process that makes a call
          Scenarios,  \* what the calls ask for, and the project indexes they find
          NoCall,     \* "nobody" in the inflight map
          NoId,       \* the object of a call that is at none
          LossyLocks, \* may a lock be granted while another call owns it?
          RotIds,     \* objects whose stored bytes the disk may corrupt
          BadIndexes  \* projects whose index file may turn out unreadable

ASSUME CallsAssumption == NoCall \notin Calls
ASSUME IdsAssumption == NoId \notin Ids /\ "gc" \notin Ids
ASSUME OwnerAssumption == Owner \in [Calls -> Procs]
ASSUME RotAssumption == RotIds \subseteq Ids
ASSUME BadIndexAssumption == BadIndexes \subseteq Projects
ASSUME LossyAssumption == LossyLocks \in BOOLEAN

\* What a call asks for.  "good": the bytes match the expected dist.integrity.
ObjectOps == {"put", "read", "verify"}
ObjectRequest == [op : {"put"}, id : Ids, good : BOOLEAN]
                   \cup [op : {"read", "verify"}, id : Ids]
Request == ObjectRequest
             \cup [op : {"register"}, project : Projects, objects : SUBSET Ids]
             \cup [op : {"gc"}, olderThan : BOOLEAN, dryRun : BOOLEAN]
             \cup [op : {"clearOrphans"}]

ASSUME ScenariosAssumption ==
    /\ Scenarios \subseteq [calls : [Calls -> Request],
                           index : [Projects -> SUBSET Ids], indexed : SUBSET Projects]
    /\ \A s \in Scenarios : \A p \in Projects \ s.indexed : s.index[p] = {}

VARIABLES
  object,     \* objects/<id>: "none", the "good" bytes, "part" of them, or "bad" ones
  meta,       \* metadata/<id>: "none", or was it last accessed "recent"-ly or "old"
  unpacked,   \* the ids with an unpacked/ directory
  tmp,        \* tmp/: the .partial file a call writes for a target; "left" is one
              \* that the call could not remove when the write had failed
  index,      \* indexes/projects/<key>.json: the objects a project lists
  indexed,    \* the projects whose index file exists
  locks,      \* the calls that own a lock: that of an object, or the gc lock
  inflight,   \* ContentStore.inflight of each process
  req,        \* the request of each call
  pc,         \* where each call is
  loc,        \* the local variables of each call
  outcome,    \* how each call ended
  lost,       \* history: the puts whose object a gc has deleted since they began
  steady,     \* history: what a project that gc can read has listed ever since it
              \* looked for indexes
  overlapped  \* history: the calls that ran beside another one

disk == <<object, meta, unpacked, tmp, index, indexed>>
vars == <<disk, locks, inflight, req, pc, loc, outcome, lost, steady, overlapped>>

Kinds == {"object", "meta", "touch", "index"}  \* the targets of writeFileAtomic
Contents == {"none", "part", "good", "bad"}
GcLock == "gc"
LockNames == Ids \cup {GcLock}
Resting == {"start", "done", "dead"}
PCs == Resting \cup
  {"await", "verify", "check", "lock", "recheck", "readBytes", "assert", "assertMeta",
   "touch", "touchRead", "readMeta", "create", "write", "rename",
   "readdir", "readIndex", "judge", "judgeMeta", "delete", "deleteMeta", "deleteUnpacked",
   "removeTmp"}

Locals == [at : Ids \cup {NoId}, kind : Kinds, buf : Contents, unread : SUBSET Projects,
           reach : SUBSET Ids, todo : SUBSET Ids, doomed : SUBSET Ids,
           listed : SUBSET (Calls \X Kinds)]

TypeOK ==
    /\ object \in [Ids -> Contents]
    /\ meta \in [Ids -> {"none", "recent", "old"}]
    /\ unpacked \subseteq Ids
    /\ tmp \in [Calls -> [Kinds -> {"none", "part", "good", "left"}]]
    /\ index \in [Projects -> SUBSET Ids]
    /\ indexed \subseteq Projects
    /\ locks \in [LockNames -> SUBSET Calls]
    /\ inflight \in [Procs -> [Ids -> Calls \cup {NoCall}]]
    /\ req \in [Calls -> Request]
    /\ pc \in [Calls -> PCs]
    /\ loc \in [Calls -> Locals]
    /\ outcome \in [Calls -> {"pending", "ok", "missing", "mismatch", "corrupt", "fault",
                              "failed"}]
    /\ lost \subseteq Calls
    /\ steady \in [Calls -> SUBSET (Projects \X Ids)]
    /\ overlapped \in [Calls -> BOOLEAN]

\* Some objects are stored already; an index may list them, and missing ones.
Init ==
    /\ \E S \in SUBSET Ids :
          /\ object = [i \in Ids |-> IF i \in S THEN "good" ELSE "none"]
          /\ meta = [i \in Ids |-> IF i \in S THEN "old" ELSE "none"]
          /\ unpacked = S
    /\ tmp = [c \in Calls |-> [k \in Kinds |-> "none"]]
    /\ \E s \in Scenarios : req = s.calls /\ index = s.index /\ indexed = s.indexed
    /\ locks = [n \in LockNames |-> {}]
    /\ inflight = [p \in Procs |-> [i \in Ids |-> NoCall]]
    /\ pc = [c \in Calls |-> "start"]
    /\ loc = [c \in Calls |->
                [at |-> IF req[c].op \in ObjectOps THEN req[c].id ELSE NoId,
                 kind |-> "object", buf |-> "none", unread |-> {}, reach |-> {},
                 todo |-> {}, doomed |-> {}, listed |-> {}]]
    /\ outcome = [c \in Calls |-> "pending"]
    /\ lost = {}
    /\ steady = [c \in Calls |-> {}]
    /\ overlapped = [c \in Calls |-> FALSE]

------------------------------------------------------------------------------
(* Steps of a call *)

Files == <<object, meta, unpacked, tmp>>
Indexes == <<index, indexed, steady>>
Control == <<locks, inflight, outcome>>
Fixed == <<req, overlapped>>

Running == {c \in Calls : pc[c] \notin Resting}
At(c) == loc[c].at
Has(i) == object[i] # "none" /\ meta[i] # "none"

Goto(c, where) == pc' = [pc EXCEPT ![c] = where]

\* The next step of c, which neither ends nor changes locks.
Then(c, where) == Goto(c, where) /\ UNCHANGED Control

\* Fault: the promise is resolved for its maker only.
Waiters_None(c) == {}

\* The calls that await the promise of c in dedupe's map.
Waiters(c) == {d \in Calls : /\ pc[d] = "await"
                             /\ Owner[d] = Owner[c]
                             /\ inflight[Owner[c]][At(d)] = c}

\* Fault: the lock is released at the end of the try block, not in finally.
Released_OnSuccess(c, result) ==
    IF result = "ok" THEN [n \in LockNames |-> locks[n] \ {c}] ELSE locks

\* finally: the call's locks go, whatever its result.
Released(c, result) == [n \in LockNames |-> locks[n] \ {c}]

\* c returns or throws; with it do the calls that awaited its promise.
End(c, result) ==
    LET all == {c} \cup Waiters(c)
    IN  /\ pc' = [d \in Calls |-> IF d \in all THEN "done" ELSE pc[d]]
        /\ outcome' = [d \in Calls |-> IF d \in all THEN result ELSE outcome[d]]
        /\ locks' = Released(c, result)
        /\ inflight' = [p \in Procs |-> [i \in Ids |->
                          IF inflight[p][i] = c THEN NoCall ELSE inflight[p][i]]]

\* c is called; it and the calls under way overlap.
Begin(c, op) ==
    /\ pc[c] = "start"
    /\ req[c].op = op
    /\ overlapped' = [d \in Calls |-> IF d = c THEN Running # {}
                                      ELSE overlapped[d] \/ d \in Running]
    /\ UNCHANGED req

\* acquireLock(locks, n) is granted at once or throws STORE_LOCKED: somebody owns the
\* lock, or the file system does not let its file be created or broken (StoreLock).
MayLock(n) == locks[n] = {} \/ LossyLocks

AcquireLock(c, n, where) ==
    \/ /\ MayLock(n)
       /\ locks' = [locks EXCEPT ![n] = @ \cup {c}]
       /\ Goto(c, where)
       /\ UNCHANGED <<inflight, outcome>>
    \/ locks[n] # {} /\ End(c, "failed")
    \/ End(c, "fault")

------------------------------------------------------------------------------
(* writeFileAtomic and moveToTrash *)

\* Go and write the target k through a file in tmp/.
StartWrite(c, k) ==
    /\ Goto(c, "create")
    /\ loc' = [loc EXCEPT ![c].kind = k]

\* writeFile(tmp): the file is created empty ...
Create(c) ==
    /\ pc[c] = "create"
    /\ tmp' = [tmp EXCEPT ![c][loc[c].kind] = "part"]
    /\ Then(c, "write")
    /\ UNCHANGED <<object, meta, unpacked, Indexes, Fixed, loc, lost>>

\* ... and filled, unless clearOrphans has removed it, which the open file survives.
Write(c) ==
    /\ pc[c] = "write"
    /\ tmp' = [tmp EXCEPT ![c][loc[c].kind] = IF @ = "none" THEN "none" ELSE "good"]
    /\ Then(c, "rename")
    /\ UNCHANGED <<object, meta, unpacked, Indexes, Fixed, loc, lost>>

\* Fault: the handler does not remove the temporary file.
AfterFault_Keep(c) == {tmp}

\* rm(tmp, force) in the handler of writeFileAtomic: a failure of it is swallowed.
AfterFault(c) ==
    LET k == loc[c].kind
    IN  {[tmp EXCEPT ![c][k] = f] : f \in {"none"} \cup {"left" : t \in {tmp[c][k]} \ {"none"}}}

\* Fault: the handler of writeFileAtomic does not throw.
WriteFault_Swallowed(c) ==
    /\ pc[c] = "write"
    /\ tmp' \in AfterFault(c)
    /\ End(c, "ok")
    /\ UNCHANGED <<object, meta, unpacked, Indexes, Fixed, loc, lost>>

\* writeFile fails, for a full disk say, or the rename of a file that is there
\* does: the handler tidies up and throws.
WriteFault(c) ==
    /\ \/ pc[c] \in {"create", "write"}
       \/ pc[c] = "rename" /\ tmp[c][loc[c].kind] # "none"
    /\ tmp' \in AfterFault(c)
    /\ End(c, "fault")
    /\ UNCHANGED <<object, meta, unpacked, Indexes, Fixed, loc, lost>>

\* rename(tmp, filePath) finds no temporary file and the call throws.
RenameFails(c) ==
    /\ pc[c] = "rename"
    /\ tmp[c][loc[c].kind] = "none"
    /\ End(c, "failed")
    /\ UNCHANGED <<Files, Indexes, Fixed, loc, lost>>

\* Fault: the object is written in place, so that it is there while it is written.
Renaming_InPlace(c, k) ==
    /\ pc[c] \in {"write", "rename"}
    /\ loc[c].kind = k
    /\ tmp[c][k] \in {"part", "good"}
    /\ tmp' = [tmp EXCEPT ![c][k] = "none"]

\* rename(tmp, filePath) of the target k: what follows depends on k.
Renaming(c, k) ==
    /\ pc[c] = "rename"
    /\ loc[c].kind = k
    /\ tmp[c][k] \in {"part", "good"}
    /\ tmp' = [tmp EXCEPT ![c][k] = "none"]

\* insert: the object is in place, its metadata comes next.
RenameObject(c) ==
    /\ Renaming(c, "object")
    /\ object' = [object EXCEPT ![At(c)] = tmp[c]["object"]]
    /\ StartWrite(c, "meta")
    /\ UNCHANGED <<meta, unpacked, Indexes, Control, Fixed, lost>>

\* insert: the metadata is in place and put returns.
RenameMeta(c) ==
    /\ Renaming(c, "meta")
    /\ meta' = [meta EXCEPT ![At(c)] = "recent"]
    /\ End(c, "ok")
    /\ UNCHANGED <<object, unpacked, Indexes, Fixed, loc, lost>>

\* touch ends; put then reads the metadata it returns, read returns its bytes.
AfterTouch(c) == IF req[c].op = "put" THEN Then(c, "readMeta") ELSE End(c, "ok")

\* touch: the metadata are back, even if gc has removed them meanwhile.
RenameTouch(c) ==
    /\ Renaming(c, "touch")
    /\ meta' = [meta EXCEPT ![At(c)] = "recent"]
    /\ AfterTouch(c)
    /\ UNCHANGED <<object, unpacked, Indexes, Fixed, loc, lost>>

\* registerProject: the project's index is replaced.
RenameIndex(c) ==
    /\ Renaming(c, "index")
    /\ LET p == req[c].project  S == req[c].objects
       IN  /\ index' = [index EXCEPT ![p] = S]
           /\ indexed' = indexed \cup {p}
           /\ steady' = [d \in Calls |-> {s \in steady[d] : s[1] = p => s[2] \in S}]
    /\ End(c, "ok")
    /\ UNCHANGED <<object, meta, unpacked, Fixed, loc, lost>>

------------------------------------------------------------------------------
(* put, read, verifyObject, registerProject *)

\* Fault: every put runs on its own.
Leader_Self(c) == NoCall

\* The call whose promise dedupe finds for the object of c.
Leader(c) == inflight[Owner[c]][At(c)]

\* put, dedupe: await the promise of a put of the same bytes in this process,
\* or run and leave a promise for others to await.
PutBegin(c) ==
    /\ Begin(c, "put")
    /\ IF Leader(c) # NoCall
       THEN /\ Goto(c, "await")
            /\ lost' = IF Leader(c) \in lost THEN lost \cup {c} ELSE lost
            /\ UNCHANGED inflight
       ELSE /\ Goto(c, "verify")
            /\ inflight' = [inflight EXCEPT ![Owner[c]][At(c)] = c]
            /\ UNCHANGED lost
    /\ UNCHANGED <<Files, Indexes, locks, loc, outcome>>

\* put: the integrity of the bytes is verified before the insert.
PutVerify(c) ==
    /\ pc[c] = "verify"
    /\ IF req[c].good THEN Then(c, "check") ELSE End(c, "mismatch")
    /\ UNCHANGED <<Files, Indexes, Fixed, loc, lost>>

\* insert: is the object there?  (Two existsSync: nothing between them matters.)
InsertCheck(c) ==
    /\ pc[c] = "check"
    /\ Then(c, IF Has(At(c)) THEN "readBytes" ELSE "lock")
    /\ UNCHANGED <<Files, Indexes, Fixed, loc, lost>>

\* insert: the lock of the object.
InsertLock(c) ==
    /\ pc[c] = "lock"
    /\ AcquireLock(c, At(c), "recheck")
    /\ UNCHANGED <<Files, Indexes, Fixed, loc, lost>>

\* Fault: the object file alone counts as a hit.
RecheckHit_ObjectOnly(i) == object[i] # "none"

\* Both the object and its metadata count.
RecheckHit(i) == Has(i)

\* insert: another process may have stored the object before the lock was granted.
InsertRecheck(c) ==
    /\ pc[c] = "recheck"
    /\ IF RecheckHit(At(c))
       THEN Then(c, "readBytes") /\ UNCHANGED loc
       ELSE StartWrite(c, "object") /\ UNCHANGED Control
    /\ UNCHANGED <<Files, Indexes, Fixed, lost>>

\* read and verifyObject look whether the file exists.
ReadBegin(c) ==
    /\ \E op \in {"read", "verify"} : Begin(c, op)
    /\ IF object[At(c)] = "none" THEN End(c, "missing") ELSE Then(c, "readBytes")
    /\ UNCHANGED <<Files, Indexes, loc, lost>>

\* readFile(file): ENOENT if gc was faster.
ReadBytes(c) ==
    /\ pc[c] = "readBytes"
    /\ IF object[At(c)] = "none"
       THEN End(c, "failed") /\ UNCHANGED loc
       ELSE Then(c, "assert") /\ loc' = [loc EXCEPT ![c].buf = object[At(c)]]
    /\ UNCHANGED <<Files, Indexes, Fixed, lost>>

\* Past assertObjectValid: read and an unlocked hit of put go on to touch.  A
\* locked hit returns a promise it does not await, so finally releases first.
AfterAssert(c) ==
    IF req[c].op = "verify" THEN End(c, "ok")
    ELSE IF c \in locks[At(c)]
         THEN /\ Goto(c, "readMeta")
              /\ locks' = Released(c, "ok")
              /\ UNCHANGED <<inflight, outcome>>
         ELSE Then(c, "touch")

\* Fault: bytes that do not match the content id are accepted.
DigestMatches_Always(c) == TRUE

\* assertObjectValid, line 364: the digest of the bytes just read.
DigestMatches(c) == loc[c].buf = "good"

\* assertObjectValid: the digest, then getMetadata (existsSync first).
CheckBytes(c) ==
    /\ pc[c] = "assert"
    /\ \/ ~DigestMatches(c) /\ End(c, "corrupt")
       \/ DigestMatches(c) /\ meta[At(c)] # "none" /\ Then(c, "assertMeta")
       \/ DigestMatches(c) /\ meta[At(c)] = "none" /\ AfterAssert(c)
    /\ UNCHANGED <<Files, Indexes, Fixed, loc, lost>>

\* getMetadata: readFile throws ENOENT if gc was faster.
CheckMeta(c) ==
    /\ pc[c] = "assertMeta"
    /\ IF meta[At(c)] = "none" THEN End(c, "failed") ELSE AfterAssert(c)
    /\ UNCHANGED <<Files, Indexes, Fixed, loc, lost>>

\* touch: getMetadata, existsSync.
Touch(c) ==
    /\ pc[c] = "touch"
    /\ IF meta[At(c)] = "none" THEN AfterTouch(c) ELSE Then(c, "touchRead")
    /\ UNCHANGED <<Files, Indexes, Fixed, loc, lost>>

\* touch: getMetadata, readFile.
TouchRead(c) ==
    /\ pc[c] = "touchRead"
    /\ IF meta[At(c)] = "none"
       THEN End(c, "failed") /\ UNCHANGED loc
       ELSE StartWrite(c, "touch") /\ UNCHANGED Control
    /\ UNCHANGED <<Files, Indexes, Fixed, lost>>

\* insert: the metadata of a hit are read and returned.
ReadMeta(c) ==
    /\ pc[c] = "readMeta"
    /\ End(c, IF meta[At(c)] = "none" THEN "failed" ELSE "ok")
    /\ UNCHANGED <<Files, Indexes, Fixed, loc, lost>>

\* registerProject takes no lock.
RegisterBegin(c) ==
    /\ Begin(c, "register")
    /\ StartWrite(c, "index")
    /\ UNCHANGED <<Files, Indexes, Control, lost>>

------------------------------------------------------------------------------
(* gc and clearOrphans *)

\* gc: the gc lock, or STORE_LOCKED.
GcBegin(c) ==
    /\ Begin(c, "gc")
    /\ AcquireLock(c, GcLock, "readdir")
    /\ UNCHANGED <<Files, Indexes, loc, lost>>

\* listProjectIndexes: readdir.
GcReaddir(c) ==
    /\ pc[c] = "readdir"
    /\ loc' = [loc EXCEPT ![c].unread = indexed]
    /\ steady' = [steady EXCEPT ![c] = {s \in indexed \X Ids : s[2] \in index[s[1]]}]
    /\ Then(c, "readIndex")
    /\ UNCHANGED <<Files, index, indexed, Fixed, lost>>

\* Fault: only the last index counts.
ReachWith_Last(c, p) == index[p]

\* What is reachable with the index of p.
ReachWith(c, p) == loc[c].reach \cup index[p]

\* listProjectIndexes: one index file after the other.
GcReadIndex(c) ==
    /\ pc[c] = "readIndex"
    /\ \E p \in loc[c].unread :
          loc' = [loc EXCEPT ![c].unread = @ \ {p}, ![c].reach = ReachWith(c, p)]
    /\ UNCHANGED <<pc, Files, Indexes, Control, Fixed, lost>>

\* listProjectIndexes skips an index file that it cannot read or parse: what only
\* that project lists will not be reachable.
GcSkipIndex(c) ==
    /\ pc[c] = "readIndex"
    /\ \E p \in loc[c].unread \cap BadIndexes :
          /\ loc' = [loc EXCEPT ![c].unread = @ \ {p}]
          /\ steady' = [steady EXCEPT ![c] = {s \in @ : s[1] # p}]
    /\ UNCHANGED <<pc, Files, index, indexed, Control, Fixed, lost>>

\* Fault: a .partial name passes for an object's.
Candidates_Partial(c) == {NoId} \cup {i \in Ids : object[i] # "none"}

\* Fault: the stored objects are not held against the indexes.
Candidates_All(c) == {i \in Ids : object[i] # "none"}

\* The stored objects that no index listed when it was read.
Candidates(c) == {i \in Ids : object[i] # "none"} \ loc[c].reach

\* listObjectIds, with the ids that are reachable skipped at once; a directory
\* that cannot be read is passed over, with the ids in it.
GcList(c) ==
    /\ pc[c] = "readIndex" /\ loc[c].unread = {}
    /\ \E S \in SUBSET Candidates(c) : loc' = [loc EXCEPT ![c].todo = S]
    /\ Then(c, "judge")
    /\ UNCHANGED <<Files, Indexes, Fixed, lost>>

\* An id is doomed, or spared.
Judged(c, i, doom) ==
    loc' = [loc EXCEPT ![c].todo = @ \ {i}, ![c].at = i,
                       ![c].doomed = IF doom THEN @ \cup {i} ELSE @]

\* getMetadata, existsSync: an object without metadata has no age to spare it.
GcJudge(c) ==
    /\ pc[c] = "judge"
    /\ \E i \in loc[c].todo :
          IF meta[i] = "none"
          THEN Judged(c, i, TRUE) /\ UNCHANGED pc
          ELSE loc' = [loc EXCEPT ![c].at = i] /\ Goto(c, "judgeMeta")
    /\ UNCHANGED <<Files, Indexes, Control, Fixed, lost>>

\* getMetadata, readFile: ENOENT ends the whole collection; the age is judged.
GcJudgeMeta(c) ==
    /\ pc[c] = "judgeMeta"
    /\ IF meta[At(c)] = "none"
       THEN End(c, "failed") /\ UNCHANGED loc
       ELSE /\ Judged(c, At(c), ~(req[c].olderThan /\ meta[At(c)] = "recent"))
            /\ Then(c, "judge")
    /\ UNCHANGED <<Files, Indexes, Fixed, lost>>

\* All ids judged: a dry run ends here.
GcJudgedAll(c) ==
    /\ pc[c] = "judge" /\ loc[c].todo = {}
    /\ IF req[c].dryRun THEN End(c, "ok") ELSE Then(c, "delete")
    /\ UNCHANGED <<Files, Indexes, Fixed, loc, lost>>

\* The puts of i that have begun: what gc deletes from now on, it takes from them.
PutsOf(i) == {d \in Calls : req[d].op = "put" /\ req[d].id = i /\ pc[d] # "start"}

\* deleteObject: moveToTrash of the object file.  A rename that comes too late
\* falls back to rm(force), so removing what is there is all it does.
GcDelete(c) ==
    /\ pc[c] = "delete"
    /\ \E i \in loc[c].doomed :
          /\ loc' = [loc EXCEPT ![c].at = i]
          /\ object' = [object EXCEPT ![i] = "none"]
          /\ lost' = IF object[i] = "none" THEN lost ELSE lost \cup PutsOf(i)
    /\ Then(c, "deleteMeta")
    /\ UNCHANGED <<meta, unpacked, tmp, Indexes, Fixed>>

\* deleteObject: moveToTrash of the metadata.
GcDeleteMeta(c) ==
    /\ pc[c] = "deleteMeta"
    /\ meta' = [meta EXCEPT ![At(c)] = "none"]
    /\ lost' = IF meta[At(c)] = "none" THEN lost ELSE lost \cup PutsOf(At(c))
    /\ Then(c, "deleteUnpacked")
    /\ UNCHANGED <<object, unpacked, tmp, Indexes, Fixed, loc>>

\* deleteObject: moveToTrash of the unpacked directory; the next doomed id.
GcDeleteUnpacked(c) ==
    /\ pc[c] = "deleteUnpacked"
    /\ unpacked' = unpacked \ {At(c)}
    /\ loc' = [loc EXCEPT ![c].doomed = @ \ {At(c)}]
    /\ Then(c, "delete")
    /\ UNCHANGED <<object, meta, tmp, Indexes, Fixed, lost>>

GcEnd(c) ==
    /\ pc[c] = "delete" /\ loc[c].doomed = {}
    /\ End(c, "ok")
    /\ UNCHANGED <<Files, Indexes, Fixed, loc, lost>>

\* clearOrphans: orphanTmp lists every file of tmp/, those in use included.
ClearBegin(c) ==
    /\ Begin(c, "clearOrphans")
    /\ loc' = [loc EXCEPT ![c].listed = {f \in Calls \X Kinds : tmp[f[1]][f[2]] # "none"}]
    /\ Then(c, "removeTmp")
    /\ UNCHANGED <<Files, Indexes, lost>>

\* clearOrphans: rm(force) of one listed file after the other.
ClearRemove(c) ==
    /\ pc[c] = "removeTmp"
    /\ \E f \in loc[c].listed :
          /\ tmp' = [tmp EXCEPT ![f[1]][f[2]] = "none"]
          /\ loc' = [loc EXCEPT ![c].listed = @ \ {f}]
    /\ UNCHANGED <<pc, object, meta, unpacked, Indexes, Control, Fixed, lost>>

ClearEnd(c) ==
    /\ pc[c] = "removeTmp" /\ loc[c].listed = {}
    /\ End(c, "ok")
    /\ UNCHANGED <<Files, Indexes, Fixed, loc, lost>>

------------------------------------------------------------------------------
(* The environment, and the specification *)

\* A process dies: its calls stop, its memory is gone, its files stay.  The lock
\* files of the dead are broken by the next acquireLock (StoreLock), so a dead
\* call owns none.
Crash(p) ==
    LET dying == {c \in Running : Owner[c] = p}
    IN  /\ dying # {}
        /\ pc' = [c \in Calls |-> IF c \in dying THEN "dead" ELSE pc[c]]
        /\ locks' = [n \in LockNames |-> locks[n] \ dying]
        /\ inflight' = [inflight EXCEPT ![p] = [i \in Ids |-> NoCall]]
        /\ UNCHANGED <<Files, Indexes, Fixed, loc, outcome, lost>>

\* The disk corrupts the bytes of a stored object.
Rot(i) ==
    /\ i \in RotIds /\ object[i] = "good"
    /\ object' = [object EXCEPT ![i] = "bad"]
    /\ UNCHANGED <<meta, unpacked, tmp, Indexes, Control, Fixed, pc, loc, lost>>

\* The last access of an object moves into the past.
Age(i) ==
    /\ meta[i] = "recent"
    /\ meta' = [meta EXCEPT ![i] = "old"]
    /\ UNCHANGED <<object, unpacked, tmp, Indexes, Control, Fixed, pc, loc, lost>>

WriteStep(c) ==
    \/ Create(c) \/ Write(c) \/ WriteFault(c) \/ RenameFails(c)
    \/ RenameObject(c) \/ RenameMeta(c) \/ RenameTouch(c) \/ RenameIndex(c)

PutStep(c) ==
    \/ PutVerify(c) \/ InsertCheck(c) \/ InsertLock(c) \/ InsertRecheck(c)
    \/ ReadBytes(c) \/ CheckBytes(c) \/ CheckMeta(c)
    \/ Touch(c) \/ TouchRead(c) \/ ReadMeta(c)

GcStep(c) ==
    \/ GcReaddir(c) \/ GcReadIndex(c) \/ GcSkipIndex(c) \/ GcList(c)
    \/ GcJudge(c) \/ GcJudgeMeta(c) \/ GcJudgedAll(c)
    \/ GcDelete(c) \/ GcDeleteMeta(c) \/ GcDeleteUnpacked(c) \/ GcEnd(c)

ClearStep(c) == ClearRemove(c) \/ ClearEnd(c)

Step(c) == WriteStep(c) \/ PutStep(c) \/ GcStep(c) \/ ClearStep(c)

Call(c) ==
    \/ PutBegin(c) \/ ReadBegin(c) \/ RegisterBegin(c) \/ GcBegin(c) \/ ClearBegin(c)

Next ==
    \/ \E c \in Calls : Call(c) \/ Step(c)
    \/ \E p \in Procs : Crash(p)
    \/ \E i \in Ids : Rot(i) \/ Age(i)

\* A file operation that has been started completes, so a call under way moves on.
Spec == Init /\ [][Next]_vars /\ \A c \in Calls : WF_vars(Step(c))

------------------------------------------------------------------------------
(* Properties *)

\* An object's path never names a part of its bytes, whoever crashes, fails or is
\* robbed of a lock: insert publishes only by renaming a complete file
\* (README.md, "Writes go to tmp/ and are renamed into place").
NoPartialObject == \A i \in Ids : object[i] # "part"

\* read and verifyObject succeed only on bytes that match the content id, though
\* the disk may rot and gc and puts run between exists, read and check.
ReadsAreVerified ==
    \A c \in Calls : outcome[c] = "ok" /\ req[c].op \in {"read", "verify"}
                        => loc[c].buf = "good"

\* When put has returned, alone or through the promise of another call, the store
\* has the object with its metadata, unless a gc has deleted either since that put
\* began.  In particular put never takes an object without metadata, or metadata
\* that touch wrote back after a gc, for a stored object.
PutIsDurable ==
    \A c \in Calls : outcome[c] = "ok" /\ req[c].op = "put" => Has(At(c)) \/ c \in lost

\* gc dooms nothing that one project has listed ever since gc looked for indexes,
\* however registrations interleave with its reading of the index files, if it can
\* read that project's index.
GcSparesRegistered ==
    \A c \in Calls : \A s \in steady[c] : s[2] \notin loc[c].doomed

\* A call that is over owns no lock and no promise is left for it, on every path
\* of return, failure and death; who awaits a promise awaits a call under way; and
\* the .partial files are those of killed calls (THREAT_MODEL.md, "killed processes
\* leave .partial files") and those whose own removal failed.
NothingLeftBehind ==
    /\ \A c \in Calls \ Running :
          /\ \A n \in LockNames : c \notin locks[n]
          /\ \A p \in Procs, i \in Ids : inflight[p][i] # c
    /\ \A c \in Calls : pc[c] = "await" => Leader(c) \in Running
    /\ \A c \in Calls : pc[c] = "done" => \A k \in Kinds : tmp[c][k] \in {"none", "left"}

\* A process runs one insert of the same bytes at a time (ARCHITECTURE.md,
\* "In-process fetch/insert deduplication").
OneInsertPerProcess ==
    \A c, d \in Running :
        /\ c # d /\ Owner[c] = Owner[d]
        /\ req[c].op = "put" /\ req[d].op = "put" /\ At(c) = At(d)
        => "await" \in {pc[c], pc[d]}

\* Missing files and busy locks end a call only if another call ran beside it:
\* whatever crashes left in the store, a call that runs alone is not hurt by it.
FailuresNeedARival == \A c \in Calls : outcome[c] = "failed" => overlapped[c]

\* Every call returns or throws, unless its process dies.
CallsReturn == \A c \in Calls : c \in Running ~> pc[c] \in {"done", "dead"}

\* The collections that have listed the indexes and are under way.
Collecting ==
    {c \in Calls : pc[c] \in {"readIndex", "judge", "judgeMeta", "delete", "deleteMeta",
                              "deleteUnpacked"}}

\* The calls, with their files, locks and crashes, implement the store that the
\* rest of Knot relies on.
Promise == INSTANCE ObjectStore
             WITH Collectors <- Calls, content <- object, listed <- index,
                  pinned <- steady, collecting <- Collecting
ImplementsObjectStore == Promise!Spec

\* "GC never deletes objects listed in a registered project index"
\* (docs/content-store.md).  The code does not keep this promise, be it that the
\* index changes while gc runs or that gc cannot read it.
GcNeverDeletesListed ==
    [][\A c \in Calls : GcDelete(c) => \A p \in Projects : At(c)' \notin index[p]]_vars

\* "Every downloaded object passes [...] npm dist.integrity when present [...]
\* before an atomic insert" (README.md).  The code does not keep this promise.
PutsMatchIntegrity ==
    \A c \in Calls : outcome[c] = "ok" /\ req[c].op = "put" => req[c].good
==============================================================================
