------------------------------ MODULE StoreLock ------------------------------
(***************************************************************************)
(* packages/core/src/store/locks.ts: one lock of the store ("gc", or one   *)
(* per object), kept as a file that openSync(path, "wx") creates.  Every   *)
(* system call of acquireLock is an action, because processes interleave   *)
(* between them, and every one that the code has a handler for may fail.   *)
(* Time passes (GrowOld), processes die (Crash).                           *)
(***************************************************************************)
EXTENDS Naturals

CONSTANTS Procs,        \* the processes that share the store directory
          Nobody,       \* the pid of the record that stands for "no file"
          DeadPid,      \* the pid in a file whose writer has died
          MaxAttempts,  \* the retries of the loop at line 31 (8 in the code)
          PidReuse,     \* may the pid of a dead process belong to another one?
          CanSignal     \* <<p, q>>: kill(q, 0) by p succeeds while q is alive

ASSUME ProcsAssumption == Nobody \notin Procs /\ DeadPid \notin Procs /\ Nobody # DeadPid
ASSUME AttemptsAssumption == MaxAttempts \in Nat \ {0}
ASSUME ReuseAssumption == PidReuse \in BOOLEAN
ASSUME SignalAssumption == CanSignal \subseteq Procs \X Procs

VARIABLES file,       \* the lock file: pid, is its payload written, is it stale,
                      \* history: did its writer, alive, get out without removing it
          pc,         \* where each process is in acquireLock
          tries,      \* the attempts it has begun in this call
          robbed,     \* history: a live owner lost its file to another process
          disturbed   \* history: p shared a part of its call with another one,
                      \* met a file that a live one left, or could not see or
                      \* remove the file that was there

vars == <<file, pc, tries, robbed, disturbed>>

NoFile == [pid |-> Nobody, full |-> FALSE, old |-> FALSE, left |-> FALSE]

PCs == {"idle", "open", "write", "exists", "read", "unlinkStale",
        "unlinkUnreadable", "held", "failed", "error"}

Outside == {"idle", "failed", "error"}

\* The processes that created the lock file and have not released it.
Owners == {p \in Procs : pc[p] \in {"write", "held"}}

TypeOK ==
    /\ file \in [pid : Procs \cup {Nobody, DeadPid}, full : BOOLEAN, old : BOOLEAN,
                left : BOOLEAN]
    /\ file.pid = Nobody => file = NoFile
    /\ pc \in [Procs -> PCs]
    /\ tries \in [Procs -> 0..MaxAttempts]
    /\ robbed \in BOOLEAN
    /\ disturbed \in [Procs -> BOOLEAN]

Init ==
    /\ file = NoFile
    /\ pc = [p \in Procs |-> "idle"]
    /\ tries = [p \in Procs |-> 0]
    /\ robbed = FALSE
    /\ disturbed = [p \in Procs |-> FALSE]

Goto(p, where) == pc' = [pc EXCEPT ![p] = where]

Disturb(p) == disturbed' = [disturbed EXCEPT ![p] = TRUE]

\* acquireLock is called.
Begin(p) ==
    /\ pc[p] \in Outside
    /\ Goto(p, "open")
    /\ tries' = [tries EXCEPT ![p] = 1]
    /\ disturbed' = [q \in Procs |->
          IF q # p THEN disturbed[q] \/ pc[q] \notin Outside
          ELSE \/ \E r \in Procs \ {p} : pc[r] \notin Outside
               \/ file.left /\ ~file.old]
    /\ UNCHANGED <<file, robbed>>

\* Fault: the attempts are not counted.
NextAttempt_Uncounted(p) ==
    /\ Goto(p, "open")
    /\ UNCHANGED tries

\* Fault: one attempt too many.
NextAttempt_OffByOne(p) ==
    IF tries[p] <= MaxAttempts
    THEN /\ Goto(p, "open")
         /\ tries' = [tries EXCEPT ![p] = @ + 1]
    ELSE /\ Goto(p, "failed")
         /\ UNCHANGED tries

\* The end of an attempt that did not get the lock.
NextAttempt(p) ==
    IF tries[p] < MaxAttempts
    THEN /\ Goto(p, "open")
         /\ tries' = [tries EXCEPT ![p] = @ + 1]
    ELSE /\ Goto(p, "failed")
         /\ UNCHANGED tries

\* Fault: the file is opened with "w", which does not insist on creating it.
MayCreate_Always == TRUE

\* Does an open with the flag "wx" create the file?
MayCreate == file = NoFile

\* openSync(lockPath, "wx"): an empty file of p's, or EEXIST.
Open(p) ==
    /\ pc[p] = "open"
    /\ IF MayCreate
       THEN /\ file' = [NoFile EXCEPT !.pid = p]
            /\ Goto(p, "write")
       ELSE /\ Goto(p, "exists")
            /\ UNCHANGED file
    /\ UNCHANGED <<tries, robbed, disturbed>>

\* Any other error of openSync: STORE_LOCKED at once, no retry.
OpenFails(p) ==
    /\ pc[p] = "open"
    /\ Goto(p, "error")
    /\ UNCHANGED <<file, tries, robbed, disturbed>>

\* writeSync: the payload reaches the file only if the path still names it, and
\* a short write (its result is not looked at) leaves text that cannot be parsed.
Write(p) ==
    /\ pc[p] = "write"
    /\ \E full \in BOOLEAN :
          file' = IF file.pid = p THEN [file EXCEPT !.full = full] ELSE file
    /\ Goto(p, "held")
    /\ UNCHANGED <<tries, robbed, disturbed>>

\* writeSync fails (a full disk) and leaves an empty file behind, or closeSync
\* fails and leaves a written one: neither is removed.
WriteFails(p) ==
    /\ pc[p] = "write"
    /\ \E full \in BOOLEAN :
          file' = IF file.pid = p THEN [file EXCEPT !.full = full, !.left = full]
                                  ELSE file
    /\ Goto(p, "error")
    /\ UNCHANGED <<tries, robbed, disturbed>>

\* existsSync(lockPath)
CheckExists(p) ==
    /\ pc[p] = "exists"
    /\ IF file = NoFile
       THEN NextAttempt(p)
       ELSE Goto(p, "read") /\ UNCHANGED tries
    /\ UNCHANGED <<file, robbed, disturbed>>

\* existsSync answers FALSE for every error: the file is not looked at.
ExistsFails(p) ==
    /\ pc[p] = "exists" /\ file # NoFile
    /\ NextAttempt(p)
    /\ Disturb(p)
    /\ UNCHANGED <<file, robbed>>

\* The answers isPidAlive(pid) can give to p: a dead pid may have been reused,
\* and a signal to another user's process fails with EPERM, which is caught.
IsPidAlive(p, pid) ==
    IF pid = DeadPid THEN IF PidReuse THEN BOOLEAN ELSE {FALSE}
    ELSE {(<<p, pid>> \in CanSignal)}

\* Fault: the age is the only reason to take a lock for stale.
Stale_AgeOnly(p) == {file.old}

\* The answers of the test at line 62 about a payload that could be parsed.
Stale(p) == {~alive \/ file.old : alive \in IsPidAlive(p, file.pid)}

\* readFileSync and JSON.parse throw on a file that vanished or is not written;
\* otherwise the payload is judged.
Read(p) ==
    /\ pc[p] = "read"
    /\ IF file = NoFile \/ ~file.full
       THEN Goto(p, "unlinkUnreadable") /\ UNCHANGED tries
       ELSE \E stale \in Stale(p) :
               IF stale THEN Goto(p, "unlinkStale") /\ UNCHANGED tries
                        ELSE NextAttempt(p)
    /\ UNCHANGED <<file, robbed, disturbed>>

\* readFileSync fails on a written file: it is taken for an unreadable one.
ReadFails(p) ==
    /\ pc[p] = "read" /\ file.full
    /\ Goto(p, "unlinkUnreadable")
    /\ UNCHANGED <<file, tries, robbed, disturbed>>

\* p removes whatever file is at the path, its own or another owner's.
Unlink(p) ==
    /\ file' = NoFile
    /\ robbed' = (robbed \/ \E q \in Owners \ {p} : file.pid = q)

\* unlinkSync at line 63; ENOENT is caught by the handler of the read.
UnlinkStale(p) ==
    /\ pc[p] = "unlinkStale"
    /\ Unlink(p)
    /\ IF file = NoFile
       THEN Goto(p, "unlinkUnreadable") /\ UNCHANGED tries
       ELSE NextAttempt(p)
    /\ UNCHANGED disturbed

\* The file is there and cannot be removed: line 68 tries a second time.
UnlinkStaleFails(p) ==
    /\ pc[p] = "unlinkStale" /\ file # NoFile
    /\ Goto(p, "unlinkUnreadable")
    /\ UNCHANGED <<file, tries, robbed, disturbed>>

\* unlinkSync at line 68; another attempt whether or not it succeeds.
UnlinkUnreadable(p) ==
    /\ pc[p] = "unlinkUnreadable"
    /\ Unlink(p)
    /\ NextAttempt(p)
    /\ UNCHANGED disturbed

\* The file is there and cannot be removed: the attempt is spent.
UnlinkUnreadableFails(p) ==
    /\ pc[p] = "unlinkUnreadable" /\ file # NoFile
    /\ NextAttempt(p)
    /\ Disturb(p)
    /\ UNCHANGED <<file, robbed>>

\* Fault: release keeps the file.
Release_KeepsFile(p) ==
    /\ pc[p] = "held"
    /\ Goto(p, "idle")
    /\ UNCHANGED <<file, tries, robbed, disturbed>>

\* handle.release(), also at the end of withLock.
Release(p) ==
    /\ pc[p] = "held"
    /\ Goto(p, "idle")
    /\ Unlink(p)
    /\ UNCHANGED <<tries, disturbed>>

\* release() swallows a failed unlink: the file stays, with the pid of a process
\* that goes on living.
ReleaseFails(p) ==
    /\ pc[p] = "held"
    /\ Goto(p, "idle")
    /\ file' = IF file.pid = p THEN [file EXCEPT !.left = file.full] ELSE file
    /\ UNCHANGED <<tries, robbed, disturbed>>

\* The process dies; a lock file of its own stays, with a pid nobody has.
Crash(p) ==
    /\ pc[p] \notin Outside \/ file.pid = p
    /\ Goto(p, "idle")
    /\ file' = IF file.pid = p THEN [file EXCEPT !.pid = DeadPid, !.left = FALSE]
                              ELSE file
    /\ UNCHANGED <<tries, robbed, disturbed>>

\* staleMs pass since the createdAt of the file's owner.
GrowOld ==
    /\ file # NoFile /\ ~file.old
    /\ file' = [file EXCEPT !.old = TRUE]
    /\ UNCHANGED <<pc, tries, robbed, disturbed>>

\* The steps of acquireLock that p takes by itself.
Acquiring(p) ==
    \/ Open(p) \/ OpenFails(p)
    \/ Write(p) \/ WriteFails(p)
    \/ CheckExists(p) \/ ExistsFails(p)
    \/ Read(p) \/ ReadFails(p)
    \/ UnlinkStale(p) \/ UnlinkStaleFails(p)
    \/ UnlinkUnreadable(p) \/ UnlinkUnreadableFails(p)

Next ==
    \/ \E p \in Procs :
          Begin(p) \/ Acquiring(p) \/ Release(p) \/ ReleaseFails(p) \/ Crash(p)
    \/ GrowOld

\* acquireLock is synchronous: a process inside it is never descheduled for good.
Spec == Init /\ [][Next]_vars /\ \A p \in Procs : WF_vars(Acquiring(p))

------------------------------------------------------------------------------

\* The processes that acquireLock has returned a handle to.
Holders == {p \in Procs : pc[p] = "held"}

\* Two processes never hold the lock at once (ARCHITECTURE.md, "Per-object
\* exclusive lockfiles").  The code does not keep this promise.
Exclusive == \A p, q \in Holders : p = q

\* They do not until an owner's file has been removed by another process: the
\* exclusive create, the stale test and release alone admit a single owner.
ExclusiveUntilRobbed == robbed \/ \A p, q \in Owners : p = q

\* release() removes another live owner's file only after a robbery: the file
\* at the path is otherwise the releasing process's own (lines 41-47).
ReleaseRemovesOwn ==
    [][\A p \in Procs : pc[p] = "held" /\ pc'[p] = "idle" /\ file' = NoFile
          => file.pid = p \/ robbed]_vars

\* A live pid in a readable lock file means a present owner, unless the very
\* system call that should have removed the file failed (lines 37 and 43): no
\* other way out of the lock leaves a file that blocks everybody until it is old.
NoLeakedLock ==
    file.full /\ file.pid \in Procs /\ ~file.left => pc[file.pid] = "held"

\* "Timed out waiting" is thrown only if another process was inside during the
\* call, or the file was one left behind by a live process, or it could not be
\* seen or removed: breaking the files of dead processes, unreadable and stale
\* ones costs an attempt each and never the lock (lines 58-73), although there is
\* no delay between the attempts.  Assumes that pids are not reused.
TimeoutsHaveCauses ==
    \A p \in Procs : pc[p] = "failed" => disturbed[p]

\* Every call of acquireLock returns or throws: no sequence of breaks, retries
\* and races keeps a process in the loop.
AcquireReturns ==
    \A p \in Procs : pc[p] = "open" ~> pc[p] \in {"held", "idle", "failed", "error"}

\* The lock file implements the lock the rest of the store is written against.
Abstract == INSTANCE ExclusiveLock WITH holders <- Owners, robbed <- robbed
ImplementsExclusiveLock == Abstract!Spec
==============================================================================
