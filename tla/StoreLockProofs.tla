--------------------------- MODULE StoreLockProofs ---------------------------
(***************************************************************************)
(* Proofs about StoreLock, for every number of processes and attempts.     *)
(***************************************************************************)
EXTENDS StoreLock, TLAPS

\* Type correctness: every variable of the lock keeps its type.
THEOREM TypeCorrect == Spec => []TypeOK
<1> DEFINE FileRecord == [pid : Procs \cup {Nobody, DeadPid}, full : BOOLEAN,
                          old : BOOLEAN, left : BOOLEAN]
           FileOK == file \in FileRecord /\ (file.pid = Nobody => file = NoFile)
           PlacesOK == pc \in [Procs -> PCs] /\ tries \in [Procs -> 0..MaxAttempts]
           HistoryOK == robbed \in BOOLEAN /\ disturbed \in [Procs -> BOOLEAN]
<1> USE ProcsAssumption, AttemptsAssumption DEF ProcsAssumption, AttemptsAssumption
<1>0. /\ TypeOK <=> FileOK /\ PlacesOK /\ HistoryOK
      /\ TypeOK' <=> FileOK' /\ PlacesOK' /\ HistoryOK'
  BY DEF TypeOK
<1>1. Init => TypeOK
  <2> SUFFICES ASSUME Init PROVE TypeOK
    OBVIOUS
  <2>1. FileOK
    BY DEF Init, NoFile
  <2>2. PlacesOK
    BY DEF Init, PCs
  <2>3. HistoryOK
    BY Zenon DEF Init
  <2> QED BY <1>0, <2>1, <2>2, <2>3
<1>2. TypeOK /\ [Next]_vars => TypeOK'
  <2> SUFFICES ASSUME FileOK, PlacesOK, HistoryOK, [Next]_vars
               PROVE  FileOK' /\ PlacesOK' /\ HistoryOK'
    BY <1>0
  <2>0. NoFile \in FileRecord
    BY DEF NoFile
  <2>1. ASSUME NEW p \in Procs, Begin(p) PROVE FileOK' /\ PlacesOK' /\ HistoryOK'
    <3>1. FileOK'
      BY <2>1 DEF Begin
    <3>2. PlacesOK'
      BY <2>1 DEF Begin, Goto, PCs
    <3>3. \A q \in Procs : disturbed'[q] \in BOOLEAN
      BY <2>1 DEF Begin
    <3>4. HistoryOK'
      BY <2>1, <3>3 DEF Begin
    <3> QED BY <3>1, <3>2, <3>4
  <2>2. ASSUME NEW p \in Procs, Acquiring(p) PROVE FileOK' /\ PlacesOK' /\ HistoryOK'
    <3>1. CASE Open(p)
      <4>1. FileOK'
        BY <3>1 DEF Open, NoFile
      <4>2. PlacesOK' /\ HistoryOK'
        BY <3>1 DEF Open, Goto, PCs
      <4> QED BY <4>1, <4>2
    <3>2. CASE OpenFails(p)
      BY <3>2 DEF OpenFails, Goto, PCs
    <3>3. CASE Write(p) \/ WriteFails(p)
      <4>1. FileOK'
        BY <3>3 DEF Write, WriteFails, NoFile
      <4>2. PlacesOK' /\ HistoryOK'
        BY <3>3 DEF Write, WriteFails, Goto, PCs
      <4> QED BY <4>1, <4>2
    <3>4. CASE CheckExists(p) \/ Read(p) \/ ReadFails(p) \/ UnlinkStaleFails(p)
      <4>1. FileOK' /\ HistoryOK'
        BY <3>4 DEF CheckExists, Read, ReadFails, UnlinkStaleFails
      <4>2. PlacesOK'
        BY <3>4 DEF CheckExists, Read, ReadFails, UnlinkStaleFails, NextAttempt, Goto, PCs
      <4> QED BY <4>1, <4>2
    <3>5. CASE ExistsFails(p) \/ UnlinkUnreadableFails(p)
      <4>1. FileOK' /\ HistoryOK'
        BY <3>5 DEF ExistsFails, UnlinkUnreadableFails, Disturb
      <4>2. PlacesOK'
        BY <3>5 DEF ExistsFails, UnlinkUnreadableFails, NextAttempt, Goto, PCs
      <4> QED BY <4>1, <4>2
    <3>6. CASE UnlinkStale(p) \/ UnlinkUnreadable(p)
      <4>1. FileOK'
        BY <2>0, <3>6, Zenon DEF UnlinkStale, UnlinkUnreadable, Unlink
      <4>2. HistoryOK'
        BY <3>6 DEF UnlinkStale, UnlinkUnreadable, Unlink
      <4>3. PlacesOK'
        BY <3>6 DEF UnlinkStale, UnlinkUnreadable, NextAttempt, Goto, PCs
      <4> QED BY <4>1, <4>2, <4>3
    <3> QED BY <2>2, <3>1, <3>2, <3>3, <3>4, <3>5, <3>6 DEF Acquiring
  <2>3. ASSUME NEW p \in Procs, Release(p) \/ ReleaseFails(p) \/ Crash(p)
        PROVE  FileOK' /\ PlacesOK' /\ HistoryOK'
    <3>1. FileOK'
      <4>1. CASE Release(p)
        BY <2>0, <4>1, Zenon DEF Release, Unlink
      <4>2. CASE ReleaseFails(p)
        BY <4>2 DEF ReleaseFails
      <4>3. CASE Crash(p)
        BY <4>3 DEF Crash
      <4> QED BY <2>3, <4>1, <4>2, <4>3
    <3>2. PlacesOK'
      BY <2>3 DEF Release, ReleaseFails, Crash, Goto, PCs
    <3>3. HistoryOK'
      BY <2>3 DEF Release, ReleaseFails, Crash, Unlink
    <3> QED BY <3>1, <3>2, <3>3
  <2>4. CASE GrowOld
    BY <2>4 DEF GrowOld, NoFile
  <2>5. CASE UNCHANGED vars
    BY <2>5 DEF vars
  <2> QED BY <2>1, <2>2, <2>3, <2>4, <2>5 DEF Next
<1> QED BY <1>1, <1>2, PTL DEF Spec

------------------------------------------------------------------------------
(* Exclusion.  Until a robbery every owner finds its own file at the path: this *)
(* is the strengthening that makes exclusion inductive.                        *)

OwnersHaveTheFile == robbed \/ \A p \in Owners : file.pid = p

\* Nobody is robbed unless an owner's file is removed, and until then the file is
\* that of every owner: only Open makes owners, and it finds no file.
THEOREM FileOfOwner == Spec => []OwnersHaveTheFile
<1> USE DEF OwnersHaveTheFile, Owners
<1>1. Init => OwnersHaveTheFile
  BY DEF Init
<1>2. TypeOK /\ OwnersHaveTheFile /\ [Next]_vars => OwnersHaveTheFile'
  <2> SUFFICES ASSUME TypeOK, OwnersHaveTheFile, [Next]_vars PROVE OwnersHaveTheFile'
    OBVIOUS
  <2> USE ProcsAssumption DEF ProcsAssumption, TypeOK, NoFile, Goto
  <2>1. ASSUME NEW p \in Procs, Begin(p) PROVE OwnersHaveTheFile'
    BY <2>1 DEF Begin, Outside
  <2>2. ASSUME NEW p \in Procs, Acquiring(p) PROVE OwnersHaveTheFile'
    <3>1. CASE Open(p)
      BY <3>1 DEF Open, MayCreate
    <3>2. CASE OpenFails(p) \/ WriteFails(p)
      BY <3>2 DEF OpenFails, WriteFails
    <3>3. CASE Write(p)
      BY <3>3 DEF Write
    <3>4. CASE CheckExists(p) \/ ExistsFails(p)
      BY <3>4 DEF CheckExists, ExistsFails, NextAttempt
    <3>5. CASE Read(p) \/ ReadFails(p)
      BY <3>5 DEF Read, ReadFails, NextAttempt
    <3>6. CASE UnlinkStale(p) \/ UnlinkStaleFails(p)
      BY <3>6 DEF UnlinkStale, UnlinkStaleFails, Unlink, NextAttempt
    <3>7. CASE UnlinkUnreadable(p) \/ UnlinkUnreadableFails(p)
      BY <3>7 DEF UnlinkUnreadable, UnlinkUnreadableFails, Unlink, NextAttempt
    <3> QED BY <2>2, <3>1, <3>2, <3>3, <3>4, <3>5, <3>6, <3>7 DEF Acquiring
  <2>3. ASSUME NEW p \in Procs, Release(p) \/ ReleaseFails(p) PROVE OwnersHaveTheFile'
    BY <2>3 DEF Release, ReleaseFails, Unlink
  <2>4. ASSUME NEW p \in Procs, Crash(p) PROVE OwnersHaveTheFile'
    BY <2>4 DEF Crash, Outside
  <2>5. CASE GrowOld
    BY <2>5 DEF GrowOld
  <2>6. CASE UNCHANGED vars
    BY <2>6 DEF vars
  <2> QED BY <2>1, <2>2, <2>3, <2>4, <2>5, <2>6 DEF Next
<1> QED BY <1>1, <1>2, TypeCorrect, PTL DEF Spec

\* The lock is exclusive until an owner has been robbed of its file.
THEOREM Exclusion == Spec => []ExclusiveUntilRobbed
<1>1. OwnersHaveTheFile => ExclusiveUntilRobbed
  BY DEF OwnersHaveTheFile, ExclusiveUntilRobbed
<1> QED BY <1>1, FileOfOwner, PTL

\* release() removes another owner's file only after a robbery.
THEOREM ReleaseOwn == Spec => ReleaseRemovesOwn
<1>1. OwnersHaveTheFile /\ [Next]_vars =>
        [\A p \in Procs : pc[p] = "held" /\ pc'[p] = "idle" /\ file' = NoFile
            => file.pid = p \/ robbed]_vars
  BY DEF OwnersHaveTheFile, Owners
<1> QED BY <1>1, FileOfOwner, PTL DEF Spec, ReleaseRemovesOwn

\* A readable lock file with a live pid is that of a present owner, or its
\* removal failed.
THEOREM NoLeak == Spec => []NoLeakedLock
<1> USE DEF NoLeakedLock
<1>1. Init => NoLeakedLock
  BY DEF Init, NoFile
<1>2. TypeOK /\ NoLeakedLock /\ [Next]_vars => NoLeakedLock'
  <2> SUFFICES ASSUME TypeOK, NoLeakedLock, [Next]_vars PROVE NoLeakedLock'
    OBVIOUS
  <2> USE ProcsAssumption DEF ProcsAssumption, TypeOK, NoFile, Goto
  <2>1. ASSUME NEW p \in Procs, Begin(p) PROVE NoLeakedLock'
    BY <2>1 DEF Begin, Outside
  <2>2. ASSUME NEW p \in Procs, Acquiring(p) PROVE NoLeakedLock'
    <3>1. CASE Open(p)
      BY <3>1 DEF Open, MayCreate
    <3>2. CASE OpenFails(p)
      BY <3>2 DEF OpenFails
    <3>8. CASE WriteFails(p)
      <4>1. CASE file.pid = p
        <5>1. file'.full => file'.left
          BY <3>8, <4>1 DEF WriteFails
        <5> QED BY <5>1
      <4>2. CASE file.pid # p
        BY <3>8, <4>2 DEF WriteFails
      <4> QED BY <4>1, <4>2
    <3>3. CASE Write(p)
      BY <3>3 DEF Write
    <3>4. CASE CheckExists(p) \/ ExistsFails(p)
      BY <3>4 DEF CheckExists, ExistsFails, NextAttempt
    <3>5. CASE Read(p) \/ ReadFails(p)
      BY <3>5 DEF Read, ReadFails, NextAttempt
    <3>6. CASE UnlinkStale(p) \/ UnlinkStaleFails(p)
      BY <3>6 DEF UnlinkStale, UnlinkStaleFails, Unlink
    <3>7. CASE UnlinkUnreadable(p) \/ UnlinkUnreadableFails(p)
      BY <3>7 DEF UnlinkUnreadable, UnlinkUnreadableFails, Unlink, NextAttempt
    <3> QED BY <2>2, <3>1, <3>2, <3>3, <3>4, <3>5, <3>6, <3>7, <3>8 DEF Acquiring
  <2>3. ASSUME NEW p \in Procs, Release(p) \/ ReleaseFails(p) PROVE NoLeakedLock'
    BY <2>3 DEF Release, ReleaseFails, Unlink
  <2>4. ASSUME NEW p \in Procs, Crash(p) PROVE NoLeakedLock'
    BY <2>4 DEF Crash, Outside
  <2>5. CASE GrowOld
    BY <2>5 DEF GrowOld
  <2>6. CASE UNCHANGED vars
    BY <2>6 DEF vars
  <2> QED BY <2>1, <2>2, <2>3, <2>4, <2>5, <2>6 DEF Next
<1> QED BY <1>1, <1>2, TypeCorrect, PTL DEF Spec

------------------------------------------------------------------------------
(* The lock file implements the lock that ContentStore is written against. *)

\* Creating the file is the abstract Acquire; release, a failed write and death are
\* Leave; removing the file of an owner is Rob.  A release that removes the file of
\* another owner is still a Leave: by FileOfOwner a robbery came before it.
THEOREM Refinement == Spec => ImplementsExclusiveLock
<1> USE DEF Owners
<1>1. Init => Abstract!Init
  BY DEF Init, Abstract!Init
<1>2. TypeOK /\ OwnersHaveTheFile /\ [Next]_vars => [Abstract!Next]_(Abstract!vars)
  <2> SUFFICES ASSUME TypeOK, OwnersHaveTheFile, [Next]_vars
               PROVE  [Abstract!Next]_(Abstract!vars)
    OBVIOUS
  <2> USE ProcsAssumption DEF ProcsAssumption, TypeOK, NoFile, Goto, OwnersHaveTheFile
  <2>1. ASSUME NEW p \in Procs, Begin(p) PROVE UNCHANGED Abstract!vars
    BY <2>1 DEF Begin, Outside, Abstract!vars
  <2>2. ASSUME NEW p \in Procs, Acquiring(p) PROVE [Abstract!Next]_(Abstract!vars)
    <3>1. CASE Open(p)
      <4>1. CASE MayCreate
        <5>1. Abstract!Acquire(p)
          BY <3>1, <4>1 DEF Open, MayCreate, Abstract!Acquire
        <5> QED BY <5>1 DEF Abstract!Next
      <4>2. CASE ~MayCreate
        BY <3>1, <4>2 DEF Open, Abstract!vars
      <4> QED BY <4>1, <4>2
    <3>2. CASE OpenFails(p)
      BY <3>2 DEF OpenFails, Abstract!vars
    <3>3. CASE Write(p)
      BY <3>3 DEF Write, Abstract!vars
    <3>4. CASE WriteFails(p)
      <4>1. Abstract!Leave(p)
        BY <3>4 DEF WriteFails, Abstract!Leave
      <4> QED BY <4>1 DEF Abstract!Next
    <3>5. CASE CheckExists(p) \/ ExistsFails(p)
      BY <3>5 DEF CheckExists, ExistsFails, NextAttempt, Abstract!vars
    <3>6. CASE Read(p) \/ ReadFails(p)
      BY <3>6 DEF Read, ReadFails, NextAttempt, Abstract!vars
    <3>8. CASE UnlinkStaleFails(p) \/ UnlinkUnreadableFails(p)
      BY <3>8 DEF UnlinkStaleFails, UnlinkUnreadableFails, NextAttempt, Abstract!vars
    <3>7. CASE UnlinkStale(p) \/ UnlinkUnreadable(p)
      <4>1. UNCHANGED {q \in Procs : pc[q] \in {"write", "held"}}
        BY <3>7 DEF UnlinkStale, UnlinkUnreadable, NextAttempt
      <4>2. robbed' = (robbed \/ \E q \in Owners \ {p} : file.pid = q)
        BY <3>7 DEF UnlinkStale, UnlinkUnreadable, Unlink
      <4>3. CASE robbed' = robbed
        BY <4>1, <4>3 DEF Abstract!vars
      <4>4. CASE robbed' # robbed
        <5>1. Abstract!Rob
          BY <4>1, <4>2, <4>4 DEF Abstract!Rob
        <5> QED BY <5>1 DEF Abstract!Next
      <4> QED BY <4>3, <4>4
    <3> QED BY <2>2, <3>1, <3>2, <3>3, <3>4, <3>5, <3>6, <3>7, <3>8 DEF Acquiring
  <2>3. ASSUME NEW p \in Procs, Release(p) \/ ReleaseFails(p)
        PROVE  [Abstract!Next]_(Abstract!vars)
    <3>1. robbed' = robbed
      BY <2>3 DEF Release, ReleaseFails, Unlink
    <3>2. Abstract!Leave(p)
      BY <2>3, <3>1 DEF Release, ReleaseFails, Abstract!Leave
    <3> QED BY <3>2 DEF Abstract!Next
  <2>4. ASSUME NEW p \in Procs, Crash(p) PROVE [Abstract!Next]_(Abstract!vars)
    <3>1. CASE p \in Owners
      <4>1. Abstract!Leave(p)
        BY <2>4, <3>1 DEF Crash, Abstract!Leave
      <4> QED BY <4>1 DEF Abstract!Next
    <3>2. CASE p \notin Owners
      BY <2>4, <3>2 DEF Crash, Abstract!vars
    <3> QED BY <3>1, <3>2
  <2>5. CASE GrowOld
    BY <2>5 DEF GrowOld, Abstract!vars
  <2>6. CASE UNCHANGED vars
    BY <2>6 DEF vars, Abstract!vars
  <2> QED BY <2>1, <2>2, <2>3, <2>4, <2>5, <2>6 DEF Next
<1> QED BY <1>1, <1>2, TypeCorrect, FileOfOwner, PTL
        DEF Spec, ImplementsExclusiveLock, Abstract!Spec

------------------------------------------------------------------------------
(* A call that nothing disturbs gets the lock. *)

\* Where an undisturbed call can be: its first attempt meets the file of a dead
\* process, or an unreadable one, and removes it; its second attempt meets no file.
Undisturbed(p) ==
    ~disturbed[p] =>
        /\ pc[p] # "failed"
        /\ pc[p] \notin Outside => /\ \A q \in Procs \ {p} : pc[q] \in Outside
                                   /\ file.left => file.old
        /\ pc[p] = "open" => tries[p] = 1 \/ (tries[p] = 2 /\ file = NoFile)
        /\ pc[p] \in {"exists", "read", "unlinkStale", "unlinkUnreadable"}
             => tries[p] = 1 /\ file # NoFile

\* acquireLock throws "Timed out waiting" only if another process was inside during
\* the call, or the file was left by a live one, or could not be seen or removed,
\* given two attempts and pids that are not reused.
THEOREM TimeoutCauses ==
    ASSUME MaxAttempts >= 2, PidReuse = FALSE
    PROVE  Spec => []TimeoutsHaveCauses
<1> DEFINE Inv == \A p \in Procs : Undisturbed(p)
<1>1. Init => Inv
  BY DEF Init, Undisturbed, Outside
<1>2. TypeOK /\ NoLeakedLock /\ Inv /\ [Next]_vars => Inv'
  <2> SUFFICES ASSUME TypeOK, NoLeakedLock, Inv, [Next]_vars, NEW r \in Procs
               PROVE  Undisturbed(r)'
    OBVIOUS
  <2> USE ProcsAssumption, AttemptsAssumption
      DEF ProcsAssumption, AttemptsAssumption, TypeOK, NoFile, Goto, Disturb, Undisturbed, Outside
  <2>0. Undisturbed(r)
    BY Zenon
  <2>1. ASSUME NEW p \in Procs, Begin(p) PROVE Undisturbed(r)'
    <3>1. CASE p = r
      BY <2>0, <2>1, <3>1 DEF Begin
    <3>2. CASE p # r
      BY <2>0, <2>1, <3>2 DEF Begin
    <3> QED BY <3>1, <3>2
  <2>2. ASSUME NEW p \in Procs, Acquiring(p) PROVE Undisturbed(r)'
    <3>0. /\ pc[p] \notin Outside
          /\ disturbed' \in {disturbed, [disturbed EXCEPT ![p] = TRUE]}
      BY <2>2 DEF Acquiring, Open, OpenFails, Write, WriteFails, CheckExists,
                  ExistsFails, Read, ReadFails, UnlinkStale, UnlinkStaleFails,
                  UnlinkUnreadable, UnlinkUnreadableFails
    <3>1. CASE p # r
      <4>1. disturbed[r] \/ pc[r] \in Outside
        BY <2>0, <3>0, <3>1
      <4>2. pc'[r] = pc[r]
        BY <2>2, <3>1 DEF Acquiring, Open, OpenFails, Write, WriteFails, CheckExists,
                          ExistsFails, Read, ReadFails, UnlinkStale, UnlinkStaleFails,
                          UnlinkUnreadable, UnlinkUnreadableFails, NextAttempt
      <4> QED BY <2>0, <3>0, <4>1, <4>2
    <3>2. CASE p = r /\ Open(p)
      BY <2>0, <3>0, <3>2 DEF Open, MayCreate
    <3>3. CASE p = r /\ (OpenFails(p) \/ Write(p) \/ WriteFails(p))
      BY <2>0, <3>0, <3>3 DEF OpenFails, Write, WriteFails
    <3>4. CASE p = r /\ CheckExists(p)
      BY <2>0, <3>0, <3>4 DEF CheckExists, NextAttempt
    <3>5. CASE p = r /\ Read(p)
      <4>1. CASE disturbed[r]
        BY <3>0, <4>1
      <4>2. CASE ~disturbed[r]
        <5>1. tries[r] = 1 /\ file # NoFile /\ pc[r] = "read"
          BY <2>0, <3>5, <4>2 DEF Read
        <5>2. file.full /\ ~file.left => file.pid = DeadPid
          BY <2>0, <4>2, <5>1 DEF NoLeakedLock
        <5>3. file.full => \A stale \in Stale(p) : stale
          <6>1. CASE file.left
            <7>1. file.old
              BY <2>0, <4>2, <5>1, <6>1
            <7> QED BY <7>1, Zenon DEF Stale
          <6>2. CASE ~file.left
            <7>1. file.full => IsPidAlive(p, file.pid) = {FALSE}
              BY <5>2, <6>2, Zenon DEF IsPidAlive
            <7> QED BY <7>1, ZenonT(40) DEF Stale
          <6> QED BY <6>1, <6>2
        <5>4. UNCHANGED <<file, tries>> /\ pc' \in {[pc EXCEPT ![p] = "unlinkStale"],
                                                  [pc EXCEPT ![p] = "unlinkUnreadable"]}
          BY <3>5, <5>1, <5>3 DEF Read
        <5> QED BY <2>0, <3>0, <3>5, <4>2, <5>1, <5>4
      <4> QED BY <4>1, <4>2
    <3>8. CASE p = r /\ (ExistsFails(p) \/ UnlinkUnreadableFails(p))
      BY <2>0, <3>0, <3>8 DEF ExistsFails, UnlinkUnreadableFails, NextAttempt
    <3>9. CASE p = r /\ (ReadFails(p) \/ UnlinkStaleFails(p))
      BY <2>0, <3>0, <3>9 DEF ReadFails, UnlinkStaleFails
    <3>6. CASE p = r /\ UnlinkStale(p)
      BY <2>0, <3>0, <3>6 DEF UnlinkStale, Unlink, NextAttempt
    <3>7. CASE p = r /\ UnlinkUnreadable(p)
      BY <2>0, <3>0, <3>7 DEF UnlinkUnreadable, Unlink, NextAttempt
    <3> QED BY <2>2, <3>1, <3>2, <3>3, <3>4, <3>5, <3>6, <3>7, <3>8, <3>9
          DEF Acquiring
  <2>3. ASSUME NEW p \in Procs, Release(p) \/ ReleaseFails(p) PROVE Undisturbed(r)'
    BY <2>0, <2>3 DEF Release, ReleaseFails, Unlink
  <2>4. ASSUME NEW p \in Procs, Crash(p) PROVE Undisturbed(r)'
    <3>1. CASE p = r
      BY <2>4, <3>1 DEF Crash
    <3>2. CASE p # r /\ (disturbed[r] \/ pc[r] \in Outside)
      BY <2>0, <2>4, <3>2 DEF Crash
    <3>3. CASE p # r /\ ~disturbed[r] /\ pc[r] \notin Outside
      <4>1. /\ pc[p] \in Outside /\ file.pid = p
            /\ UNCHANGED <<tries, robbed, disturbed>> /\ pc'[r] = pc[r]
            /\ \A q \in Procs \ {r} : pc'[q] \in Outside
        BY <2>0, <2>4, <3>3 DEF Crash
      <4>2. file # NoFile /\ file' # NoFile /\ ~file'.left
        <5>1. file' = [file EXCEPT !.pid = DeadPid, !.left = FALSE]
          BY <2>4, <4>1 DEF Crash
        <5>2. file.pid # Nobody /\ file'.pid = DeadPid /\ file'.left = FALSE
          BY <4>1, <5>1
        <5> QED BY <5>2
      <4>3. ~disturbed'[r] /\ tries'[r] = tries[r]
        BY <3>3, <4>1
      <4>4. pc'[r] = "open" => tries'[r] = 1
        BY <2>0, <3>3, <4>1, <4>2, <4>3
      <4>5. pc'[r] # "failed"
        BY <3>3, <4>1
      <4>6. pc'[r] \in {"exists", "read", "unlinkStale", "unlinkUnreadable"}
              => tries'[r] = 1 /\ file' # NoFile
        BY <2>0, <3>3, <4>1, <4>2, <4>3
      <4> QED BY <4>1, <4>2, <4>3, <4>4, <4>5, <4>6
    <3> QED BY <3>1, <3>2, <3>3
  <2>5. CASE GrowOld
    BY <2>0, <2>5 DEF GrowOld
  <2>6. CASE UNCHANGED vars
    BY <2>0, <2>6 DEF vars
  <2> QED BY <2>1, <2>2, <2>3, <2>4, <2>5, <2>6 DEF Next
<1>3. Inv => TimeoutsHaveCauses
  BY DEF Undisturbed, TimeoutsHaveCauses
<1> QED BY <1>1, <1>2, <1>3, TypeCorrect, NoLeak, PTL DEF Spec
==============================================================================
