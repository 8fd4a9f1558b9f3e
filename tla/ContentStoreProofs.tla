-------------------------- MODULE ContentStoreProofs --------------------------
(***************************************************************************)
(* Proofs about ContentStore, for any calls, processes, ids and projects.  *)
(***************************************************************************)
EXTENDS ContentStore, TLAPS

\* What the requests of the calls hold, by operation.
LEMMA RequestFields ==
    ASSUME NEW r \in Request
    PROVE  /\ r.op \in ObjectOps => r.id \in Ids
           /\ r.op = "register" => r.project \in Projects /\ r.objects \subseteq Ids
BY DEF Request, ObjectRequest, ObjectOps

Results == {"ok", "missing", "mismatch", "corrupt", "fault", "failed"}
WritePCs == {"create", "write", "rename"}
ObjectPCs == {"await", "verify", "check", "lock", "recheck", "readBytes", "assert",
              "assertMeta", "touch", "touchRead", "readMeta"}

\* May d go to "where", outside writeFileAtomic, without leaving its operation?
Legal(d, where) ==
    where \notin WritePCs \cup {"judgeMeta"} /\ (where \in ObjectPCs => req[d].op \in ObjectOps)

\* Calls stay within their operation: this makes the types inductive, because
\* what a step takes from the request depends on the operation.
PlaceOK ==
    \A c \in Calls :
        /\ pc[c] \in WritePCs /\ loc[c].kind = "index" => req[c].op = "register"
        /\ pc[c] \in ObjectPCs => req[c].op \in ObjectOps
        /\ req[c].op \in ObjectOps \/ pc[c] = "judgeMeta" => At(c) \in Ids

\* Ending a call keeps the types.
LEMMA EndType ==
    ASSUME TypeOK, NEW c \in Calls, NEW result,
           result \in {"ok", "missing", "mismatch", "corrupt", "fault", "failed"},
           End(c, result)
    PROVE  /\ pc' \in [Calls -> PCs]
           /\ outcome' \in [Calls -> {"pending", "ok", "missing", "mismatch",
                                      "corrupt", "fault", "failed"}]
           /\ locks' \in [LockNames -> SUBSET Calls]
           /\ inflight' \in [Procs -> [Ids -> Calls \cup {NoCall}]]
           /\ \A d \in Calls : pc'[d] = pc[d] \/ pc'[d] = "done"
<1> DEFINE all == {c} \cup Waiters(c)
<1>1. pc' = [d \in Calls |-> IF d \in all THEN "done" ELSE pc[d]]
  BY DEF End
<1>2. outcome' = [d \in Calls |-> IF d \in all THEN result ELSE outcome[d]]
  BY DEF End
<1>3. locks' = [n \in LockNames |-> locks[n] \ {c}]
  BY DEF End, Released
<1>4. inflight' = [p \in Procs |-> [i \in Ids |->
                     IF inflight[p][i] = c THEN NoCall ELSE inflight[p][i]]]
  BY DEF End
<1> HIDE DEF all
<1> QED BY <1>1, <1>2, <1>3, <1>4 DEF TypeOK, PCs, Resting

LEMMA InitType == Init => TypeOK /\ PlaceOK
<1> SUFFICES ASSUME Init PROVE TypeOK /\ PlaceOK
  OBVIOUS
<1>1. req \in [Calls -> Request]
  BY ScenariosAssumption DEF Init
<1>2. loc \in [Calls -> Locals]
  <2>1. \A c \in Calls : (IF req[c].op \in ObjectOps THEN req[c].id ELSE NoId)
                            \in Ids \cup {NoId}
    BY <1>1, RequestFields
  <2> QED BY <2>1 DEF Init, Locals, Kinds, Contents
<1>3. /\ object \in [Ids -> Contents]
      /\ meta \in [Ids -> {"none", "recent", "old"}]
      /\ unpacked \subseteq Ids
  BY DEF Init, Contents
<1>4. /\ tmp \in [Calls -> [Kinds -> {"none", "part", "good", "left"}]]
      /\ locks \in [LockNames -> SUBSET Calls]
      /\ inflight \in [Procs -> [Ids -> Calls \cup {NoCall}]]
      /\ pc \in [Calls -> PCs]
      /\ lost \subseteq Calls
      /\ steady \in [Calls -> SUBSET (Projects \X Ids)]
  BY DEF Init, PCs, Resting
<1>5. /\ outcome \in [Calls -> {"pending", "ok", "missing", "mismatch", "corrupt",
                                "fault", "failed"}]
      /\ overlapped \in [Calls -> BOOLEAN]
  BY DEF Init
<1>6. PlaceOK
  BY <1>1, RequestFields DEF Init, PlaceOK, At, WritePCs, ObjectPCs
<1>7. index \in [Projects -> SUBSET Ids] /\ indexed \subseteq Projects
  BY ScenariosAssumption DEF Init
<1> QED BY <1>1, <1>2, <1>3, <1>4, <1>5, <1>6, <1>7 DEF TypeOK

\* Assignments to the locals of a call keep their types.
LEMMA LocalsType ==
    ASSUME NEW r \in Locals
    PROVE  /\ \A k \in Kinds : [r EXCEPT !.kind = k] \in Locals
           /\ \A b \in Contents : [r EXCEPT !.buf = b] \in Locals
           /\ \A i \in Ids : [r EXCEPT !.at = i] \in Locals
           /\ \A U \in SUBSET Projects, R \in SUBSET Ids :
                 /\ [r EXCEPT !.unread = U] \in Locals
                 /\ [r EXCEPT !.unread = U, !.reach = R] \in Locals
           /\ \A T \in SUBSET Ids : /\ [r EXCEPT !.todo = T] \in Locals
                                   /\ [r EXCEPT !.doomed = T] \in Locals
           /\ \A T, D \in SUBSET Ids, i \in Ids :
                 [r EXCEPT !.todo = T, !.at = i, !.doomed = D] \in Locals
           /\ \A L \in SUBSET (Calls \X Kinds) : [r EXCEPT !.listed = L] \in Locals
BY DEF Locals

LEMMA LocType ==
    ASSUME loc \in [Calls -> Locals], NEW c \in Calls, NEW r \in Locals,
           loc' = [loc EXCEPT ![c] = r]
    PROVE  loc' \in [Calls -> Locals]
OBVIOUS

\* A step of one kind or another keeps every call within its operation.
LEMMA PlaceStep ==
    ASSUME PlaceOK, req' = req,
           \A d \in Calls : At(d)' = At(d) \/ At(d)' \in Ids,
           \A d \in Calls :
              \/ pc'[d] = pc[d] /\ loc'[d].kind = loc[d].kind
              \/ Legal(d, pc'[d])
              \/ pc'[d] = "judgeMeta" /\ At(d)' \in Ids
              \/ pc'[d] \in WritePCs /\ (loc'[d].kind = "index" => req[d].op = "register")
    PROVE  PlaceOK'
BY DEF PlaceOK, Legal, WritePCs, ObjectPCs

\* A step that ends c or moves it on, though not into writeFileAtomic.
Advance(c) ==
    \/ \E where \in PCs : Legal(c, where) /\ Then(c, where)
    \/ \E result \in Results : End(c, result)

LEMMA AdvanceType ==
    ASSUME TypeOK, NEW c \in Calls, Advance(c)
    PROVE  /\ pc' \in [Calls -> PCs]
           /\ outcome' \in [Calls -> {"pending", "ok", "missing", "mismatch",
                                      "corrupt", "fault", "failed"}]
           /\ locks' \in [LockNames -> SUBSET Calls]
           /\ inflight' \in [Procs -> [Ids -> Calls \cup {NoCall}]]
           /\ \A d \in Calls : pc'[d] = pc[d] \/ Legal(d, pc'[d])
<1>1. ASSUME NEW where \in PCs, Legal(c, where), Then(c, where)
      PROVE  /\ pc' \in [Calls -> PCs]
             /\ UNCHANGED <<locks, inflight, outcome>>
             /\ \A d \in Calls : pc'[d] = pc[d] \/ Legal(d, pc'[d])
  BY <1>1 DEF TypeOK, Then, Goto, Control
<1>2. ASSUME NEW result \in Results, End(c, result)
      PROVE  \A d \in Calls : pc'[d] = pc[d] \/ Legal(d, pc'[d])
  BY <1>2, EndType DEF Results, Legal, WritePCs, ObjectPCs
<1> QED BY <1>1, <1>2, EndType DEF Advance, Results, TypeOK

\* A step that changes nothing but where the call is keeps the types.
LEMMA QuietType ==
    ASSUME TypeOK, PlaceOK, NEW c \in Calls, Advance(c),
           UNCHANGED <<Files, Indexes, Fixed, loc, lost>>
    PROVE  TypeOK' /\ PlaceOK'
<1>1. PlaceOK'
  BY AdvanceType, PlaceStep DEF At, Fixed
<1>2. TypeOK'
  BY AdvanceType DEF TypeOK, Files, Indexes, Fixed
<1> QED BY <1>1, <1>2

\* touch and assertObjectValid go on, or end the call.
LEMMA AfterTouchAdvances == ASSUME NEW c \in Calls, AfterTouch(c) PROVE Advance(c)
BY DEF AfterTouch, Advance, PCs, WritePCs, Results, Legal, ObjectOps

LEMMA AfterAssertType ==
    ASSUME TypeOK, PlaceOK, NEW c \in Calls, AfterAssert(c), req[c].op \in ObjectOps,
           UNCHANGED <<Files, Indexes, Fixed, loc, lost>>
    PROVE  TypeOK' /\ PlaceOK'
<1>1. CASE Advance(c)
  BY <1>1, QuietType
<1>2. CASE Goto(c, "readMeta") /\ locks' = Released(c, "ok") /\ UNCHANGED <<inflight, outcome>>
  <2>1. locks' \in [LockNames -> SUBSET Calls]
    BY <1>2 DEF Released, TypeOK
  <2>2. pc' = [pc EXCEPT ![c] = "readMeta"]
    BY <1>2 DEF Goto
  <2>3. PlaceOK'
    BY <2>2, PlaceStep DEF TypeOK, PCs, WritePCs, Legal, At, Fixed
  <2> QED BY <1>2, <2>1, <2>2, <2>3 DEF TypeOK, Files, Indexes, Fixed, PCs
<1> QED BY <1>1, <1>2 DEF AfterAssert, Advance, PCs, WritePCs, Results, Legal

\* acquireLock is granted, or ends the call.
LEMMA AcquireType ==
    ASSUME TypeOK, NEW c \in Calls, NEW n, NEW where \in PCs, Legal(c, where),
           AcquireLock(c, n, where)
    PROVE  /\ pc' \in [Calls -> PCs]
           /\ outcome' \in [Calls -> {"pending", "ok", "missing", "mismatch",
                                      "corrupt", "fault", "failed"}]
           /\ locks' \in [LockNames -> SUBSET Calls]
           /\ inflight' \in [Procs -> [Ids -> Calls \cup {NoCall}]]
           /\ \A d \in Calls : pc'[d] = pc[d] \/ Legal(d, pc'[d])
<1>1. CASE End(c, "failed")
  BY <1>1, AdvanceType DEF Advance, Results
<1>2. CASE /\ locks' = [locks EXCEPT ![n] = @ \cup {c}]
           /\ Goto(c, where)
           /\ UNCHANGED <<inflight, outcome>>
  BY <1>2 DEF TypeOK, Goto
<1>3. CASE End(c, "fault")
  BY <1>3, AdvanceType DEF Advance, Results
<1> QED BY <1>1, <1>2, <1>3 DEF AcquireLock

\* Each step of put, read and verifyObject keeps the types.
LEMMA PutStepType ==
    ASSUME TypeOK, PlaceOK, NEW c \in Calls, PutStep(c)
    PROVE  TypeOK' /\ PlaceOK'
<1>0. req[c].op \in ObjectOps /\ At(c) \in Ids
  BY DEF PutStep, PutVerify, InsertCheck, InsertLock, InsertRecheck, ReadBytes, CheckBytes,
         CheckMeta, Touch, TouchRead, ReadMeta, PlaceOK, ObjectPCs
<1> USE <1>0 DEF PCs, WritePCs, Results
<1>1. CASE PutVerify(c) \/ InsertCheck(c) \/ ReadMeta(c)
  <2>1. Advance(c)
    BY <1>1 DEF PutVerify, InsertCheck, ReadMeta, Advance, Legal
  <2> QED BY <1>1, <2>1, QuietType DEF PutVerify, InsertCheck, ReadMeta
<1>2. CASE InsertLock(c)
  <2>1. Legal(c, "recheck") /\ AcquireLock(c, At(c), "recheck")
    BY <1>2 DEF InsertLock, Legal
  <2>2. PlaceOK'
    BY <1>2, <2>1, AcquireType, PlaceStep DEF InsertLock, At, Fixed
  <2> QED BY <1>2, <2>1, <2>2, AcquireType DEF InsertLock, TypeOK, Files, Indexes, Fixed
<1>3. CASE InsertRecheck(c) \/ TouchRead(c)
  <2>1. CASE Advance(c) /\ UNCHANGED loc
    BY <1>3, <2>1, QuietType DEF InsertRecheck, TouchRead
  <2>2. ASSUME NEW k \in {"object", "touch"}, StartWrite(c, k), UNCHANGED Control
        PROVE  TypeOK' /\ PlaceOK'
    <3>1. pc' \in [Calls -> PCs] /\ loc' \in [Calls -> Locals]
      <4>1. pc' \in [Calls -> PCs]
        BY <2>2 DEF StartWrite, Goto, TypeOK
      <4>2. loc' = [loc EXCEPT ![c].kind = k]
        BY <2>2 DEF StartWrite
      <4>3. loc' \in [Calls -> Locals]
        <5>1. [loc[c] EXCEPT !.kind = k] \in Locals
          BY LocalsType DEF TypeOK, Kinds
        <5> QED BY <4>2, <5>1, LocType DEF TypeOK
      <4> QED BY <4>1, <4>3
    <3>2. PlaceOK'
      <4>1. \A d \in Calls : At(d)' = At(d)
        BY <2>2 DEF StartWrite, At, TypeOK, Locals
      <4>2. \A d \in Calls : \/ pc'[d] = pc[d] /\ loc'[d].kind = loc[d].kind
                             \/ pc'[d] \in WritePCs /\ loc'[d].kind # "index"
        BY <2>2 DEF StartWrite, Goto, TypeOK, Locals
      <4> QED BY <1>3, <4>1, <4>2, PlaceStep DEF InsertRecheck, TouchRead, Fixed
    <3> QED BY <1>3, <2>2, <3>1, <3>2
            DEF InsertRecheck, TouchRead, TypeOK, Control, Files, Indexes, Fixed
  <2> QED BY <1>3, <2>1, <2>2 DEF InsertRecheck, TouchRead, Advance, Legal
<1>4. CASE ReadBytes(c)
  <2>1. Advance(c)
    BY <1>4 DEF ReadBytes, Advance, Legal
  <2>2. /\ loc' \in [Calls -> Locals]
        /\ \A d \in Calls : loc'[d].kind = loc[d].kind /\ At(d)' = At(d)
    <3>1. CASE UNCHANGED loc
      BY <3>1 DEF TypeOK, At
    <3>2. CASE loc' = [loc EXCEPT ![c].buf = object[At(c)]]
      <4>1. object[At(c)] \in Contents
        BY DEF TypeOK
      <4>2. loc' \in [Calls -> Locals]
        <5>1. [loc[c] EXCEPT !.buf = object[At(c)]] \in Locals
          BY <4>1, LocalsType DEF TypeOK
        <5> QED BY <3>2, <5>1, LocType DEF TypeOK
      <4>3. \A d \in Calls : loc'[d].kind = loc[d].kind /\ At(d)' = At(d)
        BY <3>2 DEF TypeOK, Locals, At
      <4> QED BY <4>2, <4>3
    <3> QED BY <1>4, <3>1, <3>2 DEF ReadBytes
  <2>3. PlaceOK'
    BY <1>4, <2>1, <2>2, AdvanceType, PlaceStep DEF ReadBytes, Fixed
  <2> QED BY <1>4, <2>1, <2>2, <2>3, AdvanceType DEF ReadBytes, TypeOK, Files, Indexes, Fixed
<1>5. CASE CheckBytes(c)
  <2>1. CASE AfterAssert(c)
    BY <1>5, <2>1, AfterAssertType DEF CheckBytes
  <2>2. CASE Advance(c)
    BY <1>5, <2>2, QuietType DEF CheckBytes
  <2> QED BY <1>5, <2>1, <2>2 DEF CheckBytes, Advance, Legal
<1>6. CASE CheckMeta(c)
  <2>1. CASE AfterAssert(c)
    BY <1>6, <2>1, AfterAssertType DEF CheckMeta
  <2>2. CASE Advance(c)
    BY <1>6, <2>2, QuietType DEF CheckMeta
  <2> QED BY <1>6, <2>1, <2>2 DEF CheckMeta, Advance, Legal
<1>7. CASE Touch(c)
  <2>1. Advance(c)
    BY <1>7, AfterTouchAdvances DEF Touch, Advance, Legal
  <2> QED BY <1>7, <2>1, QuietType DEF Touch
<1> QED BY <1>1, <1>2, <1>3, <1>4, <1>5, <1>6, <1>7 DEF PutStep

\* Each step of writeFileAtomic keeps the types.
LEMMA WriteStepType ==
    ASSUME TypeOK, PlaceOK, NEW c \in Calls, WriteStep(c)
    PROVE  TypeOK' /\ PlaceOK'
<1> DEFINE Tmps == [Calls -> [Kinds -> {"none", "part", "good", "left"}]]
<1>0. /\ loc[c] \in Locals /\ loc[c].kind \in Kinds
      /\ pc[c] \in WritePCs
      /\ tmp \in Tmps
  BY DEF TypeOK, Locals, WritePCs, WriteStep, Create, Write, WriteFault, RenameFails,
         RenameObject, RenameMeta, RenameTouch, RenameIndex, Renaming
<1>1. CASE Create(c) \/ Write(c)
  <2>1. PICK where \in {"write", "rename"} : Then(c, where)
    BY <1>1 DEF Create, Write
  <2>2. pc' = [pc EXCEPT ![c] = where] /\ UNCHANGED <<locks, inflight, outcome>>
    BY <2>1 DEF Then, Goto, Control
  <2>3. tmp' \in Tmps
    BY <1>0, <1>1 DEF Create, Write
  <2>4. pc' \in [Calls -> PCs]
    BY <2>2 DEF TypeOK, PCs
  <2>5. PlaceOK'
    BY <1>0, <1>1, <2>2 DEF Create, Write, TypeOK, PlaceOK, WritePCs, ObjectPCs, At, Fixed
  <2> QED BY <1>1, <2>2, <2>3, <2>4, <2>5 DEF Create, Write, TypeOK, Indexes, Fixed
<1>2. CASE WriteFault(c) \/ RenameFails(c)
  <2>1. Advance(c)
    BY <1>2 DEF WriteFault, RenameFails, Advance, Results
  <2>2. tmp' \in Tmps
    BY <1>0, <1>2 DEF WriteFault, RenameFails, AfterFault, Files
  <2>3. PlaceOK'
    BY <1>2, <2>1, AdvanceType, PlaceStep DEF WriteFault, RenameFails, At, Fixed
  <2> QED BY <1>2, <2>1, <2>2, <2>3, AdvanceType
          DEF WriteFault, RenameFails, TypeOK, Files, Indexes, Fixed
<1>3. ASSUME NEW k \in Kinds, Renaming(c, k)
      PROVE  tmp' \in Tmps /\ tmp[c][k] \in Contents
  BY <1>0, <1>3 DEF Renaming, Contents
<1>4. CASE RenameObject(c)
  <2>1. tmp' \in Tmps /\ object' \in [Ids -> Contents]
    BY <1>3, <1>4 DEF RenameObject, TypeOK, Kinds
  <2>2. pc' = [pc EXCEPT ![c] = "create"] /\ loc' = [loc EXCEPT ![c].kind = "meta"]
    BY <1>4 DEF RenameObject, StartWrite, Goto
  <2>3. loc' \in [Calls -> Locals]
    <3>1. [loc[c] EXCEPT !.kind = "meta"] \in Locals
      BY <1>0, LocalsType DEF Kinds
    <3> QED BY <2>2, <3>1, LocType DEF TypeOK
  <2>4. pc' \in [Calls -> PCs]
    BY <2>2 DEF TypeOK, PCs
  <2>5. PlaceOK'
    <3>1. \A d \in Calls : At(d)' = At(d)
      BY <2>2 DEF At, TypeOK, Locals
    <3>2. \A d \in Calls : \/ pc'[d] = pc[d] /\ loc'[d].kind = loc[d].kind
                           \/ pc'[d] \in WritePCs /\ loc'[d].kind # "index"
      BY <2>2 DEF TypeOK, Locals, WritePCs
    <3> QED BY <1>4, <3>1, <3>2, PlaceStep DEF RenameObject, Fixed
  <2> QED BY <1>4, <2>1, <2>3, <2>4, <2>5 DEF RenameObject, TypeOK, Control, Indexes, Fixed
<1>5. CASE RenameMeta(c) \/ RenameTouch(c)
  <2>1. tmp' \in Tmps
    BY <1>3, <1>5 DEF RenameMeta, RenameTouch, Kinds
  <2>2. Advance(c)
    BY <1>5, AfterTouchAdvances DEF RenameMeta, RenameTouch, Advance, Results
  <2>3. PlaceOK'
    BY <1>5, <2>2, AdvanceType, PlaceStep DEF RenameMeta, RenameTouch, At, Fixed
  <2>4. meta' \in [Ids -> {"none", "recent", "old"}]
    BY <1>5 DEF RenameMeta, RenameTouch, TypeOK
  <2> QED BY <1>5, <2>1, <2>2, <2>3, <2>4, AdvanceType
          DEF RenameMeta, RenameTouch, TypeOK, Indexes, Fixed
<1>6. CASE RenameIndex(c)
  <2>1. tmp' \in Tmps
    BY <1>3, <1>6 DEF RenameIndex, Kinds
  <2>2. req[c].project \in Projects /\ req[c].objects \subseteq Ids
    <3>1. req[c].op = "register"
      BY <1>0, <1>6 DEF RenameIndex, Renaming, PlaceOK
    <3>2. req[c] \in Request
      BY DEF TypeOK
    <3> QED BY <3>1, <3>2, RequestFields
  <2>3. /\ index' \in [Projects -> SUBSET Ids]
        /\ indexed' \subseteq Projects
        /\ steady' \in [Calls -> SUBSET (Projects \X Ids)]
    BY <1>6, <2>2 DEF RenameIndex, TypeOK
  <2>4. Advance(c)
    BY <1>6 DEF RenameIndex, Advance, Results
  <2>5. PlaceOK'
    BY <1>6, <2>4, AdvanceType, PlaceStep DEF RenameIndex, At, Fixed
  <2> QED BY <1>6, <2>1, <2>3, <2>4, <2>5, AdvanceType DEF RenameIndex, TypeOK, Fixed
<1> QED BY <1>1, <1>2, <1>4, <1>5, <1>6 DEF WriteStep

\* A step of gc or clearOrphans that updates the locals of its call keeps the types.
LEMMA LocalStepType ==
    ASSUME TypeOK, PlaceOK, NEW c \in Calls, NEW r \in Locals,
           loc' = [loc EXCEPT ![c] = r], r.kind = loc[c].kind,
           r.at = At(c) \/ r.at \in Ids,
           \/ UNCHANGED <<pc, Control>> \/ Advance(c)
           \/ Then(c, "judgeMeta") /\ r.at \in Ids,
           UNCHANGED <<Fixed, index, indexed>>
    PROVE  /\ PlaceOK'
           /\ pc' \in [Calls -> PCs]
           /\ outcome' \in [Calls -> {"pending", "ok", "missing", "mismatch",
                                      "corrupt", "fault", "failed"}]
           /\ locks' \in [LockNames -> SUBSET Calls]
           /\ inflight' \in [Procs -> [Ids -> Calls \cup {NoCall}]]
           /\ loc' \in [Calls -> Locals]
<1>1. loc' \in [Calls -> Locals]
  BY LocType DEF TypeOK
<1>2. \A d \in Calls : At(d)' = At(d) \/ At(d)' \in Ids
  BY DEF At, TypeOK
<1>3. \A d \in Calls : loc'[d].kind = loc[d].kind
  BY DEF TypeOK
<1>4. CASE UNCHANGED <<pc, Control>>
  BY <1>1, <1>2, <1>3, <1>4, PlaceStep DEF TypeOK, Control, Fixed
<1>5. CASE Advance(c)
  <2>1. PlaceOK'
    BY <1>2, <1>3, <1>5, AdvanceType, PlaceStep DEF Fixed
  <2> QED BY <1>1, <1>5, <2>1, AdvanceType
<1>6. CASE Then(c, "judgeMeta") /\ r.at \in Ids
  <2>1. pc' = [pc EXCEPT ![c] = "judgeMeta"] /\ UNCHANGED <<locks, inflight, outcome>>
    BY <1>6 DEF Then, Goto, Control
  <2>2. At(c)' \in Ids
    BY <1>6 DEF At, TypeOK
  <2>3. PlaceOK'
    BY <1>2, <1>3, <2>1, <2>2, PlaceStep DEF TypeOK, Fixed
  <2> QED BY <1>1, <2>1, <2>3 DEF TypeOK, PCs
<1> QED BY <1>4, <1>5, <1>6

\* Each step of gc keeps the types.
LEMMA GcStepType ==
    ASSUME TypeOK, PlaceOK, NEW c \in Calls, GcStep(c)
    PROVE  TypeOK' /\ PlaceOK'
<1>0. /\ loc[c] \in Locals /\ loc[c].unread \subseteq Projects /\ loc[c].reach \subseteq Ids
      /\ loc[c].todo \subseteq Ids /\ loc[c].doomed \subseteq Ids
  BY DEF TypeOK, Locals
<1> USE DEF PCs, WritePCs, ObjectPCs, Results, Legal
<1>1. CASE GcReaddir(c)
  <2>1. Advance(c)
    BY <1>1 DEF GcReaddir, Advance
  <2>2. loc' = [loc EXCEPT ![c] = [loc[c] EXCEPT !.unread = indexed]]
    BY <1>1 DEF GcReaddir
  <2>3. [loc[c] EXCEPT !.unread = indexed] \in Locals
    BY <1>0, LocalsType DEF TypeOK
  <2>4. steady' \in [Calls -> SUBSET (Projects \X Ids)]
    BY <1>1 DEF GcReaddir, TypeOK
  <2>5. PlaceOK' /\ loc' \in [Calls -> Locals]
    BY <1>0, <1>1, <2>1, <2>2, <2>3, LocalStepType DEF GcReaddir, At, Locals
  <2> QED BY <1>1, <2>1, <2>4, <2>5, AdvanceType DEF GcReaddir, TypeOK, Files, Fixed
<1>2. CASE GcReadIndex(c)
  <2>1. PICK p \in loc[c].unread :
           loc' = [loc EXCEPT ![c].unread = @ \ {p}, ![c].reach = ReachWith(c, p)]
    BY <1>2 DEF GcReadIndex
  <2> DEFINE r == [loc[c] EXCEPT !.unread = @ \ {p}, !.reach = ReachWith(c, p)]
  <2>2. r \in Locals
    <3>1. ReachWith(c, p) \in SUBSET Ids /\ (loc[c].unread \ {p}) \in SUBSET Projects
      BY <1>0, <2>1 DEF ReachWith, TypeOK
    <3> QED BY <1>0, <3>1, LocalsType
  <2>3. loc' = [loc EXCEPT ![c] = r] /\ r.kind = loc[c].kind /\ r.at = At(c)
    BY <1>0, <2>1 DEF At, Locals
  <2>4. UNCHANGED <<pc, Control>>
    BY <1>2 DEF GcReadIndex
  <2> HIDE DEF r
  <2>5. PlaceOK' /\ loc' \in [Calls -> Locals]
    BY <1>2, <2>2, <2>3, <2>4, LocalStepType DEF GcReadIndex, Indexes
  <2> QED BY <1>2, <2>4, <2>5 DEF GcReadIndex, TypeOK, Files, Indexes, Control, Fixed
<1>11. CASE GcSkipIndex(c)
  <2>1. PICK p \in loc[c].unread :
           /\ loc' = [loc EXCEPT ![c].unread = @ \ {p}]
           /\ steady' = [steady EXCEPT ![c] = {s \in @ : s[1] # p}]
    BY <1>11 DEF GcSkipIndex
  <2> DEFINE r == [loc[c] EXCEPT !.unread = @ \ {p}]
  <2>2. r \in Locals
    <3>1. (loc[c].unread \ {p}) \in SUBSET Projects
      BY <1>0
    <3> QED BY <1>0, <3>1, LocalsType
  <2>3. loc' = [loc EXCEPT ![c] = r] /\ r.kind = loc[c].kind /\ r.at = At(c)
    BY <1>0, <2>1 DEF At, Locals
  <2>4. UNCHANGED <<pc, Control>> /\ steady' \in [Calls -> SUBSET (Projects \X Ids)]
    BY <1>11, <2>1 DEF GcSkipIndex, TypeOK
  <2> HIDE DEF r
  <2>5. PlaceOK' /\ loc' \in [Calls -> Locals]
    BY <1>11, <2>2, <2>3, <2>4, LocalStepType DEF GcSkipIndex
  <2> QED BY <1>11, <2>4, <2>5 DEF GcSkipIndex, TypeOK, Files, Control, Fixed
<1>3. CASE GcList(c)
  <2>1. Advance(c)
    BY <1>3 DEF GcList, Advance
  <2>2. PICK S \in SUBSET Candidates(c) : loc' = [loc EXCEPT ![c] = [loc[c] EXCEPT !.todo = S]]
    BY <1>3 DEF GcList
  <2>3. [loc[c] EXCEPT !.todo = S] \in Locals
    <3>1. S \in SUBSET Ids
      BY DEF Candidates
    <3> QED BY <1>0, <3>1, LocalsType
  <2>4. PlaceOK' /\ loc' \in [Calls -> Locals]
    BY <1>0, <1>3, <2>1, <2>2, <2>3, LocalStepType DEF GcList, At, Locals, Indexes
  <2> QED BY <1>3, <2>1, <2>4, AdvanceType DEF GcList, TypeOK, Files, Indexes, Fixed
<1>4. ASSUME NEW i \in Ids, NEW doom \in BOOLEAN, Judged(c, i, doom)
      PROVE  \E r \in Locals : /\ loc' = [loc EXCEPT ![c] = r]
                               /\ r.kind = loc[c].kind /\ r.at \in Ids
  <2> DEFINE D == IF doom THEN loc[c].doomed \cup {i} ELSE loc[c].doomed
             r == [loc[c] EXCEPT !.todo = @ \ {i}, !.at = i, !.doomed = D]
  <2>1. D \in SUBSET Ids /\ (loc[c].todo \ {i}) \in SUBSET Ids
    BY <1>0
  <2>2. loc' = [loc EXCEPT ![c] = r]
    BY <1>4 DEF Judged
  <2> HIDE DEF D
  <2>3. r \in Locals
    BY <1>0, <2>1, LocalsType
  <2>4. r.kind = loc[c].kind /\ r.at = i
    BY <1>0 DEF Locals
  <2> HIDE DEF r
  <2> QED BY <2>2, <2>3, <2>4
<1>5. CASE GcJudge(c)
  <2>1. PICK i \in loc[c].todo :
           IF meta[i] = "none"
           THEN Judged(c, i, TRUE) /\ UNCHANGED pc
           ELSE loc' = [loc EXCEPT ![c].at = i] /\ Goto(c, "judgeMeta")
    BY <1>5 DEF GcJudge
  <2>2. UNCHANGED Control
    BY <1>5 DEF GcJudge
  <2>3. \E r \in Locals : /\ loc' = [loc EXCEPT ![c] = r]
                          /\ r.kind = loc[c].kind /\ r.at \in Ids
    <3>1. CASE Judged(c, i, TRUE)
      BY <1>0, <1>4, <2>1, <3>1
    <3>2. CASE loc' = [loc EXCEPT ![c].at = i]
      <4>1. [loc[c] EXCEPT !.at = i] \in Locals
        BY <1>0, <2>1, LocalsType
      <4>2. [loc[c] EXCEPT !.at = i].kind = loc[c].kind /\ [loc[c] EXCEPT !.at = i].at = i
        BY <1>0 DEF Locals
      <4> QED BY <1>0, <2>1, <3>2, <4>1, <4>2
    <3> QED BY <2>1, <3>1, <3>2
  <2>4. UNCHANGED <<pc, Control>> \/ Then(c, "judgeMeta")
    BY <2>1, <2>2 DEF Then, Judged
  <2>5. PlaceOK' /\ loc' \in [Calls -> Locals] /\ pc' \in [Calls -> PCs]
    BY <1>5, <2>3, <2>4, LocalStepType DEF GcJudge, Indexes
  <2> QED BY <1>5, <2>2, <2>5 DEF GcJudge, TypeOK, Files, Indexes, Fixed, Control
<1>6. CASE GcJudgeMeta(c)
  <2>1. Advance(c)
    BY <1>6 DEF GcJudgeMeta, Advance
  <2>2. CASE UNCHANGED loc
    BY <1>6, <2>1, <2>2, QuietType DEF GcJudgeMeta
  <2>3. CASE meta[At(c)] # "none"
    <3>1. At(c) \in Ids
      BY <1>6 DEF GcJudgeMeta, PlaceOK
    <3>2. PICK doom \in BOOLEAN : Judged(c, At(c), doom)
      BY <1>6, <2>3 DEF GcJudgeMeta
    <3>3. PlaceOK' /\ loc' \in [Calls -> Locals]
      BY <1>4, <1>6, <2>1, <3>1, <3>2, LocalStepType DEF GcJudgeMeta, Indexes
    <3> QED BY <1>6, <2>1, <3>3, AdvanceType DEF GcJudgeMeta, TypeOK, Files, Indexes, Fixed
  <2> QED BY <1>6, <2>2, <2>3 DEF GcJudgeMeta
<1>7. CASE GcJudgedAll(c) \/ GcEnd(c)
  <2>1. Advance(c)
    BY <1>7 DEF GcJudgedAll, GcEnd, Advance
  <2> QED BY <1>7, <2>1, QuietType DEF GcJudgedAll, GcEnd
<1>8. CASE GcDelete(c)
  <2>1. Advance(c)
    BY <1>8 DEF GcDelete, Advance
  <2>2. PICK i \in loc[c].doomed : /\ loc' = [loc EXCEPT ![c].at = i]
                                  /\ object' = [object EXCEPT ![i] = "none"]
    BY <1>8 DEF GcDelete
  <2>3. [loc[c] EXCEPT !.at = i] \in Locals
    BY <1>0, <2>2, LocalsType
  <2>4. [loc[c] EXCEPT !.at = i].kind = loc[c].kind /\ [loc[c] EXCEPT !.at = i].at = i
    BY <1>0 DEF Locals
  <2> DEFINE r == [loc[c] EXCEPT !.at = i]
  <2>7. loc' = [loc EXCEPT ![c] = r] /\ r \in Locals /\ r.kind = loc[c].kind /\ r.at \in Ids
    BY <1>0, <2>2, <2>3, <2>4
  <2> HIDE DEF r
  <2>5. PlaceOK' /\ loc' \in [Calls -> Locals]
    BY <1>8, <2>1, <2>7, LocalStepType DEF GcDelete, Indexes
  <2>6. object' \in [Ids -> Contents]
    BY <1>0, <2>2 DEF TypeOK, Contents
  <2>8. lost' \subseteq Calls
    BY <1>8 DEF GcDelete, TypeOK, PutsOf
  <2> QED BY <1>8, <2>1, <2>5, <2>6, <2>8, AdvanceType DEF GcDelete, TypeOK, Indexes, Fixed
<1>9. CASE GcDeleteMeta(c)
  <2>1. Advance(c)
    BY <1>9 DEF GcDeleteMeta, Advance
  <2>2. PlaceOK'
    BY <1>9, <2>1, AdvanceType, PlaceStep DEF GcDeleteMeta, At, Fixed
  <2>3. meta' \in [Ids -> {"none", "recent", "old"}] /\ lost' \subseteq Calls
    BY <1>9 DEF GcDeleteMeta, TypeOK, PutsOf
  <2> QED BY <1>9, <2>1, <2>2, <2>3, AdvanceType DEF GcDeleteMeta, TypeOK, Indexes, Fixed
<1>10. CASE GcDeleteUnpacked(c)
  <2>1. Advance(c)
    BY <1>10 DEF GcDeleteUnpacked, Advance
  <2> DEFINE r == [loc[c] EXCEPT !.doomed = @ \ {At(c)}]
  <2>2. loc' = [loc EXCEPT ![c] = r]
    BY <1>10 DEF GcDeleteUnpacked
  <2>3. r \in Locals
    BY <1>0, LocalsType
  <2>4. r.kind = loc[c].kind /\ r.at = At(c)
    BY <1>0 DEF At, Locals
  <2> HIDE DEF r
  <2>5. PlaceOK' /\ loc' \in [Calls -> Locals]
    BY <1>10, <2>1, <2>2, <2>3, <2>4, LocalStepType DEF GcDeleteUnpacked, Indexes
  <2> QED BY <1>10, <2>1, <2>5, AdvanceType DEF GcDeleteUnpacked, TypeOK, Indexes, Fixed
<1> QED BY <1>1, <1>2, <1>3, <1>5, <1>6, <1>7, <1>8, <1>9, <1>10, <1>11 DEF GcStep

\* Each step of clearOrphans keeps the types.
LEMMA ClearStepType ==
    ASSUME TypeOK, PlaceOK, NEW c \in Calls, ClearStep(c)
    PROVE  TypeOK' /\ PlaceOK'
<1>0. loc[c] \in Locals /\ loc[c].listed \subseteq Calls \X Kinds
  BY DEF TypeOK, Locals
<1>1. CASE ClearEnd(c)
  <2>1. Advance(c)
    BY <1>1 DEF ClearEnd, Advance, Results
  <2> QED BY <1>1, <2>1, QuietType DEF ClearEnd
<1>2. CASE ClearRemove(c)
  <2>1. PICK f \in loc[c].listed : /\ tmp' = [tmp EXCEPT ![f[1]][f[2]] = "none"]
                                  /\ loc' = [loc EXCEPT ![c].listed = @ \ {f}]
    BY <1>2 DEF ClearRemove
  <2> DEFINE r == [loc[c] EXCEPT !.listed = @ \ {f}]
  <2>2. loc' = [loc EXCEPT ![c] = r]
    BY <2>1
  <2>3. r \in Locals
    <3>1. (loc[c].listed \ {f}) \in SUBSET (Calls \X Kinds)
      BY <1>0
    <3> QED BY <1>0, <3>1, LocalsType
  <2>4. r.kind = loc[c].kind /\ r.at = At(c)
    BY <1>0 DEF At, Locals
  <2> HIDE DEF r
  <2>5. PlaceOK' /\ loc' \in [Calls -> Locals]
    BY <1>2, <2>2, <2>3, <2>4, LocalStepType DEF ClearRemove, Indexes
  <2>6. tmp' \in [Calls -> [Kinds -> {"none", "part", "good", "left"}]]
    BY <1>0, <2>1 DEF TypeOK
  <2> QED BY <1>2, <2>5, <2>6 DEF ClearRemove, TypeOK, Indexes, Control, Fixed
<1> QED BY <1>1, <1>2 DEF ClearStep

\* Starting a call keeps the types.
LEMMA CallType ==
    ASSUME TypeOK, PlaceOK, NEW c \in Calls, Call(c)
    PROVE  TypeOK' /\ PlaceOK'
<1> USE DEF PCs, WritePCs, ObjectPCs, ObjectOps, Results, Legal
<1>1. PICK op \in {"put", "read", "verify", "register", "gc", "clearOrphans"} : Begin(c, op)
  BY DEF Call, PutBegin, ReadBegin, RegisterBegin, GcBegin, ClearBegin
<1>2. /\ req' = req /\ req[c].op = op /\ pc[c] = "start"
      /\ overlapped' = [d \in Calls |-> IF d = c THEN Running # {}
                                        ELSE overlapped[d] \/ d \in Running]
  BY <1>1 DEF Begin
<1>3. overlapped' \in [Calls -> BOOLEAN]
  BY <1>2 DEF TypeOK
<1>4. loc[c] \in Locals
  BY DEF TypeOK
<1>5. CASE PutBegin(c)
  <2>0. req[c].op = "put"
    BY <1>5 DEF PutBegin, Begin
  <2>1. inflight' \in [Procs -> [Ids -> Calls \cup {NoCall}]]
    <3>1. CASE inflight' = inflight
      BY <3>1 DEF TypeOK
    <3>2. CASE inflight' = [inflight EXCEPT ![Owner[c]][At(c)] = c]
      BY <3>2 DEF TypeOK
    <3> QED BY <1>5, <3>1, <3>2 DEF PutBegin
  <2>2. pc' \in [Calls -> PCs] /\ \A d \in Calls : pc'[d] = pc[d] \/ Legal(d, pc'[d])
    BY <1>5, <2>0 DEF PutBegin, Goto, TypeOK
  <2>3. PlaceOK'
    <3>1. \A d \in Calls : At(d)' = At(d) /\ loc'[d].kind = loc[d].kind
      BY <1>2, <1>5 DEF PutBegin, At
    <3>2. \A d \in Calls : pc'[d] = pc[d] \/ Legal(d, pc'[d])
      BY <2>2
    <3> HIDE DEF Legal, PCs, WritePCs, ObjectPCs, ObjectOps, Results
    <3> QED BY <1>2, <3>1, <3>2, PlaceStep
  <2> QED BY <1>2, <1>3, <1>5, <2>1, <2>2, <2>3 DEF PutBegin, TypeOK, Files, Indexes
<1>6. CASE ReadBegin(c)
  <2>1. Advance(c)
    BY <1>6 DEF ReadBegin, Begin, Advance
  <2>2. PlaceOK'
    BY <1>2, <1>6, <2>1, AdvanceType, PlaceStep DEF ReadBegin, At
  <2> QED BY <1>2, <1>3, <1>6, <2>1, <2>2, AdvanceType DEF ReadBegin, TypeOK, Files, Indexes
<1>7. CASE RegisterBegin(c)
  <2>1. pc' = [pc EXCEPT ![c] = "create"] /\ loc' = [loc EXCEPT ![c].kind = "index"]
    BY <1>7 DEF RegisterBegin, StartWrite, Goto
  <2>2. loc' \in [Calls -> Locals]
    <3>1. [loc[c] EXCEPT !.kind = "index"] \in Locals
      BY <1>4, LocalsType DEF Kinds
    <3> QED BY <2>1, <3>1, LocType DEF TypeOK
  <2>3. req[c].op = "register"
    BY <1>7 DEF RegisterBegin, Begin
  <2>4. PlaceOK'
    <3>1. \A d \in Calls : At(d)' = At(d)
      BY <2>1 DEF At, TypeOK, Locals
    <3>2. \A d \in Calls : \/ pc'[d] = pc[d] /\ loc'[d].kind = loc[d].kind
                           \/ pc'[d] \in WritePCs /\ req[d].op = "register"
      BY <2>1, <2>3 DEF TypeOK, Locals
    <3> QED BY <1>2, <3>1, <3>2, PlaceStep
  <2> QED BY <1>2, <1>3, <1>7, <2>1, <2>2, <2>4
          DEF RegisterBegin, TypeOK, Files, Indexes, Control
<1>8. CASE GcBegin(c)
  <2>1. AcquireLock(c, GcLock, "readdir") /\ Legal(c, "readdir")
    BY <1>8 DEF GcBegin
  <2>2. PlaceOK'
    BY <1>2, <1>8, <2>1, AcquireType, PlaceStep DEF GcBegin, At
  <2> QED BY <1>2, <1>3, <1>8, <2>1, <2>2, AcquireType DEF GcBegin, TypeOK, Files, Indexes
<1>9. CASE ClearBegin(c)
  <2> DEFINE L == {f \in Calls \X Kinds : tmp[f[1]][f[2]] # "none"}
             r == [loc[c] EXCEPT !.listed = L]
  <2>1. Advance(c) /\ loc' = [loc EXCEPT ![c] = r]
    BY <1>9 DEF ClearBegin, Advance
  <2>2. L \in SUBSET (Calls \X Kinds)
    OBVIOUS
  <2> HIDE DEF L
  <2>3. r \in Locals
    BY <1>4, <2>2, LocalsType
  <2>4. r.kind = loc[c].kind /\ r.at = At(c)
    BY <1>4 DEF At, Locals
  <2> HIDE DEF r
  <2>5. loc' \in [Calls -> Locals] /\ PlaceOK'
    <3>1. loc' \in [Calls -> Locals]
      BY <2>1, <2>3, LocType DEF TypeOK
    <3>2. \A d \in Calls : At(d)' = At(d)
      BY <2>1, <2>4 DEF At, TypeOK
    <3> QED BY <1>2, <2>1, <3>1, <3>2, AdvanceType, PlaceStep
  <2> QED BY <1>2, <1>3, <1>9, <2>1, <2>5, AdvanceType DEF ClearBegin, TypeOK, Files, Indexes
<1> QED BY <1>5, <1>6, <1>7, <1>8, <1>9 DEF Call

\* A crash keeps the types, and so do the disk and time.
LEMMA EnvironmentType ==
    ASSUME TypeOK, PlaceOK,
           \/ \E p \in Procs : Crash(p)
           \/ \E i \in Ids : Rot(i) \/ Age(i)
    PROVE  TypeOK' /\ PlaceOK'
<1>1. ASSUME NEW p \in Procs, Crash(p) PROVE TypeOK' /\ PlaceOK'
  <2> DEFINE dying == {c \in Running : Owner[c] = p}
  <2>1. /\ pc' = [c \in Calls |-> IF c \in dying THEN "dead" ELSE pc[c]]
        /\ locks' = [n \in LockNames |-> locks[n] \ dying]
        /\ inflight' = [inflight EXCEPT ![p] = [i \in Ids |-> NoCall]]
    BY <1>1 DEF Crash
  <2> HIDE DEF dying
  <2>2. pc' \in [Calls -> PCs] /\ \A d \in Calls : pc'[d] = pc[d] \/ Legal(d, pc'[d])
    BY <2>1 DEF TypeOK, PCs, Resting, Legal, WritePCs, ObjectPCs
  <2>3. locks' \in [LockNames -> SUBSET Calls]
    BY <2>1 DEF TypeOK
  <2>4. inflight' \in [Procs -> [Ids -> Calls \cup {NoCall}]]
    BY <2>1 DEF TypeOK
  <2>5. PlaceOK'
    BY <1>1, <2>2, PlaceStep DEF Crash, At, Fixed
  <2> QED BY <1>1, <2>2, <2>3, <2>4, <2>5 DEF Crash, TypeOK, Files, Indexes, Fixed
<1>2. ASSUME NEW i \in Ids, Rot(i) \/ Age(i) PROVE TypeOK' /\ PlaceOK'
  <2>1. object' \in [Ids -> Contents] /\ meta' \in [Ids -> {"none", "recent", "old"}]
    <3>1. object \in [Ids -> Contents] /\ meta \in [Ids -> {"none", "recent", "old"}]
      BY DEF TypeOK
    <3> QED BY <1>2, <3>1 DEF Rot, Age, Contents
  <2>2. PlaceOK'
    BY <1>2 DEF Rot, Age, PlaceOK, At, Fixed
  <2>3. UNCHANGED <<unpacked, tmp, Indexes, Control, Fixed, pc, loc, lost>>
    BY <1>2 DEF Rot, Age
  <2> QED BY <2>1, <2>2, <2>3 DEF TypeOK, Indexes, Control, Fixed
<1> QED BY <1>1, <1>2

LEMMA TypeInvariant == Spec => [](TypeOK /\ PlaceOK)
<1>1. TypeOK /\ PlaceOK /\ [Next]_vars => TypeOK' /\ PlaceOK'
  <2> SUFFICES ASSUME TypeOK, PlaceOK, [Next]_vars PROVE TypeOK' /\ PlaceOK'
    OBVIOUS
  <2>1. ASSUME NEW c \in Calls, Step(c) PROVE TypeOK' /\ PlaceOK'
    BY <2>1, WriteStepType, PutStepType, GcStepType, ClearStepType DEF Step
  <2>2. CASE UNCHANGED vars
    BY <2>2 DEF vars, disk, TypeOK, PlaceOK, At
  <2> QED BY <2>1, <2>2, CallType, EnvironmentType DEF Next
<1> QED BY <1>1, InitType, PTL DEF Spec

\* Type correctness: every file, lock and local variable of the store keeps its type.
THEOREM TypeCorrect == Spec => []TypeOK
BY TypeInvariant, PTL

------------------------------------------------------------------------------
(* gc spares what one project has listed all along *)

GcPCs == {"start", "readdir", "readIndex", "judge", "judgeMeta"}

\* Where a pinned object is on its way from an index to the reachable set, and that
\* ids are judged only when every index has been read: the strengthening of
\* GcSparesRegistered that a step preserves.
GcInv(c) ==
    /\ \A s \in steady[c] : /\ s[2] \in index[s[1]]
                            /\ s[1] \in loc[c].unread \/ s[2] \in loc[c].reach
    /\ (loc[c].todo \cup loc[c].doomed) \cap loc[c].reach = {}
    /\ loc[c].todo \cup loc[c].doomed # {} => loc[c].unread = {}
    /\ pc[c] \in {"start", "readdir", "readIndex"} => loc[c].todo = {} /\ loc[c].doomed = {}
    /\ pc[c] \in {"judge", "judgeMeta"} => loc[c].unread = {}
    /\ pc[c] = "judgeMeta" => At(c) \in loc[c].todo

\* What a step may do to a call that it does not collect for.
GcFrame(c) ==
    /\ loc'[c].unread = loc[c].unread /\ loc'[c].reach = loc[c].reach
    /\ loc'[c].todo = loc[c].todo /\ loc'[c].doomed = loc[c].doomed
    /\ \/ pc'[c] = pc[c] /\ At(c)' = At(c)
       \/ pc'[c] \notin GcPCs
       \/ pc[c] = "start" /\ pc'[c] = "readdir"

LEMMA FrameKeeps ==
    ASSUME NEW c \in Calls, GcInv(c), GcFrame(c),
           \A s \in steady'[c] : s \in steady[c] /\ s[2] \in index'[s[1]]
    PROVE  GcInv(c)'
BY DEF GcInv, GcFrame, GcPCs

\* Ending or resuming a call leaves every other call where it is, or done.
LEMMA EndFrame ==
    ASSUME TypeOK, NEW d \in Calls, NEW c \in Calls, UNCHANGED loc,
           \/ \E result : End(d, result)
           \/ \E where \in PCs \ GcPCs : Then(d, where)
           \/ \E where \in PCs \ GcPCs : Goto(d, where)
    PROVE  GcFrame(c)
<1>1. ASSUME NEW result, End(d, result) PROVE pc'[c] = pc[c] \/ pc'[c] \notin GcPCs
  BY <1>1 DEF End, GcPCs
<1>2. ASSUME NEW where \in PCs \ GcPCs, Goto(d, where)
      PROVE  pc'[c] = pc[c] \/ pc'[c] \notin GcPCs
  BY <1>2 DEF Goto, TypeOK
<1>3. pc'[c] = pc[c] \/ pc'[c] \notin GcPCs
  BY <1>1, <1>2 DEF Then
<1> QED BY <1>3 DEF GcFrame, At

\* The steps of put, read and verifyObject.
LEMMA PutFrame ==
    ASSUME TypeOK, PlaceOK, NEW d \in Calls, NEW c \in Calls, PutStep(d)
    PROVE  GcFrame(c) /\ UNCHANGED <<index, steady>>
<1> USE DEF Files, Indexes, PCs, Resting, GcPCs
<1>0. UNCHANGED <<index, steady>>
  BY DEF PutStep, PutVerify, InsertCheck, InsertLock, InsertRecheck, ReadBytes, CheckBytes,
         CheckMeta, Touch, TouchRead, ReadMeta
<1>1. ASSUME AfterAssert(d) \/ AfterTouch(d), UNCHANGED loc PROVE GcFrame(c)
  BY <1>1, EndFrame DEF AfterAssert, AfterTouch
<1>2. CASE PutVerify(d) \/ InsertCheck(d) \/ ReadMeta(d)
  BY <1>2, EndFrame DEF PutVerify, InsertCheck, ReadMeta
<1>3. CASE InsertLock(d)
  BY <1>3, EndFrame DEF InsertLock, AcquireLock
<1>4. CASE CheckBytes(d) \/ CheckMeta(d) \/ Touch(d)
  BY <1>1, <1>4, EndFrame DEF CheckBytes, CheckMeta, Touch
<1>5. CASE InsertRecheck(d) \/ TouchRead(d) \/ ReadBytes(d)
  <2>1. CASE UNCHANGED loc
    BY <1>5, <2>1, EndFrame DEF InsertRecheck, TouchRead, ReadBytes, StartWrite
  <2>2. ASSUME NEW k, loc' = [loc EXCEPT ![d].kind = k], Goto(d, "create") PROVE GcFrame(c)
    BY <2>2 DEF GcFrame, Goto, TypeOK, Locals, At
  <2>3. ASSUME NEW b, loc' = [loc EXCEPT ![d].buf = b], Then(d, "assert") PROVE GcFrame(c)
    BY <2>3 DEF GcFrame, Then, Goto, TypeOK, Locals, At
  <2> QED BY <1>5, <2>1, <2>2, <2>3 DEF InsertRecheck, TouchRead, ReadBytes, StartWrite
<1> QED BY <1>0, <1>2, <1>3, <1>4, <1>5 DEF PutStep

\* The steps of writeFileAtomic; a new index keeps pinned what it still lists.
LEMMA WriteFrame ==
    ASSUME TypeOK, PlaceOK, NEW d \in Calls, NEW c \in Calls, WriteStep(d), GcInv(c)
    PROVE  GcInv(c)'
<1> USE DEF Files, Indexes, PCs, Resting, GcPCs
<1>1. CASE Create(d) \/ Write(d) \/ WriteFault(d) \/ RenameFails(d) \/ RenameMeta(d)
  <2>1. GcFrame(c) /\ UNCHANGED <<index, steady>>
    BY <1>1, EndFrame DEF Create, Write, WriteFault, RenameFails, RenameMeta
  <2> QED BY <2>1, FrameKeeps DEF GcInv
<1>2. CASE RenameTouch(d)
  <2>1. GcFrame(c) /\ UNCHANGED <<index, steady>>
    BY <1>2, EndFrame DEF RenameTouch, AfterTouch
  <2> QED BY <2>1, FrameKeeps DEF GcInv
<1>3. CASE RenameObject(d)
  <2>1. GcFrame(c) /\ UNCHANGED <<index, steady>>
    BY <1>3 DEF RenameObject, StartWrite, GcFrame, Goto, TypeOK, Locals, At
  <2> QED BY <2>1, FrameKeeps DEF GcInv
<1>4. CASE RenameIndex(d)
  <2> DEFINE p == req[d].project
             S == req[d].objects
  <2>1. /\ index' = [index EXCEPT ![p] = S]
        /\ steady' = [e \in Calls |-> {s \in steady[e] : s[1] = p => s[2] \in S}]
    BY <1>4 DEF RenameIndex
  <2>2. GcFrame(c)
    BY <1>4, EndFrame DEF RenameIndex
  <2> HIDE DEF p, S
  <2>3. \A s \in steady[c] : s[1] \in Projects /\ s[2] \in index[s[1]]
    BY DEF TypeOK, GcInv
  <2>4. \A s \in steady'[c] : s \in steady[c] /\ s[2] \in index'[s[1]]
    BY <2>1, <2>3 DEF TypeOK
  <2> QED BY <2>2, <2>4, FrameKeeps
<1> QED BY <1>1, <1>2, <1>3, <1>4 DEF WriteStep

\* The steps of clearOrphans, new calls, crashes, the disk and time.
LEMMA OtherFrame ==
    ASSUME TypeOK, PlaceOK, NEW c \in Calls, GcInv(c),
           \/ \E d \in Calls : ClearStep(d) \/ Call(d)
           \/ \E p \in Procs : Crash(p)
           \/ \E i \in Ids : Rot(i) \/ Age(i)
    PROVE  GcInv(c)'
<1> USE DEF Files, Indexes, PCs, Resting, GcPCs
<1>1. ASSUME NEW d \in Calls, ClearStep(d) \/ ClearBegin(d)
      PROVE  GcFrame(c) /\ UNCHANGED <<index, steady>>
  <2>1. CASE ClearEnd(d)
    BY <2>1, EndFrame DEF ClearEnd
  <2>2. CASE ClearRemove(d) \/ ClearBegin(d)
    <3>1. PICK L : loc' = [loc EXCEPT ![d].listed = L]
      BY <2>2 DEF ClearRemove, ClearBegin
    <3>2. pc' = pc \/ pc' = [pc EXCEPT ![d] = "removeTmp"]
      BY <2>2 DEF ClearRemove, ClearBegin, Then, Goto
    <3>3. GcFrame(c)
      BY <3>1, <3>2 DEF GcFrame, TypeOK, Locals, At
    <3> QED BY <2>2, <3>3 DEF ClearRemove, ClearBegin
  <2> QED BY <1>1, <2>1, <2>2 DEF ClearStep
<1>2. ASSUME NEW d \in Calls, Call(d), ~ClearBegin(d)
      PROVE  GcFrame(c) /\ UNCHANGED <<index, steady>>
  <2>1. CASE PutBegin(d)
    BY <2>1, EndFrame DEF PutBegin
  <2>2. CASE ReadBegin(d)
    BY <2>2, EndFrame DEF ReadBegin
  <2>3. CASE RegisterBegin(d)
    BY <2>3 DEF RegisterBegin, StartWrite, Goto, GcFrame, TypeOK, Locals, At
  <2>4. CASE GcBegin(d)
    <3>1. CASE End(d, "failed") \/ End(d, "fault")
      BY <2>4, <3>1, EndFrame DEF GcBegin
    <3>2. CASE Goto(d, "readdir")
      BY <2>4, <3>2 DEF GcBegin, Begin, Goto, GcFrame, TypeOK, At
    <3> QED BY <2>4, <3>1, <3>2 DEF GcBegin, AcquireLock
  <2> QED BY <1>2, <2>1, <2>2, <2>3, <2>4 DEF Call
<1>3. ASSUME NEW p \in Procs, Crash(p) PROVE GcFrame(c) /\ UNCHANGED <<index, steady>>
  BY <1>3 DEF Crash, GcFrame, At
<1>4. ASSUME NEW i \in Ids, Rot(i) \/ Age(i) PROVE GcFrame(c) /\ UNCHANGED <<index, steady>>
  BY <1>4 DEF Rot, Age, GcFrame, At
<1>5. GcFrame(c) /\ UNCHANGED <<index, steady>>
  BY <1>1, <1>2, <1>3, <1>4
<1> QED BY <1>5, FrameKeeps DEF GcInv

\* The steps of gc: those of c itself move its pinned objects from the indexes to
\* the reachable set; those of another collection leave c alone.
LEMMA GcStepKeeps ==
    ASSUME TypeOK, PlaceOK, NEW d \in Calls, NEW c \in Calls, GcStep(d), GcInv(c)
    PROVE  GcInv(c)'
<1> USE DEF Files, Indexes, PCs, Resting, GcPCs
<1>0. index' = index /\ loc[d] \in Locals /\ loc \in [Calls -> Locals] /\ pc \in [Calls -> PCs]
  BY DEF TypeOK, GcStep, GcReaddir, GcReadIndex, GcSkipIndex, GcList, GcJudge, GcJudgeMeta,
         GcJudgedAll, GcDelete, GcDeleteMeta, GcDeleteUnpacked, GcEnd
<1>1. CASE GcReaddir(d)
  <2>1. /\ loc' = [loc EXCEPT ![d].unread = indexed]
        /\ steady' = [steady EXCEPT ![d] = {s \in indexed \X Ids : s[2] \in index[s[1]]}]
        /\ pc' = [pc EXCEPT ![d] = "readIndex"] /\ pc[d] = "readdir"
    BY <1>1 DEF GcReaddir, Then, Goto
  <2>2. CASE c = d
    <3>1. /\ loc'[c] = [loc[c] EXCEPT !.unread = indexed]
          /\ steady'[c] = {s \in indexed \X Ids : s[2] \in index[s[1]]}
          /\ pc'[c] = "readIndex"
      BY <1>0, <2>1, <2>2 DEF TypeOK
    <3> QED BY <1>0, <2>1, <2>2, <3>1 DEF GcInv, Locals, At
  <2>3. CASE c # d
    <3>1. GcFrame(c) /\ steady'[c] = steady[c]
      BY <1>0, <2>1, <2>3 DEF GcFrame, At, TypeOK
    <3> QED BY <1>0, <3>1, FrameKeeps DEF GcInv
  <2> QED BY <2>2, <2>3
<1>2. ASSUME ~GcReaddir(d), ~GcSkipIndex(d) PROVE steady' = steady
  BY <1>2 DEF GcStep, GcReadIndex, GcList, GcJudge, GcJudgeMeta, GcJudgedAll,
         GcDelete, GcDeleteMeta, GcDeleteUnpacked, GcEnd
<1>11. ASSUME c = d, GcSkipIndex(d) PROVE GcInv(c)'
  <2>1. PICK p \in loc[c].unread :
           /\ loc' = [loc EXCEPT ![c].unread = @ \ {p}]
           /\ steady' = [steady EXCEPT ![c] = {s \in @ : s[1] # p}]
    BY <1>11 DEF GcSkipIndex
  <2>2. /\ loc'[c].unread = loc[c].unread \ {p} /\ loc'[c].reach = loc[c].reach
        /\ loc'[c].todo = loc[c].todo /\ loc'[c].doomed = loc[c].doomed
        /\ steady'[c] = {s \in steady[c] : s[1] # p}
    BY <1>0, <2>1 DEF Locals, TypeOK
  <2>3. pc[c] = "readIndex" /\ pc' = pc
    BY <1>11 DEF GcSkipIndex
  <2> QED BY <1>0, <2>2, <2>3 DEF GcInv
<1>12. ASSUME c # d, GcSkipIndex(d) PROVE GcInv(c)'
  <2>1. /\ loc'[c] = loc[c] /\ pc' = pc /\ steady'[c] = steady[c]
    BY <1>0, <1>12 DEF GcSkipIndex, TypeOK
  <2>2. GcFrame(c)
    BY <2>1 DEF GcFrame, At
  <2> QED BY <1>0, <2>1, <2>2, FrameKeeps DEF GcInv
<1>3. ASSUME c # d, ~GcReaddir(d), ~GcSkipIndex(d) PROVE GcInv(c)'
  <2>1. \/ \E result : End(d, result)
        \/ \E where : Then(d, where)
        \/ \E where : Goto(d, where)
        \/ UNCHANGED pc
    BY <1>3 DEF GcStep, GcReadIndex, GcList, GcJudge, GcJudgeMeta, GcJudgedAll,
         GcDelete, GcDeleteMeta, GcDeleteUnpacked, GcEnd
  <2>2. pc'[c] = pc[c] \/ pc'[c] = "done"
    BY <1>0, <1>3, <2>1 DEF End, Then, Goto
  <2>3. loc'[c] = loc[c]
    BY <1>0, <1>3 DEF GcStep, GcReadIndex, GcList, GcJudge, GcJudgeMeta, GcJudgedAll, Judged,
         GcDelete, GcDeleteMeta, GcDeleteUnpacked, GcEnd
  <2>4. GcFrame(c)
    BY <2>2, <2>3 DEF GcFrame, At
  <2> QED BY <1>0, <1>2, <1>3, <2>4, FrameKeeps DEF GcInv
<1>4. ASSUME c = d, GcReadIndex(d) PROVE GcInv(c)'
  <2>1. PICK p \in loc[c].unread :
           loc' = [loc EXCEPT ![c].unread = @ \ {p}, ![c].reach = loc[c].reach \cup index[p]]
    BY <1>4 DEF GcReadIndex, ReachWith
  <2>2. /\ loc'[c].unread = loc[c].unread \ {p}
        /\ loc'[c].reach = loc[c].reach \cup index[p]
        /\ loc'[c].todo = loc[c].todo /\ loc'[c].doomed = loc[c].doomed
    BY <1>0, <2>1 DEF Locals
  <2>3. pc[c] = "readIndex" /\ pc' = pc /\ steady' = steady
    BY <1>4 DEF GcReadIndex
  <2> QED BY <1>0, <2>2, <2>3 DEF GcInv
<1>5. ASSUME c = d, GcList(d) PROVE GcInv(c)'
  <2>1. PICK S \in SUBSET Candidates(c) : loc' = [loc EXCEPT ![c].todo = S]
    BY <1>5 DEF GcList
  <2>4. /\ pc[c] = "readIndex" /\ loc[c].unread = {} /\ pc'[c] = "judge" /\ steady' = steady
    BY <1>0, <1>5 DEF GcList, Then, Goto
  <2>2. /\ loc'[c].todo = S /\ loc'[c].unread = loc[c].unread
        /\ loc'[c].reach = loc[c].reach /\ loc'[c].doomed = loc[c].doomed
    BY <1>0, <2>1 DEF Locals
  <2>3. S \cap loc[c].reach = {}
    BY DEF Candidates
  <2> HIDE DEF Candidates
  <2> QED BY <1>0, <2>2, <2>3, <2>4 DEF GcInv
<1>6. ASSUME c = d, NEW i \in loc[c].todo, NEW D \in {loc[c].doomed, loc[c].doomed \cup {i}},
             loc' = [loc EXCEPT ![c].todo = @ \ {i}, ![c].at = i, ![c].doomed = D],
             pc'[c] = "judge", pc[c] \in {"judge", "judgeMeta"}, steady' = steady
      PROVE  GcInv(c)'
  <2>1. /\ loc'[c].todo = loc[c].todo \ {i} /\ loc'[c].unread = loc[c].unread
        /\ loc'[c].reach = loc[c].reach
        /\ loc'[c].doomed \subseteq loc[c].doomed \cup {i}
    BY <1>0, <1>6 DEF Locals
  <2> QED BY <1>0, <1>6, <2>1 DEF GcInv
<1>7. ASSUME c = d, GcJudge(d) PROVE GcInv(c)'
  <2>1. PICK i \in loc[c].todo :
          \/ Judged(c, i, TRUE) /\ UNCHANGED pc
          \/ loc' = [loc EXCEPT ![c].at = i] /\ Goto(c, "judgeMeta")
    BY <1>7 DEF GcJudge
  <2>2. pc[c] = "judge" /\ steady' = steady
    BY <1>7 DEF GcJudge
  <2>3. CASE loc' = [loc EXCEPT ![c].at = i] /\ Goto(c, "judgeMeta")
    <3>1. /\ loc'[c].todo = loc[c].todo /\ loc'[c].unread = loc[c].unread
          /\ loc'[c].reach = loc[c].reach /\ loc'[c].doomed = loc[c].doomed
          /\ loc'[c].at = i /\ pc'[c] = "judgeMeta"
      BY <1>0, <2>3 DEF Locals, Goto
    <3> QED BY <1>0, <2>1, <2>2, <3>1 DEF GcInv, At
  <2>4. CASE Judged(c, i, TRUE) /\ UNCHANGED pc
    <3>1. loc' = [loc EXCEPT ![c].todo = @ \ {i}, ![c].at = i, ![c].doomed = loc[c].doomed \cup {i}]
      BY <1>0, <2>4 DEF Judged
    <3> QED BY <1>6, <1>7, <2>1, <2>2, <2>4, <3>1
  <2> QED BY <2>1, <2>3, <2>4
<1>8. ASSUME c = d, GcJudgeMeta(d) PROVE GcInv(c)'
  <2>1. CASE End(c, "failed") /\ UNCHANGED loc
    <3>1. GcFrame(c)
      BY <2>1, EndFrame
    <3> QED BY <1>0, <1>2, <1>8, <3>1, FrameKeeps DEF GcInv, GcJudgeMeta
  <2>2. CASE Judged(c, At(c), ~(req[c].olderThan /\ meta[At(c)] = "recent")) /\ Then(c, "judge")
    <3>1. pc'[c] = "judge" /\ pc[c] = "judgeMeta" /\ steady' = steady
      BY <1>0, <1>8, <2>2 DEF GcJudgeMeta, Then, Goto
    <3>2. PICK D \in {loc[c].doomed, loc[c].doomed \cup {At(c)}} :
             loc' = [loc EXCEPT ![c].todo = @ \ {At(c)}, ![c].at = At(c), ![c].doomed = D]
      BY <1>0, <2>2 DEF Judged
    <3>3. At(c) \in loc[c].todo
      BY <3>1 DEF GcInv
    <3> QED BY <1>6, <1>8, <3>1, <3>2, <3>3
  <2> QED BY <1>8, <2>1, <2>2 DEF GcJudgeMeta
<1>9. ASSUME c = d, GcJudgedAll(d) \/ GcDeleteMeta(d) \/ GcEnd(d) PROVE GcInv(c)'
  <2>1. GcFrame(c) /\ steady' = steady
    BY <1>9, EndFrame DEF GcJudgedAll, GcDeleteMeta, GcEnd
  <2> QED BY <1>0, <2>1, FrameKeeps DEF GcInv
<1>10. ASSUME c = d, GcDelete(d) \/ GcDeleteUnpacked(d) PROVE GcInv(c)'
  <2>1. /\ loc'[c].todo = loc[c].todo /\ loc'[c].unread = loc[c].unread
        /\ loc'[c].reach = loc[c].reach /\ loc'[c].doomed \subseteq loc[c].doomed
    BY <1>0, <1>10 DEF GcDelete, GcDeleteUnpacked, Locals
  <2>2. pc'[c] \in {"deleteMeta", "delete"} /\ steady' = steady
    BY <1>0, <1>10 DEF GcDelete, GcDeleteUnpacked, Then, Goto
  <2> QED BY <1>0, <2>1, <2>2 DEF GcInv
<1> QED BY <1>1, <1>3, <1>4, <1>5, <1>7, <1>8, <1>9, <1>10, <1>11, <1>12 DEF GcStep

LEMMA GcInvStep == TypeOK /\ PlaceOK /\ (\A c \in Calls : GcInv(c)) /\ [Next]_vars
                      => (\A c \in Calls : GcInv(c))'
<1> SUFFICES ASSUME TypeOK, PlaceOK, [Next]_vars, NEW c \in Calls, GcInv(c)
             PROVE  GcInv(c)'
  OBVIOUS
<1>1. ASSUME NEW d \in Calls, PutStep(d) PROVE GcInv(c)'
  BY <1>1, PutFrame, FrameKeeps DEF GcInv
<1>2. ASSUME NEW d \in Calls, Step(d) PROVE GcInv(c)'
  BY <1>1, <1>2, WriteFrame, GcStepKeeps, OtherFrame DEF Step
<1>3. CASE UNCHANGED vars
  BY <1>3 DEF GcInv, vars, disk, At
<1> QED BY <1>2, <1>3, OtherFrame DEF Next

LEMMA GcInvInit == Init => \A c \in Calls : GcInv(c)
BY DEF Init, GcInv

LEMMA GcInvariant == Spec => [](\A c \in Calls : GcInv(c))
BY TypeInvariant, GcInvInit, GcInvStep, PTL DEF Spec

\* gc dooms no object that one project has listed ever since gc looked for indexes.
THEOREM PinnedAreSpared == Spec => []GcSparesRegistered
<1>1. (\A c \in Calls : GcInv(c)) => GcSparesRegistered
  BY DEF GcInv, GcSparesRegistered
<1> QED BY <1>1, GcInvariant, PTL

------------------------------------------------------------------------------
(* Objects are published whole *)

\* What is about to be renamed is complete or gone.  (Write fills the file before
\* pc reaches "rename", and a path is only written by Renaming.)
WholeInv ==
    /\ \A i \in Ids : object[i] # "part"
    /\ \A c \in Calls : pc[c] = "rename" => tmp[c][loc[c].kind] # "part"
    /\ \A p \in Projects \ indexed : index[p] = {}

\* What leaves WholeInv alone.
WholeFrame ==
    /\ \A i \in Ids : object'[i] \in {object[i], "none", "bad"}
    /\ \A c \in Calls : pc'[c] = "rename" =>
          /\ pc[c] = "rename" /\ loc'[c].kind = loc[c].kind
          /\ tmp'[c][loc[c].kind] \in {tmp[c][loc[c].kind], "none"}
    /\ UNCHANGED <<index, indexed>>

LEMMA WholeFrameKeeps == WholeInv /\ WholeFrame => WholeInv'
BY DEF WholeInv, WholeFrame

\* A step outside writeFileAtomic does not reach its rename.
LEMMA GotoFrame ==
    ASSUME TypeOK, NEW c \in Calls, UNCHANGED tmp,
           \A d \in Calls : d # c => loc'[d] = loc[d],
           \/ \E result : End(c, result) /\ loc' = loc
           \/ \E where \in PCs \ {"rename"} : Then(c, where) \/ Goto(c, where)
           \/ pc[c] # "rename" /\ UNCHANGED pc
    PROVE  \A d \in Calls : pc'[d] = "rename" =>
              /\ pc[d] = "rename" /\ loc'[d].kind = loc[d].kind
              /\ tmp'[d][loc[d].kind] \in {tmp[d][loc[d].kind], "none"}
<1>1. ASSUME NEW result, End(c, result), loc' = loc, NEW d \in Calls, pc'[d] = "rename"
      PROVE  pc[d] = "rename" /\ loc'[d] = loc[d]
  BY <1>1 DEF End
<1>2. ASSUME NEW where \in PCs \ {"rename"}, Goto(c, where), NEW d \in Calls, pc'[d] = "rename"
      PROVE  pc[d] = "rename" /\ loc'[d] = loc[d]
  BY <1>2 DEF Goto, TypeOK
<1> QED BY <1>1, <1>2 DEF Then

\* The steps of put, read, verifyObject and gc.
LEMMA CallFrame ==
    ASSUME TypeOK, NEW c \in Calls, PutStep(c) \/ GcStep(c) \/ ClearStep(c) \/ Call(c)
    PROVE  WholeFrame
<1> USE DEF Files, Indexes, PCs, Resting
<1>0. UNCHANGED <<index, indexed>> /\ \A i \in Ids : object'[i] \in {object[i], "none"}
  BY DEF TypeOK, PutStep, PutVerify, InsertCheck, InsertLock, InsertRecheck, ReadBytes, CheckBytes,
         CheckMeta, Touch, TouchRead, ReadMeta, GcStep, GcReaddir, GcReadIndex, GcSkipIndex,
         GcList, GcJudge, GcJudgeMeta, GcJudgedAll, GcDelete, GcDeleteMeta, GcDeleteUnpacked, GcEnd,
         ClearStep, ClearRemove, ClearEnd, Call, PutBegin, ReadBegin, RegisterBegin, GcBegin,
         ClearBegin
<1>1. ASSUME UNCHANGED tmp, \A d \in Calls : d # c => loc'[d] = loc[d],
             \/ \E result : End(c, result) /\ loc' = loc
             \/ \E where \in PCs \ {"rename"} : Then(c, where) \/ Goto(c, where)
             \/ pc[c] # "rename" /\ UNCHANGED pc
      PROVE  WholeFrame
  BY <1>0, <1>1, GotoFrame DEF WholeFrame
<1>2. ASSUME AfterAssert(c) \/ AfterTouch(c), UNCHANGED <<loc, tmp>> PROVE WholeFrame
  BY <1>1, <1>2 DEF AfterAssert, AfterTouch
<1>3. CASE PutVerify(c) \/ InsertCheck(c) \/ ReadMeta(c)
  BY <1>1, <1>3 DEF PutVerify, InsertCheck, ReadMeta
<1>4. CASE InsertLock(c) \/ GcBegin(c)
  BY <1>1, <1>4 DEF InsertLock, GcBegin, AcquireLock
<1>5. CASE CheckBytes(c) \/ CheckMeta(c) \/ Touch(c)
  BY <1>1, <1>2, <1>5 DEF CheckBytes, CheckMeta, Touch
<1>6. CASE InsertRecheck(c) \/ TouchRead(c) \/ ReadBytes(c) \/ RegisterBegin(c)
  <2>1. \/ \E result : End(c, result) /\ loc' = loc
        \/ \E where \in PCs \ {"rename"} : Then(c, where) \/ Goto(c, where)
    BY <1>6 DEF InsertRecheck, TouchRead, ReadBytes, RegisterBegin, StartWrite
  <2>2. \A d \in Calls : d # c => loc'[d] = loc[d]
    BY <1>6 DEF InsertRecheck, TouchRead, ReadBytes, RegisterBegin, StartWrite, TypeOK
  <2> QED BY <1>1, <1>6, <2>1, <2>2 DEF InsertRecheck, TouchRead, ReadBytes, RegisterBegin
<1>7. CASE GcStep(c)
  <2>1. UNCHANGED tmp /\ \A d \in Calls : d # c => loc'[d] = loc[d]
    BY <1>7 DEF TypeOK, GcStep, GcReaddir, GcReadIndex, GcSkipIndex, GcList, GcJudge,
                GcJudgeMeta, Judged, GcJudgedAll, GcDelete, GcDeleteMeta, GcDeleteUnpacked, GcEnd
  <2>2. \/ \E result : End(c, result) /\ loc' = loc
        \/ \E where \in PCs \ {"rename"} : Then(c, where) \/ Goto(c, where)
        \/ pc[c] # "rename" /\ UNCHANGED pc
    BY <1>7 DEF GcStep, GcReaddir, GcReadIndex, GcSkipIndex, GcList, GcJudge, GcJudgeMeta,
                GcJudgedAll, GcDelete, GcDeleteMeta, GcDeleteUnpacked, GcEnd
  <2> QED BY <1>1, <2>1, <2>2
<1>8. CASE ClearEnd(c) \/ PutBegin(c) \/ ReadBegin(c)
  BY <1>1, <1>8 DEF ClearEnd, PutBegin, ReadBegin
<1>9. CASE ClearRemove(c)
  <2>1. PICK f \in loc[c].listed : /\ tmp' = [tmp EXCEPT ![f[1]][f[2]] = "none"]
                                   /\ loc' = [loc EXCEPT ![c].listed = @ \ {f}]
    BY <1>9 DEF ClearRemove
  <2>2. f[1] \in Calls /\ f[2] \in Kinds
    BY <2>1 DEF TypeOK, Locals
  <2>3. \A d \in Calls : loc'[d].kind = loc[d].kind /\ loc[d].kind \in Kinds
    BY <2>1 DEF TypeOK, Locals
  <2>4. \A d \in Calls, k \in Kinds : tmp'[d][k] \in {tmp[d][k], "none"}
    BY <2>1, <2>2 DEF TypeOK
  <2> QED BY <1>0, <1>9, <2>3, <2>4 DEF WholeFrame, ClearRemove
<1>10. CASE ClearBegin(c)
  <2>1. Goto(c, "removeTmp") /\ UNCHANGED tmp /\ \A d \in Calls : d # c => loc'[d] = loc[d]
    BY <1>10 DEF ClearBegin, Then, TypeOK
  <2> QED BY <1>1, <2>1
<1> QED BY <1>3, <1>4, <1>5, <1>6, <1>7, <1>8, <1>9, <1>10 DEF PutStep, ClearStep, Call

\* The steps of writeFileAtomic: Write fills, Renaming publishes.
LEMMA WriteWhole ==
    ASSUME TypeOK, PlaceOK, WholeInv, NEW c \in Calls, WriteStep(c)
    PROVE  WholeInv'
<1> USE DEF Files, Indexes, PCs, Resting
<1>0. loc[c].kind \in Kinds /\ tmp[c] \in [Kinds -> {"none", "part", "good", "left"}]
  BY DEF TypeOK, Locals
<1>1. CASE Create(c)
  <2>1. /\ tmp' = [tmp EXCEPT ![c][loc[c].kind] = "part"] /\ pc' = [pc EXCEPT ![c] = "write"]
        /\ UNCHANGED <<object, index, indexed, loc>>
    BY <1>1 DEF Create, Then, Goto
  <2>2. \A d \in Calls : d # c => tmp'[d] = tmp[d]
    BY <2>1 DEF TypeOK
  <2> QED BY <2>1, <2>2 DEF WholeInv, TypeOK
<1>2. CASE Write(c)
  <2>1. /\ tmp' = [tmp EXCEPT ![c][loc[c].kind] = IF @ = "none" THEN "none" ELSE "good"]
        /\ pc' = [pc EXCEPT ![c] = "rename"]
        /\ UNCHANGED <<object, index, indexed, loc>>
    BY <1>2 DEF Write, Then, Goto
  <2>2. \A d \in Calls : d # c => tmp'[d] = tmp[d]
    BY <2>1 DEF TypeOK
  <2>3. tmp'[c][loc[c].kind] # "part"
    BY <1>0, <2>1 DEF TypeOK
  <2> QED BY <2>1, <2>2, <2>3 DEF WholeInv, TypeOK
<1>3. ASSUME NEW result, End(c, result), loc' = loc,
             \A d \in Calls, k \in Kinds : tmp'[d][k] \in {tmp[d][k], "none"}
      PROVE  \A d \in Calls : pc'[d] = "rename" =>
                /\ pc[d] = "rename" /\ loc'[d].kind = loc[d].kind
                /\ tmp'[d][loc[d].kind] \in {tmp[d][loc[d].kind], "none"}
  <2>1. \A d \in Calls : loc[d].kind \in Kinds
    BY DEF TypeOK, Locals
  <2> QED BY <1>3, <2>1 DEF End
<1>4. CASE WriteFault(c) \/ RenameFails(c)
  <2>1. PICK result : End(c, result)
    BY <1>4 DEF WriteFault, RenameFails
  <2>2. UNCHANGED <<loc, object, index, indexed>>
    BY <1>4 DEF WriteFault, RenameFails
  <2>3. \A d \in Calls : d # c => tmp'[d] = tmp[d]
    <3>1. tmp' = tmp \/ \E f : tmp' = [tmp EXCEPT ![c][loc[c].kind] = f]
      BY <1>4 DEF WriteFault, AfterFault, RenameFails
    <3> QED BY <3>1 DEF TypeOK
  <2>4. \A d \in Calls : pc'[d] = "rename" => d # c /\ pc[d] = "rename"
    BY <2>1 DEF End
  <2> QED BY <2>2, <2>3, <2>4 DEF WholeInv
<1>5. ASSUME NEW k \in Kinds, Renaming(c, k)
      PROVE  /\ \A d \in Calls, l \in Kinds : tmp'[d][l] \in {tmp[d][l], "none"}
             /\ tmp[c][k] = "good"
  BY <1>0, <1>5 DEF Renaming, TypeOK, WholeInv
<1>6. CASE RenameObject(c)
  <2>1. /\ object' = [object EXCEPT ![At(c)] = "good"]
        /\ pc' = [pc EXCEPT ![c] = "create"] /\ loc' = [loc EXCEPT ![c].kind = "meta"]
    BY <1>5, <1>6 DEF RenameObject, StartWrite, Goto, Kinds
  <2>2. \A i \in Ids : object'[i] # "part"
    BY <2>1 DEF TypeOK, WholeInv
  <2>3. \A d \in Calls : pc'[d] = "rename" => d # c /\ pc[d] = "rename" /\ loc'[d] = loc[d]
    BY <2>1 DEF TypeOK
  <2>4. \A d \in Calls : d # c => tmp'[d] = tmp[d]
    BY <1>6 DEF RenameObject, Renaming, TypeOK
  <2> QED BY <1>6, <2>2, <2>3, <2>4 DEF RenameObject, WholeInv
<1>7. CASE RenameMeta(c) \/ RenameTouch(c)
  <2>1. \A d \in Calls, k \in Kinds : tmp'[d][k] \in {tmp[d][k], "none"}
    BY <1>5, <1>7 DEF RenameMeta, RenameTouch, Kinds
  <2>2. \/ \E result : End(c, result)
        \/ Goto(c, "readMeta")
    BY <1>7 DEF RenameMeta, RenameTouch, AfterTouch, Then
  <2>3. \A d \in Calls : pc'[d] = "rename" => pc[d] = "rename"
    BY <2>2 DEF End, Goto, TypeOK
  <2>4. \A d \in Calls : loc[d].kind \in Kinds
    BY DEF TypeOK, Locals
  <2> QED BY <1>7, <2>1, <2>3, <2>4, WholeFrameKeeps DEF RenameMeta, RenameTouch, WholeFrame
<1>8. CASE RenameIndex(c)
  <2>1. \A d \in Calls, k \in Kinds : tmp'[d][k] \in {tmp[d][k], "none"}
    BY <1>5, <1>8 DEF RenameIndex, Kinds
  <2>2. \A d \in Calls : pc'[d] = "rename" =>
                /\ pc[d] = "rename" /\ loc'[d].kind = loc[d].kind
                /\ tmp'[d][loc[d].kind] \in {tmp[d][loc[d].kind], "none"}
    BY <1>3, <1>8, <2>1 DEF RenameIndex
  <2>3. \A p \in Projects \ indexed' : index'[p] = {}
    BY <1>8 DEF RenameIndex, TypeOK, WholeInv
  <2> QED BY <1>8, <2>2, <2>3 DEF RenameIndex, WholeInv
<1> QED BY <1>1, <1>2, <1>4, <1>6, <1>7, <1>8 DEF WriteStep

LEMMA WholeStep == TypeOK /\ PlaceOK /\ WholeInv /\ [Next]_vars => WholeInv'
<1> SUFFICES ASSUME TypeOK, PlaceOK, WholeInv, [Next]_vars PROVE WholeInv'
  OBVIOUS
<1>1. ASSUME NEW c \in Calls, Call(c) \/ Step(c) PROVE WholeInv'
  BY <1>1, CallFrame, WholeFrameKeeps, WriteWhole DEF Step
<1>2. ASSUME NEW p \in Procs, Crash(p) PROVE WholeFrame
  BY <1>2 DEF Crash, WholeFrame, Files, Indexes
<1>3. ASSUME NEW i \in Ids, Rot(i) \/ Age(i) PROVE WholeFrame
  BY <1>3 DEF Rot, Age, WholeFrame, Indexes, TypeOK
<1>4. CASE UNCHANGED vars
  BY <1>4 DEF WholeInv, vars, disk
<1> QED BY <1>1, <1>2, <1>3, <1>4, WholeFrameKeeps DEF Next

LEMMA WholeInit == Init => WholeInv
BY ScenariosAssumption DEF Init, WholeInv

LEMMA WholeInvariant == Spec => []WholeInv
BY TypeInvariant, WholeInit, WholeStep, PTL DEF Spec

\* No object is ever there in part, whoever crashes, fails or loses a lock.
THEOREM WholeObjects == Spec => []NoPartialObject
<1>1. WholeInv => NoPartialObject
  BY DEF WholeInv, NoPartialObject
<1> QED BY <1>1, WholeInvariant, PTL

------------------------------------------------------------------------------
(* The calls implement the abstract store *)

\* Where a collection that has listed the indexes is.
CollectPCs ==
    {"readIndex", "judge", "judgeMeta", "delete", "deleteMeta", "deleteUnpacked"}

\* No call starts to collect: it goes elsewhere, goes on, ends, or does not move.
Onward(c) ==
    \/ \E result : End(c, result)
    \/ \E where \in PCs \ CollectPCs : Goto(c, where)
    \/ \E where : Goto(c, where) /\ pc[c] \in CollectPCs
    \/ UNCHANGED pc

LEMMA OnwardShrinks ==
    ASSUME TypeOK, NEW c \in Calls, Onward(c)
    PROVE  Collecting' \subseteq Collecting
<1>1. ASSUME NEW result, End(c, result) PROVE Collecting' \subseteq Collecting
  BY <1>1 DEF End, Collecting
<1>2. ASSUME NEW where, Goto(c, where), where \in PCs \ CollectPCs \/ pc[c] \in CollectPCs
      PROVE  Collecting' \subseteq Collecting
  BY <1>2 DEF Goto, Collecting, CollectPCs, TypeOK
<1>3. CASE UNCHANGED pc
  BY <1>3 DEF Collecting
<1> QED BY <1>1, <1>2, <1>3 DEF Onward

\* When only collections end, the abstract store lets collectors stop.
LEMMA Stops ==
    ASSUME UNCHANGED <<object, index, steady>>, Collecting' \subseteq Collecting
    PROVE  Promise!Next
<1> DEFINE C == Collecting \ Collecting'
<1>1. C \in SUBSET Calls
  BY DEF Collecting
<1>2. Collecting' = Collecting \ C
  OBVIOUS
<1> HIDE DEF C
<1>3. Promise!Stop(C)
  BY <1>2 DEF Promise!Stop
<1> QED BY <1>1, <1>3 DEF Promise!Next

\* What no other abstract action accounts for lets collectors stop, at most.
LEMMA PutRefines ==
    ASSUME TypeOK, NEW c \in Calls, PutStep(c) \/ ClearStep(c)
    PROVE  Promise!Next
<1> USE DEF Files, Indexes, PCs, Resting, CollectPCs
<1>1. ASSUME AfterAssert(c) \/ AfterTouch(c) PROVE Onward(c)
  BY <1>1 DEF AfterAssert, AfterTouch, Onward, Then
<1>2. CASE PutVerify(c) \/ InsertCheck(c) \/ ReadMeta(c) \/ ReadBytes(c)
  BY <1>2, OnwardShrinks, Stops
     DEF PutVerify, InsertCheck, ReadMeta, ReadBytes, Onward, Then
<1>3. CASE InsertLock(c) \/ InsertRecheck(c) \/ TouchRead(c)
  BY <1>3, OnwardShrinks, Stops
     DEF InsertLock, AcquireLock, InsertRecheck, TouchRead, StartWrite, Onward, Then
<1>4. CASE CheckBytes(c) \/ CheckMeta(c) \/ Touch(c)
  <2>1. Onward(c)
    BY <1>1, <1>4 DEF CheckBytes, CheckMeta, Touch, Onward, Then
  <2> QED BY <1>4, <2>1, OnwardShrinks, Stops DEF CheckBytes, CheckMeta, Touch
<1>5. CASE ClearStep(c)
  BY <1>5, OnwardShrinks, Stops DEF ClearStep, ClearRemove, ClearEnd, Onward
<1> QED BY <1>2, <1>3, <1>4, <1>5 DEF PutStep

LEMMA CallRefines ==
    ASSUME TypeOK, NEW c \in Calls, Call(c)
    PROVE  Promise!Next
<1> USE DEF Files, Indexes, PCs, Resting, CollectPCs
<1>1. Onward(c)
  <2>1. CASE PutBegin(c) \/ ReadBegin(c) \/ RegisterBegin(c)
    BY <2>1 DEF PutBegin, ReadBegin, RegisterBegin, StartWrite, Onward, Then
  <2>2. CASE GcBegin(c) \/ ClearBegin(c)
    BY <2>2 DEF GcBegin, AcquireLock, ClearBegin, Onward, Then
  <2> QED BY <2>1, <2>2 DEF Call
<1>2. UNCHANGED <<object, index, steady>>
  BY DEF Call, PutBegin, ReadBegin, RegisterBegin, GcBegin, ClearBegin
<1> QED BY <1>1, <1>2, OnwardShrinks, Stops

\* A renamed object appears whole, and a renamed index lists what it says.
LEMMA WriteRefines ==
    ASSUME TypeOK, PlaceOK, WholeInv, NEW c \in Calls, WriteStep(c)
    PROVE  [Promise!Next]_(Promise!vars)
<1> USE DEF Files, Indexes, PCs, Resting, CollectPCs
<1>1. CASE RenameObject(c)
  <2>1. tmp[c]["object"] = "good"
    BY <1>1 DEF RenameObject, Renaming, WholeInv, TypeOK, Kinds
  <2>2. object' = [object EXCEPT ![At(c)] = "good"] /\ UNCHANGED <<index, steady>>
    BY <1>1, <2>1 DEF RenameObject
  <2>3. UNCHANGED Collecting
    BY <1>1 DEF RenameObject, Renaming, StartWrite, Goto, Collecting, TypeOK
  <2>4. CASE At(c) \in Ids
    BY <2>2, <2>3, <2>4 DEF Promise!Next, Promise!Insert
  <2>5. CASE At(c) \notin Ids
    BY <2>2, <2>3, <2>5 DEF Promise!vars, TypeOK
  <2> QED BY <2>4, <2>5
<1>2. CASE RenameIndex(c)
  <2>1. req[c].op = "register" /\ req[c] \in Request
    BY <1>2 DEF RenameIndex, Renaming, PlaceOK, WritePCs, TypeOK
  <2>2. req[c].project \in Projects /\ req[c].objects \in SUBSET Ids
    BY <2>1, RequestFields
  <2>3. UNCHANGED Collecting
    BY <1>2 DEF RenameIndex, Renaming, End, Waiters, Collecting
  <2>4. Promise!List(req[c].project, req[c].objects)
    BY <1>2, <2>3 DEF RenameIndex, Promise!List
  <2> QED BY <2>2, <2>4 DEF Promise!Next
<1>3. CASE Create(c) \/ Write(c) \/ WriteFault(c) \/ RenameFails(c)
  BY <1>3, OnwardShrinks, Stops DEF Create, Write, WriteFault, RenameFails, Onward, Then
<1>4. CASE RenameMeta(c) \/ RenameTouch(c)
  BY <1>4, OnwardShrinks, Stops DEF RenameMeta, RenameTouch, AfterTouch, Onward, Then
<1> QED BY <1>1, <1>2, <1>3, <1>4 DEF WriteStep

\* gc looks, skips what it cannot read, and collects what is not pinned.
LEMMA GcRefines ==
    ASSUME TypeOK, PlaceOK, WholeInv, NEW c \in Calls, GcInv(c), GcStep(c)
    PROVE  Promise!Next
<1> USE DEF Files, Indexes, PCs, Resting, CollectPCs
<1>1. CASE GcReaddir(c)
  <2>1. {s \in indexed \X Ids : s[2] \in index[s[1]]}
          = {s \in Projects \X Ids : s[2] \in index[s[1]]}
    BY DEF WholeInv, TypeOK
  <2>2. Collecting' = Collecting \cup {c}
    BY <1>1 DEF GcReaddir, Then, Goto, Collecting, TypeOK
  <2>3. Promise!Look(c)
    BY <1>1, <2>1, <2>2 DEF GcReaddir, Promise!Look
  <2> QED BY <2>3 DEF Promise!Next
<1>2. CASE GcSkipIndex(c)
  <2>1. PICK p \in loc[c].unread : steady' = [steady EXCEPT ![c] = {s \in @ : s[1] # p}]
    BY <1>2 DEF GcSkipIndex
  <2>2. p \in Projects
    BY <2>1 DEF TypeOK, Locals
  <2>3. Promise!Skip(c, p)
    BY <1>2, <2>1 DEF GcSkipIndex, Collecting, Promise!Skip
  <2> QED BY <2>2, <2>3 DEF Promise!Next
<1>3. CASE GcDelete(c)
  <2>1. PICK i \in loc[c].doomed : object' = [object EXCEPT ![i] = "none"]
    BY <1>3 DEF GcDelete
  <2>2. i \in Ids
    BY <2>1 DEF TypeOK, Locals
  <2>3. \A s \in steady[c] : s[2] # i
    BY <2>1 DEF GcInv
  <2>4. UNCHANGED <<index, steady, Collecting>> /\ c \in Collecting
    BY <1>3 DEF GcDelete, Then, Goto, Collecting, TypeOK
  <2>5. Promise!Collect(c, i)
    BY <2>1, <2>3, <2>4 DEF Promise!Collect
  <2> QED BY <2>2, <2>5 DEF Promise!Next
<1>4. CASE GcReadIndex(c) \/ GcList(c) \/ GcJudge(c) \/ GcJudgeMeta(c) \/ GcJudgedAll(c)
  BY <1>4, OnwardShrinks, Stops
     DEF GcReadIndex, GcList, GcJudge, GcJudgeMeta, GcJudgedAll, Onward, Then
<1>5. CASE GcDeleteMeta(c) \/ GcDeleteUnpacked(c) \/ GcEnd(c)
  BY <1>5, OnwardShrinks, Stops DEF GcDeleteMeta, GcDeleteUnpacked, GcEnd, Onward, Then
<1> QED BY <1>1, <1>2, <1>3, <1>4, <1>5 DEF GcStep

LEMMA StepRefines ==
    ASSUME TypeOK, PlaceOK, WholeInv, \A c \in Calls : GcInv(c), [Next]_vars
    PROVE  [Promise!Next]_(Promise!vars)
<1>1. ASSUME NEW c \in Calls, Call(c) \/ Step(c) PROVE [Promise!Next]_(Promise!vars)
  BY <1>1, CallRefines, PutRefines, WriteRefines, GcRefines DEF Step
<1>2. ASSUME NEW p \in Procs, Crash(p) PROVE Promise!Next
  <2>1. Collecting' \subseteq Collecting
    BY <1>2 DEF Crash, Collecting
  <2> QED BY <1>2, <2>1, Stops DEF Crash, Files, Indexes
<1>3. ASSUME NEW i \in Ids, Rot(i) PROVE Promise!Next
  BY <1>3 DEF Rot, Indexes, Collecting, Promise!Rot, Promise!Next
<1>4. ASSUME NEW i \in Ids, Age(i) PROVE UNCHANGED Promise!vars
  BY <1>4 DEF Age, Indexes, Collecting, Promise!vars
<1>5. CASE UNCHANGED vars
  BY <1>5 DEF vars, disk, Collecting, Promise!vars
<1> QED BY <1>1, <1>2, <1>3, <1>4, <1>5 DEF Next

\* With all their files, locks and crashes, the calls implement the store that the
\* rest of Knot relies on: objects appear whole, and only unpinned ones go.
THEOREM Refinement == Spec => ImplementsObjectStore
<1>1. Init => Promise!Init
  BY ScenariosAssumption DEF Init, Collecting, Promise!Init
<1> QED BY <1>1, StepRefines, TypeInvariant, WholeInvariant, GcInvariant, PTL
        DEF Spec, ImplementsObjectStore, Promise!Spec

------------------------------------------------------------------------------
(* How the calls end, and what they leave: what read and put promise, who    *)
(* awaits whom, and that locks, promises and temporary files go.  The        *)
(* invariant speaks of one call at a time (CallOK), of the promises of       *)
(* dedupe (PromisesOK), and of calls that run alone (SoloOK).                *)

GcSteps == {"readdir", "readIndex", "judge", "judgeMeta", "delete", "deleteMeta",
            "deleteUnpacked", "removeTmp"}
Free == {"await", "verify", "check", "lock"}  \* a put that does not own its lock yet
Hits == {"readBytes", "assert", "assertMeta", "touch", "touchRead", "readMeta"}

\* Is the object of a put stored, and described, but for what gc took from that put?
Kept(c) == object[At(c)] # "none" \/ c \in lost
Described(c) == meta[At(c)] # "none" \/ c \in lost

\* What a call has reached tells what it may rely on.
ReadOK(c) ==
    req[c].op \in {"read", "verify"}
      => /\ pc[c] \notin Free /\ \A n \in LockNames : c \notin locks[n]
         /\ \/ loc[c].buf = "good"
            \/ (outcome[c] # "ok" /\ pc[c] \in {"start", "readBytes", "assert", "done", "dead"})

DurableOK(c) ==
    req[c].op = "put"
      => /\ pc[c] \in Hits => Kept(c) /\ Described(c)
         /\ pc[c] \in WritePCs /\ loc[c].kind = "meta" => Kept(c)
         /\ pc[c] \in WritePCs /\ loc[c].kind = "touch" => Kept(c) /\ Described(c)
         /\ outcome[c] = "ok" => Kept(c) /\ Described(c)

TidyOK(c) ==
    /\ pc[c] \in Resting \cup Free => \A n \in LockNames : c \notin locks[n]
    /\ \A k \in Kinds : tmp[c][k] # "none"
          => \/ pc[c] = "dead" \/ (pc[c] \in {"write", "rename"} /\ loc[c].kind = k)
             \/ pc[c] = "done" /\ tmp[c][k] = "left"

CallOK(c) ==
    /\ pc[c] \in GcSteps => req[c].op \notin ObjectOps
    /\ req[c].op = "put" => At(c) = req[c].id
    /\ pc[c] # "done" => outcome[c] = "pending"
    /\ ReadOK(c) /\ DurableOK(c) /\ TidyOK(c)

\* A promise is that of a put under way, which does not itself await one; a put
\* that runs has left its promise; a put that awaits finds one, and what gc took
\* from that one, it took from it.
PromisesOK ==
    /\ \A p \in Procs, i \in Ids, l \in Calls :
          inflight[p][i] = l
            => /\ l \in Running /\ pc[l] # "await"
               /\ Owner[l] = p /\ req[l].op = "put" /\ At(l) = i
    /\ \A c \in Running : req[c].op = "put" /\ pc[c] # "await" => Leader(c) = c
    /\ \A c \in Calls :
          pc[c] = "await" => /\ req[c].op = "put" /\ Leader(c) # NoCall
                             /\ Leader(c) \in lost => c \in lost

\* A call that has met no other finds everything as it left it.
SoloOK(c) ==
    c \in Running /\ ~overlapped[c]
      => /\ Running = {c}
         /\ pc[c] = "readBytes" => object[At(c)] # "none"
         /\ pc[c] \in {"assertMeta", "touchRead", "readMeta", "judgeMeta"}
              => meta[At(c)] # "none"
         /\ pc[c] \in Hits /\ req[c].op = "put" => meta[At(c)] # "none"
         /\ pc[c] \in {"write", "rename"} => tmp[c][loc[c].kind] # "none"

FailedOK(c) == outcome[c] = "failed" => overlapped[c]

CallsInv ==
    /\ PromisesOK
    /\ \A c \in Calls : CallOK(c) /\ SoloOK(c) /\ FailedOK(c)

LEMMA CallsInit == Init => CallsInv
<1> SUFFICES ASSUME Init PROVE CallsInv
  OBVIOUS
<1>1. PromisesOK
  BY CallsAssumption DEF Init, PromisesOK, Running, Resting, CallsAssumption
<1>2. ASSUME NEW c \in Calls
      PROVE  CallOK(c) /\ SoloOK(c) /\ FailedOK(c)
  BY DEF Init, CallOK, ReadOK, DurableOK, TidyOK, SoloOK, FailedOK, Running, Resting, Free,
         Hits, GcSteps, WritePCs, LockNames, At, ObjectOps
<1> QED BY <1>1, <1>2 DEF CallsInv

------------------------------------------------------------------------------
(* The promises of dedupe *)

\* c goes on to where, and does nothing to the promises.
Moves(c, where) ==
    /\ where \notin Resting \cup {"await"}
    /\ pc' = [pc EXCEPT ![c] = where]
    /\ UNCHANGED <<inflight, outcome>>
    /\ \A n \in LockNames :
          /\ locks'[n] \subseteq locks[n] \cup {c}
          /\ req[c].op \in {"read", "verify"} => c \notin locks'[n]

\* c is under way, or begins without looking for a promise.
Goes(c) == pc[c] \notin {"await", "done", "dead"} /\ (pc[c] = "start" => req[c].op # "put")

\* What gc takes from a put, it takes from every put of the same object.
Shared ==
    /\ lost \subseteq lost'
    /\ \A d, e \in Calls : /\ d \in lost' \ lost /\ req[d].op = "put"
                           /\ req[e].op = "put" /\ At(e) = At(d) /\ pc[e] # "start"
                           => e \in lost'

\* Nobody's request or object changes.
Keeps ==
    /\ req' = req /\ \A d \in Calls : req[d].op = "put" => At(d)' = At(d)
    /\ lost' = lost \/ Shared

LEMMA PromisesMove ==
    ASSUME TypeOK, PlaceOK, PromisesOK, NEW c \in Calls, NEW where, Goes(c), Keeps,
           Moves(c, where)
    PROVE  PromisesOK'
<1>1. \A d \in Calls : d # c => pc'[d] = pc[d]
  BY DEF Moves, TypeOK
<1>2. pc'[c] = where /\ where \notin Resting \cup {"await"} /\ inflight' = inflight
  BY DEF Moves, TypeOK
<1>3. Running' = Running \cup {c}
  BY <1>1, <1>2 DEF Running
<1>4. ASSUME NEW p \in Procs, NEW i \in Ids, NEW l \in Calls, inflight'[p][i] = l
      PROVE  /\ l \in Running' /\ pc'[l] # "await"
             /\ Owner[l] = p /\ req'[l].op = "put" /\ At(l)' = i
  <2>1. l \in Running /\ pc[l] # "await" /\ Owner[l] = p /\ req[l].op = "put" /\ At(l) = i
    BY <1>2, <1>4 DEF PromisesOK
  <2> QED BY <1>1, <1>2, <1>3, <2>1 DEF Keeps
<1>5. ASSUME NEW d \in Running', req'[d].op = "put", pc'[d] # "await"
      PROVE  Leader(d)' = d
  <2>1. d \in Running /\ pc[d] # "await"
    BY <1>1, <1>3, <1>5 DEF Goes, Keeps, Running, Resting
  <2> QED BY <1>2, <1>5, <2>1 DEF PromisesOK, Leader, Keeps, Running
<1>6. ASSUME NEW d \in Calls, pc'[d] = "await"
      PROVE  req'[d].op = "put" /\ Leader(d)' # NoCall
  BY <1>1, <1>2, <1>6 DEF PromisesOK, Leader, Keeps
<1>7. ASSUME NEW d \in Calls, pc'[d] = "await", Leader(d)' \in lost'
      PROVE  d \in lost'
  <2>1. pc[d] = "await" /\ req[d].op = "put" /\ Leader(d)' = Leader(d)
    BY <1>1, <1>2, <1>7 DEF PromisesOK, Leader, Keeps
  <2>2. Leader(d) # NoCall /\ (Leader(d) \in lost => d \in lost)
    BY <2>1 DEF PromisesOK
  <2>3. Owner[d] \in Procs /\ At(d) \in Ids
    BY <2>1, OwnerAssumption DEF PlaceOK, ObjectOps
  <2>4. Leader(d) \in Calls /\ req[Leader(d)].op = "put" /\ At(Leader(d)) = At(d)
    BY <2>2, <2>3 DEF PromisesOK, Leader, TypeOK
  <2> QED BY <1>7, <2>1, <2>2, <2>4 DEF Keeps, Shared
<1> QED BY <1>2, <1>4, <1>5, <1>6, <1>7 DEF PromisesOK

LEMMA PromisesEnd ==
    ASSUME TypeOK, PlaceOK, PromisesOK, NEW c \in Calls, NEW result, Goes(c), Keeps,
           End(c, result), lost' = lost
    PROVE  PromisesOK'
<1> DEFINE all == {c} \cup Waiters(c)
<1>1. \A d \in Calls : pc'[d] = IF d \in all THEN "done" ELSE pc[d]
  BY DEF End
<1>2. \A p \in Procs, i \in Ids :
         inflight'[p][i] = IF inflight[p][i] = c THEN NoCall ELSE inflight[p][i]
  BY DEF End
<1>3. \A d \in all : d = c \/ pc[d] = "await"
  BY DEF Waiters
<1>4. \A d \in Waiters(c) : d \in Calls /\ inflight[Owner[c]][At(d)] = c /\ Owner[d] = Owner[c]
  BY DEF Waiters
<1>c. c \in all /\ pc'[c] = "done"
  BY <1>1
<1> HIDE DEF all
<1>5. ASSUME NEW p \in Procs, NEW i \in Ids, NEW l \in Calls, inflight'[p][i] = l
      PROVE  /\ l \in Running' /\ pc'[l] # "await"
             /\ Owner[l] = p /\ req'[l].op = "put" /\ At(l)' = i
  <2>1. inflight[p][i] = l /\ l # c
    BY <1>2, <1>5, CallsAssumption DEF CallsAssumption
  <2>2. l \in Running /\ pc[l] # "await" /\ Owner[l] = p /\ req[l].op = "put" /\ At(l) = i
    BY <2>1 DEF PromisesOK
  <2>3. pc'[l] = pc[l]
    BY <1>1, <1>3, <2>1, <2>2
  <2> QED BY <2>2, <2>3 DEF Keeps, Running
<1>6. ASSUME NEW d \in Running', req'[d].op = "put", pc'[d] # "await"
      PROVE  Leader(d)' = d
  <2>1. d \in Calls /\ d # c /\ pc'[d] = pc[d] /\ d \in Running
    <3>1. d \in Calls /\ pc'[d] \notin Resting
      BY <1>6 DEF Running
    <3> QED BY <1>1, <1>c, <3>1 DEF Running, Resting
  <2>2. Leader(d) = d /\ At(d)' = At(d)
    BY <1>6, <2>1 DEF PromisesOK, Keeps
  <2>3. Owner[d] \in Procs /\ At(d) \in Ids
    BY <1>6, <2>1, OwnerAssumption DEF Keeps, OwnerAssumption, PlaceOK, ObjectOps
  <2> QED BY <1>2, <2>1, <2>2, <2>3 DEF Leader
<1>7. ASSUME NEW d \in Calls, pc'[d] = "await"
      PROVE  /\ req'[d].op = "put" /\ Leader(d)' # NoCall
             /\ Leader(d)' \in lost' => d \in lost'
  <2>1. pc[d] = "await" /\ d \notin all
    BY <1>1, <1>7
  <2>2. /\ req[d].op = "put" /\ Leader(d) # NoCall /\ At(d)' = At(d)
        /\ Leader(d) \in lost => d \in lost
    BY <2>1 DEF PromisesOK, Keeps
  <2>3. Owner[d] \in Procs /\ At(d) \in Ids
    BY <2>2, OwnerAssumption DEF OwnerAssumption, PlaceOK, ObjectOps
  <2>4. Leader(d) # c
    <3>1. SUFFICES ASSUME Leader(d) = c PROVE d \in Waiters(c)
      BY <2>1 DEF all
    <3>2. c \in Calls /\ c # NoCall /\ Owner[c] = Owner[d]
      BY <2>3, <3>1, CallsAssumption DEF PromisesOK, Leader, CallsAssumption
    <3> QED BY <2>1, <3>1, <3>2 DEF Waiters, Leader
  <2>5. Leader(d)' = inflight'[Owner[d]][At(d)]
    BY <2>2 DEF Leader
  <2> QED BY <1>2, <2>2, <2>3, <2>4, <2>5 DEF Leader, Keeps
<1> QED BY <1>5, <1>6, <1>7 DEF PromisesOK

------------------------------------------------------------------------------
(* One step, and the other calls *)

\* What a step of c leaves to the others: their locals and locks; no temporary
\* file comes, no object or metadata goes unless it is lost to the puts of it.
Others(c) ==
    /\ req' = req
    /\ \A d \in Calls : d # c =>
          /\ loc'[d] = loc[d]
          /\ \A n \in LockNames : d \in locks'[n] => d \in locks[n]
          /\ \A k \in Kinds : tmp'[d][k] \in {tmp[d][k], "none"}
    /\ lost \subseteq lost'
    /\ \A d \in Calls : req[d].op = "put" /\ pc[d] # "start"
          => /\ object'[At(d)] = "none" => object[At(d)] = "none" \/ d \in lost'
             /\ meta'[At(d)] = "none" => meta[At(d)] = "none" \/ d \in lost'

\* Whoever else runs has met c.
Meets(c) ==
    /\ \A d \in Calls : d # c /\ overlapped[d] => overlapped'[d]
    /\ \A d \in Running : d # c => overlapped'[d]

LEMMA KeptStays ==
    ASSUME NEW c \in Calls, Others(c), NEW d \in Calls, req[d].op = "put",
           pc[d] # "start", At(d)' = At(d)
    PROVE  /\ Kept(d) => Kept(d)'
           /\ Described(d) => Described(d)'
BY DEF Others, Kept, Described

LEMMA RunnersMeet ==
    ASSUME CallsInv, NEW c \in Running, overlapped' = overlapped
    PROVE  Meets(c)
BY DEF CallsInv, SoloOK, Meets, Running

\* A call that neither moves nor ends keeps what it relies on.
LEMMA OtherStays ==
    ASSUME TypeOK, PlaceOK, CallsInv, NEW c \in Calls, Others(c), Meets(c),
           NEW d \in Calls, d # c, pc'[d] = pc[d], outcome'[d] = outcome[d]
    PROVE  CallOK(d)' /\ SoloOK(d)' /\ FailedOK(d)'
<1>1. CallOK(d) /\ SoloOK(d) /\ FailedOK(d)
  BY DEF CallsInv
<1>2. req' = req /\ loc'[d] = loc[d] /\ At(d)' = At(d)
  BY DEF Others, At
<1>4. ReadOK(d)'
  BY <1>1, <1>2 DEF CallOK, ReadOK, Others
<1>5. DurableOK(d)'
  <2>1. outcome[d] = "ok" => pc[d] = "done"
    BY <1>1 DEF CallOK
  <2> QED BY <1>1, <1>2, <2>1, KeptStays DEF CallOK, DurableOK, Hits, WritePCs
<1>6. TidyOK(d)'
  BY <1>1, <1>2 DEF CallOK, TidyOK, Others
<1>7. CallOK(d)'
  BY <1>1, <1>2, <1>4, <1>5, <1>6 DEF CallOK
<1>8. SoloOK(d)' /\ FailedOK(d)'
  BY <1>1 DEF Meets, SoloOK, FailedOK, Running
<1> QED BY <1>7, <1>8

\* A put that awaited the promise of c ends as c does.
LEMMA WaiterEnds ==
    ASSUME TypeOK, PlaceOK, CallsInv, NEW c \in Calls, Others(c), Meets(c),
           NEW result, End(c, result), CallOK(c)', req[c].op = "put" => At(c)' = At(c),
           NEW d \in Waiters(c), d # c, lost' = lost
    PROVE  CallOK(d)' /\ SoloOK(d)' /\ FailedOK(d)'
<1>1. /\ d \in Calls /\ pc[d] = "await" /\ Owner[d] = Owner[c]
      /\ inflight[Owner[c]][At(d)] = c
  BY DEF Waiters
<1>2. /\ CallOK(d) /\ req[d].op = "put" /\ At(d) \in Ids
      /\ c \in lost => d \in lost
  BY <1>1 DEF CallsInv, PromisesOK, PlaceOK, ObjectOps, Leader
<1>3. req[c].op = "put" /\ At(c) = At(d)
  BY <1>1, <1>2, OwnerAssumption DEF CallsInv, PromisesOK, OwnerAssumption
<1>4. req' = req /\ loc'[d] = loc[d] /\ At(d)' = At(d)
  BY <1>1 DEF Others, At
<1>5. /\ pc'[d] = "done" /\ outcome'[d] = result /\ outcome'[c] = result
      /\ \A n \in LockNames : d \in locks'[n] => d \in locks[n]
  BY <1>1 DEF End, Others
<1>6. ReadOK(d)' /\ DurableOK(d)'
  BY <1>2, <1>3, <1>4, <1>5 DEF CallOK, ReadOK, DurableOK, Kept, Described, Hits, WritePCs
<1>7. TidyOK(d)'
  <2>1. \A n \in LockNames : d \notin locks'[n]
    BY <1>1, <1>2, <1>5 DEF CallOK, TidyOK, Free
  <2>2. \A k \in Kinds : tmp'[d][k] = "none"
    BY <1>1, <1>2 DEF CallOK, TidyOK, Others
  <2> QED BY <2>1, <2>2 DEF TidyOK
<1>8. CallOK(d)'
  BY <1>2, <1>4, <1>5, <1>6, <1>7 DEF CallOK, GcSteps
<1>9. SoloOK(d)' /\ FailedOK(d)'
  <2>1. d \in Running
    BY <1>1 DEF Running, Resting
  <2> QED BY <1>5, <2>1 DEF Meets, SoloOK, FailedOK, Running, Resting
<1> QED BY <1>8, <1>9

\* What is left to show of a step that moves c on.
LEMMA MoveKeeps ==
    ASSUME TypeOK, PlaceOK, CallsInv, NEW c \in Calls, NEW where, Goes(c),
           Others(c), Meets(c), req[c].op = "put" => At(c)' = At(c), Moves(c, where),
           CallOK(c)', SoloOK(c)', lost' = lost \/ Shared
    PROVE  CallsInv'
<1>1. PromisesOK'
  <2>1. Keeps
    BY DEF Keeps, Others, At
  <2> QED BY <2>1, PromisesMove DEF CallsInv
<1>2. FailedOK(c)'
  BY DEF CallsInv, CallOK, FailedOK, Moves, Goes
<1>3. ASSUME NEW d \in Calls, d # c
      PROVE  CallOK(d)' /\ SoloOK(d)' /\ FailedOK(d)'
  <2>1. pc'[d] = pc[d] /\ outcome'[d] = outcome[d]
    BY <1>3 DEF Moves, TypeOK
  <2> QED BY <1>3, <2>1, OtherStays
<1> QED BY <1>1, <1>2, <1>3 DEF CallsInv

\* What is left to show of a step that ends c.
LEMMA EndKeeps ==
    ASSUME TypeOK, PlaceOK, CallsInv, NEW c \in Calls, NEW result, Goes(c),
           Others(c), Meets(c), req[c].op = "put" => At(c)' = At(c), End(c, result),
           req[c].op \in {"read", "verify"} /\ result = "ok" => loc'[c].buf = "good",
           req[c].op = "put" /\ result = "ok" => Kept(c)' /\ Described(c)',
           \A k \in Kinds : tmp'[c][k] \in {"none", "left"}, lost' = lost,
           result = "failed" => overlapped'[c]
    PROVE  CallsInv'
<1>1. PromisesOK'
  <2>1. Keeps
    BY DEF Keeps, Others, At
  <2> QED BY <2>1, PromisesEnd DEF CallsInv
<1>2. /\ pc'[c] = "done" /\ outcome'[c] = result
      /\ \A n \in LockNames : c \notin locks'[n]
      /\ req' = req
  BY DEF End, Released, Others
<1>3. CallOK(c)'
  <2>1. req[c].op = "put" => At(c)' = req'[c].id
    BY <1>2 DEF CallsInv, CallOK
  <2> QED BY <1>2, <2>1 DEF CallOK, ReadOK, DurableOK, TidyOK, GcSteps, Hits, WritePCs, Free
<1>4. SoloOK(c)' /\ FailedOK(c)'
  BY <1>2 DEF SoloOK, FailedOK, Running, Resting
<1>5. ASSUME NEW d \in Calls, d # c
      PROVE  CallOK(d)' /\ SoloOK(d)' /\ FailedOK(d)'
  <2>1. CASE d \in Waiters(c)
    BY <1>3, <1>5, <2>1, WaiterEnds
  <2>2. CASE d \notin Waiters(c)
    <3>1. pc'[d] = pc[d] /\ outcome'[d] = outcome[d]
      BY <1>5, <2>2 DEF End
    <3> QED BY <1>5, <3>1, OtherStays
  <2> QED BY <2>1, <2>2
<1> QED BY <1>1, <1>3, <1>4, <1>5 DEF CallsInv

------------------------------------------------------------------------------
(* Calls begin; processes die; the disk rots *)

LEMMA BeginMeets ==
    ASSUME TypeOK, NEW c \in Calls, NEW op, Begin(c, op)
    PROVE  /\ Meets(c)
           /\ ~overlapped'[c] => Running = {}
           /\ pc[c] = "start" /\ req[c].op = op /\ req' = req
<1>1. \A d \in Calls : overlapped'[d] = IF d = c THEN Running # {}
                                        ELSE overlapped[d] \/ d \in Running
  BY DEF Begin
<1>2. \A d \in Calls : d # c /\ (overlapped[d] \/ d \in Running) => overlapped'[d]
  BY <1>1, Zenon
<1>3. Meets(c)
  BY <1>2 DEF Meets, Running
<1>4. ~overlapped'[c] => Running = {}
  BY <1>1, Zenon
<1> QED BY <1>3, <1>4 DEF Begin

\* What a call that has just begun and moved on relies on.
LEMMA BegunOK ==
    ASSUME TypeOK, PlaceOK, CallsInv, NEW c \in Calls, NEW op, Begin(c, op),
           op # "put", NEW where, Moves(c, where), Others(c),
           op \in {"read", "verify"} => where = "readBytes",
           where = "readBytes" => object'[At(c)'] # "none",
           where \notin {"deleteMeta", "judgeMeta", "assertMeta", "touchRead", "readMeta",
                         "write", "rename"},
           where \in GcSteps => op \notin ObjectOps,
           where \in Free => locks' = locks,
           where \in WritePCs => loc'[c].kind # "touch",
           UNCHANGED tmp
    PROVE  CallOK(c)' /\ SoloOK(c)'
<1>1. pc[c] = "start" /\ req[c].op = op /\ req' = req /\ CallOK(c)
  BY BeginMeets DEF CallsInv
<1>2. pc'[c] = where /\ where \notin Resting /\ outcome'[c] = "pending"
  BY <1>1 DEF Moves, TypeOK, CallOK
<1>3. ReadOK(c)' /\ DurableOK(c)'
  BY <1>1, <1>2 DEF ReadOK, DurableOK, Moves, Free
<1>4. TidyOK(c)'
  BY <1>1, <1>2 DEF CallOK, TidyOK, Resting, Free
<1>5. CallOK(c)'
  BY <1>1, <1>2, <1>3, <1>4 DEF CallOK
<1>6. ~overlapped'[c] => Running' = {c}
  BY <1>2, BeginMeets DEF Running, Moves, TypeOK
<1>7. SoloOK(c)'
  BY <1>1, <1>2, <1>6 DEF SoloOK, At, Hits, WritePCs
<1> QED BY <1>5, <1>7

LEMMA PutBeginKeeps ==
    ASSUME TypeOK, PlaceOK, CallsInv, NEW c \in Calls, PutBegin(c)
    PROVE  CallsInv'
<1>1. /\ Meets(c)
      /\ ~overlapped'[c] => Running = {}
      /\ pc[c] = "start" /\ req[c].op = "put" /\ req' = req
      /\ UNCHANGED <<Files, Indexes, locks, loc, outcome>>
      /\ lost \subseteq lost' /\ lost' \subseteq lost \cup {c}
  BY BeginMeets DEF PutBegin
<1>2. Others(c) /\ \A d \in Calls : At(d)' = At(d)
  BY <1>1 DEF Others, Files, At, TypeOK
<1>3. CallOK(c) /\ PromisesOK /\ Owner[c] \in Procs /\ At(c) \in Ids
  BY <1>1, OwnerAssumption DEF CallsInv, PlaceOK, ObjectOps, OwnerAssumption
<1>4. PICK where \in {"await", "verify"} :
         /\ pc' = [pc EXCEPT ![c] = where]
         /\ where = "await" => /\ Leader(c) # NoCall /\ inflight' = inflight
                               /\ Leader(c) \in lost => c \in lost'
         /\ where = "verify" =>
               Leader(c) = NoCall /\ inflight' = [inflight EXCEPT ![Owner[c]][At(c)] = c]
  BY DEF PutBegin, Goto
<1>5. pc'[c] = where /\ \A d \in Calls : d # c => pc'[d] = pc[d]
  BY <1>4 DEF TypeOK
<1>6. Running' = Running \cup {c} /\ c \notin Running
  BY <1>1, <1>5 DEF Running, Resting
<1>7. CallOK(c)'
  <2>1. outcome'[c] = "pending" /\ \A n \in LockNames : c \notin locks'[n]
    BY <1>1, <1>3 DEF CallOK, TidyOK, Resting
  <2>2. ReadOK(c)' /\ DurableOK(c)'
    BY <1>1, <1>5, <2>1 DEF ReadOK, DurableOK, Hits, WritePCs
  <2>3. TidyOK(c)'
    BY <1>1, <1>3, <1>5, <2>1 DEF CallOK, TidyOK, Files
  <2> QED BY <1>1, <1>2, <1>3, <1>5, <2>1, <2>2, <2>3 DEF CallOK, GcSteps
<1>8. SoloOK(c)' /\ FailedOK(c)'
  <2>1. ~overlapped'[c] => Running' = {c}
    BY <1>1, <1>6
  <2>2. outcome'[c] = "pending"
    BY <1>1, <1>3 DEF CallOK
  <2> QED BY <1>5, <2>1, <2>2 DEF SoloOK, FailedOK, Hits, WritePCs
<1>9. PromisesOK'
  <2>1. ASSUME NEW p \in Procs, NEW i \in Ids, NEW l \in Calls, inflight'[p][i] = l
        PROVE  /\ l \in Running' /\ pc'[l] # "await"
               /\ Owner[l] = p /\ req'[l].op = "put" /\ At(l)' = i
    <3>1. CASE inflight[p][i] = l
      BY <1>1, <1>2, <1>3, <1>5, <1>6, <3>1 DEF PromisesOK
    <3>2. CASE inflight[p][i] # l
      <4>1. where = "verify" /\ p = Owner[c] /\ i = At(c) /\ l = c
        BY <1>3, <1>4, <2>1, <3>2 DEF TypeOK
      <4> QED BY <1>1, <1>2, <1>5, <1>6, <4>1
    <3> QED BY <3>1, <3>2
  <2>2. ASSUME NEW d \in Calls, d # c, req[d].op = "put", Leader(d) # NoCall
        PROVE  Leader(d)' = Leader(d)
    <3>1. Owner[d] \in Procs /\ At(d) \in Ids
      BY <2>2, OwnerAssumption DEF PlaceOK, ObjectOps, OwnerAssumption
    <3>2. inflight'[Owner[d]][At(d)] = inflight[Owner[d]][At(d)]
      <4>1. CASE where = "await"
        BY <1>4, <4>1
      <4>2. CASE where = "verify"
        <5>1. /\ inflight \in [Procs -> [Ids -> Calls \cup {NoCall}]]
              /\ inflight' = [inflight EXCEPT ![Owner[c]][At(c)] = c]
              /\ Owner[d] # Owner[c] \/ At(d) # At(c)
          BY <1>4, <2>2, <4>2 DEF Leader, TypeOK
        <5> QED BY <1>3, <3>1, <5>1
      <4> QED BY <4>1, <4>2
    <3>3. At(d)' = At(d)
      BY <1>2
    <3>4. Leader(d)' = inflight'[Owner[d]][At(d)]
      BY <3>3 DEF Leader
    <3> QED BY <3>2, <3>4 DEF Leader
  <2>3. ASSUME NEW d \in Calls, d \in Running', req'[d].op = "put", pc'[d] # "await"
        PROVE  Leader(d)' = d
    <3>1. CASE d = c
      BY <1>2, <1>3, <1>4, <1>5, <2>3, <3>1 DEF Leader, TypeOK
    <3>2. CASE d # c
      BY <1>1, <1>3, <1>5, <1>6, <2>2, <2>3, <3>2, CallsAssumption
         DEF PromisesOK, CallsAssumption
    <3> QED BY <3>1, <3>2
  <2>4. ASSUME NEW d \in Calls, pc'[d] = "await"
        PROVE  /\ req'[d].op = "put" /\ Leader(d)' # NoCall
               /\ Leader(d)' \in lost' => d \in lost'
    <3>a. ASSUME NEW e \in Calls, pc[e] = "start" PROVE \A p \in Procs, i \in Ids : inflight[p][i] # e
      BY <1>3, <3>a DEF PromisesOK, Running, Resting
    <3>1. CASE d = c
      <4>1. Leader(c)' = Leader(c) /\ Leader(c) # c
        BY <1>1, <1>2, <1>3, <1>4, <1>5, <2>4, <3>1, <3>a DEF Leader
      <4> QED BY <1>1, <1>4, <1>5, <2>4, <3>1, <4>1
    <3>2. CASE d # c
      <4>1. /\ pc[d] = "await" /\ req[d].op = "put" /\ Leader(d) # NoCall
            /\ Leader(d) \in lost => d \in lost
        BY <1>3, <1>5, <2>4, <3>2 DEF PromisesOK
      <4>2. Leader(d)' = Leader(d)
        BY <2>2, <3>2, <4>1
      <4>3. Leader(d) # c
        <5>1. Owner[d] \in Procs /\ At(d) \in Ids
          BY <4>1, OwnerAssumption DEF PlaceOK, ObjectOps
        <5> QED BY <1>1, <3>a, <5>1 DEF Leader
      <4> QED BY <1>1, <4>1, <4>2, <4>3
    <3> QED BY <3>1, <3>2
  <2> QED BY <2>1, <2>3, <2>4 DEF PromisesOK, Running
<1>10. ASSUME NEW d \in Calls, d # c PROVE CallOK(d)' /\ SoloOK(d)' /\ FailedOK(d)'
  BY <1>1, <1>2, <1>5, <1>10, OtherStays
<1> QED BY <1>7, <1>8, <1>9, <1>10 DEF CallsInv

LEMMA CallKeeps ==
    ASSUME TypeOK, PlaceOK, TypeOK', CallsInv, NEW c \in Calls, Call(c)
    PROVE  CallsInv'
<1>1. CASE PutBegin(c)
  BY <1>1, PutBeginKeeps
<1>2. CASE ReadBegin(c)
  <2>1. PICK op \in {"read", "verify"} : Begin(c, op)
    BY <1>2 DEF ReadBegin
  <2>2. Goes(c) /\ Meets(c) /\ UNCHANGED <<Files, loc, lost>> /\ req' = req
    BY <1>2, <2>1, BeginMeets DEF ReadBegin, Goes
  <2>3. CASE object[At(c)] = "none" /\ End(c, "missing")
    <3>1. Others(c)
      BY <2>2, <2>3 DEF Others, Files, End, Released, TypeOK
    <3>2. \A k \in Kinds : tmp'[c][k] = "none"
      BY <2>1, <2>2, BeginMeets DEF CallsInv, CallOK, TidyOK, Files
    <3> QED BY <2>2, <2>3, <3>1, <3>2, EndKeeps DEF At
  <2>4. CASE object[At(c)] # "none" /\ Then(c, "readBytes")
    <3>1. Moves(c, "readBytes")
      <4>1. \A n \in LockNames : c \notin locks[n]
        BY <2>1, BeginMeets DEF CallsInv, CallOK, TidyOK, Resting
      <4> QED BY <2>4, <4>1 DEF Moves, Then, Goto, Control, Resting, TypeOK
    <3>2. Others(c)
      BY <2>2, <2>4 DEF Others, Files, Then, Control, TypeOK
    <3>3. CallOK(c)' /\ SoloOK(c)'
      BY <2>1, <2>2, <2>4, <3>1, <3>2, BegunOK DEF Files, At, GcSteps, Free, WritePCs
    <3> QED BY <2>2, <3>1, <3>2, <3>3, MoveKeeps DEF At
  <2> QED BY <1>2, <2>3, <2>4 DEF ReadBegin
<1>3. CASE RegisterBegin(c)
  <2>1. /\ Begin(c, "register") /\ UNCHANGED <<Files, Control, lost>>
        /\ pc' = [pc EXCEPT ![c] = "create"] /\ loc' = [loc EXCEPT ![c].kind = "index"]
    BY <1>3 DEF RegisterBegin, StartWrite, Goto
  <2>2. Goes(c) /\ Meets(c) /\ req' = req /\ req[c].op = "register"
    BY <2>1, BeginMeets DEF Goes
  <2>3. Moves(c, "create") /\ Others(c) /\ loc'[c].kind = "index"
    BY <2>1, <2>2 DEF Moves, Others, Files, Control, Resting, TypeOK, Locals
  <2>4. CallOK(c)' /\ SoloOK(c)'
    BY <2>1, <2>3, BegunOK DEF Files, Control, GcSteps, Free, WritePCs
  <2> QED BY <2>1, <2>2, <2>3, <2>4, MoveKeeps
<1>4. CASE GcBegin(c)
  <2>1. /\ Begin(c, "gc") /\ UNCHANGED <<Files, loc, lost>>
        /\ AcquireLock(c, GcLock, "readdir")
    BY <1>4 DEF GcBegin
  <2>2. Goes(c) /\ Meets(c) /\ req' = req /\ req[c].op = "gc" /\ pc[c] = "start"
    BY <2>1, BeginMeets DEF Goes
  <2>3. CASE locks[GcLock] # {} /\ End(c, "failed")
    <3>1. Others(c)
      BY <2>1, <2>2, <2>3 DEF Others, Files, End, Released, TypeOK
    <3>2. \A k \in Kinds : tmp'[c][k] = "none"
      BY <2>1, <2>2 DEF CallsInv, CallOK, TidyOK, Files
    <3>3. overlapped'[c]
      <4>1. PICK d \in Calls : d \in locks[GcLock]
        BY <2>3 DEF TypeOK, LockNames
      <4>2. d \in Running
        BY <4>1 DEF CallsInv, CallOK, TidyOK, Running, LockNames
      <4> QED BY <2>1, <4>2, BeginMeets
    <3> QED BY <2>1, <2>2, <2>3, <3>1, <3>2, <3>3, EndKeeps
  <2>4. CASE /\ locks' = [locks EXCEPT ![GcLock] = @ \cup {c}]
             /\ Goto(c, "readdir")
             /\ UNCHANGED <<inflight, outcome>>
    <3>1. Moves(c, "readdir") /\ Others(c)
      BY <2>1, <2>2, <2>4 DEF Moves, Others, Files, Goto, Resting, TypeOK
    <3>2. CallOK(c)' /\ SoloOK(c)'
      BY <2>1, <3>1, BegunOK DEF Files, ObjectOps, Free, WritePCs
    <3> QED BY <2>1, <2>2, <3>1, <3>2, MoveKeeps
  <2>5. CASE End(c, "fault")
    <3>1. Others(c)
      BY <2>1, <2>2, <2>5 DEF Others, Files, End, Released, TypeOK
    <3>2. \A k \in Kinds : tmp'[c][k] = "none"
      BY <2>1, <2>2 DEF CallsInv, CallOK, TidyOK, Files
    <3> QED BY <2>1, <2>2, <2>5, <3>1, <3>2, EndKeeps
  <2> QED BY <2>1, <2>3, <2>4, <2>5 DEF AcquireLock
<1>5. CASE ClearBegin(c)
  <2>1. /\ Begin(c, "clearOrphans") /\ UNCHANGED <<Files, lost>> /\ Then(c, "removeTmp")
        /\ \A d \in Calls : d # c => loc'[d] = loc[d]
    BY <1>5 DEF ClearBegin, TypeOK
  <2>2. Goes(c) /\ Meets(c) /\ req' = req /\ req[c].op = "clearOrphans"
    BY <2>1, BeginMeets DEF Goes
  <2>3. Moves(c, "removeTmp") /\ Others(c)
    BY <2>1, <2>2 DEF Moves, Then, Goto, Control, Others, Files, Resting, TypeOK
  <2>4. CallOK(c)' /\ SoloOK(c)'
    BY <2>1, <2>3, BegunOK DEF Files, ObjectOps, Free, WritePCs
  <2> QED BY <2>1, <2>2, <2>3, <2>4, MoveKeeps
<1> QED BY <1>1, <1>2, <1>3, <1>4, <1>5 DEF Call

\* A crash ends the calls of a process where they are.
LEMMA CrashKeeps ==
    ASSUME TypeOK, PlaceOK, CallsInv, NEW p \in Procs, Crash(p)
    PROVE  CallsInv'
<1> DEFINE dying == {c \in Running : Owner[c] = p}
<1>1. /\ \A c \in Calls : pc'[c] = IF c \in dying THEN "dead" ELSE pc[c]
      /\ \A n \in LockNames : locks'[n] = locks[n] \ dying
      /\ inflight' = [inflight EXCEPT ![p] = [i \in Ids |-> NoCall]]
      /\ UNCHANGED <<Files, Fixed, loc, outcome, lost>>
  BY DEF Crash
<1>2. UNCHANGED <<object, meta, tmp, req, overlapped>> /\ \A c \in Calls : At(c)' = At(c)
  BY <1>1 DEF Files, Fixed, At
<1>3. Running' = Running \ dying
  BY <1>1 DEF Running, Resting
<1>4. \A c \in dying : c \in Running /\ Owner[c] = p /\ c \in Calls
  BY DEF Running
<1>5. \A c \in Running : Owner[c] = p => c \in dying
  OBVIOUS
<1> HIDE DEF dying
<1>6. \A c \in Calls : (Kept(c) <=> Kept(c)') /\ (Described(c) <=> Described(c)')
  BY <1>1, <1>2 DEF Kept, Described
<1>7. ASSUME NEW c \in Calls
      PROVE  CallOK(c)' /\ SoloOK(c)' /\ FailedOK(c)'
  <2>1. CallOK(c) /\ SoloOK(c) /\ FailedOK(c)
    BY DEF CallsInv
  <2>2. CASE c \in dying
    <3>1. pc'[c] = "dead" /\ outcome'[c] = "pending"
      BY <1>1, <1>4, <2>1, <2>2 DEF CallOK, Running, Resting
    <3>2. \A n \in LockNames : c \notin locks'[n]
      BY <1>1, <2>2
    <3>3. CallOK(c)'
      BY <1>2, <2>1, <3>1, <3>2 DEF CallOK, ReadOK, DurableOK, TidyOK, Hits, WritePCs, GcSteps, Free
    <3>4. c \notin Running'
      BY <3>1 DEF Running, Resting
    <3> QED BY <3>1, <3>3, <3>4 DEF SoloOK, FailedOK
  <2>3. CASE c \notin dying
    <3>1. pc'[c] = pc[c] /\ outcome'[c] = outcome[c] /\ loc'[c] = loc[c] /\ lost' = lost
      BY <1>1, <2>3
    <3>2. ReadOK(c)' /\ TidyOK(c)'
      BY <1>1, <1>2, <2>1, <2>3, <3>1 DEF CallOK, ReadOK, TidyOK
    <3>3. DurableOK(c)'
      BY <1>2, <1>6, <2>1, <3>1 DEF CallOK, DurableOK
    <3>4. CallOK(c)'
      BY <1>2, <2>1, <3>1, <3>2, <3>3 DEF CallOK
    <3>5. SoloOK(c)' /\ FailedOK(c)'
      BY <1>2, <1>3, <2>1, <2>3, <3>1 DEF SoloOK, FailedOK
    <3> QED BY <3>4, <3>5
  <2> QED BY <2>2, <2>3
<1>8. PromisesOK'
  <2>1. \A q \in Procs, i \in Ids :
           inflight'[q][i] = IF q = p THEN NoCall ELSE inflight[q][i]
    BY <1>1 DEF TypeOK
  <2>2. ASSUME NEW q \in Procs, NEW i \in Ids, NEW l \in Calls, inflight'[q][i] = l
        PROVE  /\ l \in Running' /\ pc'[l] # "await"
               /\ Owner[l] = q /\ req'[l].op = "put" /\ At(l)' = i
    <3>1. q # p /\ inflight[q][i] = l
      BY <2>1, <2>2, CallsAssumption DEF CallsAssumption
    <3>2. l \in Running /\ pc[l] # "await" /\ Owner[l] = q /\ req[l].op = "put" /\ At(l) = i
      BY <3>1 DEF CallsInv, PromisesOK
    <3>3. l \notin dying
      BY <1>4, <3>1, <3>2
    <3> QED BY <1>1, <1>2, <1>3, <3>2, <3>3
  <2>3. ASSUME NEW d \in Calls, d \in Running', req[d].op = "put"
        PROVE  Leader(d)' = Leader(d)
    <3>1. Owner[d] \in Procs /\ At(d) \in Ids /\ Owner[d] # p
      BY <1>3, <1>5, <2>3, OwnerAssumption DEF PlaceOK, ObjectOps, OwnerAssumption
    <3> QED BY <1>2, <2>1, <3>1 DEF Leader
  <2>4. ASSUME NEW d \in Calls, d \in Running', req'[d].op = "put", pc'[d] # "await"
        PROVE  Leader(d)' = d
    BY <1>1, <1>2, <1>3, <2>3, <2>4 DEF CallsInv, PromisesOK
  <2>5. ASSUME NEW d \in Calls, pc'[d] = "await"
        PROVE  /\ req'[d].op = "put" /\ Leader(d)' # NoCall
               /\ Leader(d)' \in lost' => d \in lost'
    <3>1. pc[d] = "await" /\ d \in Running'
      BY <1>1, <2>5 DEF Running, Resting
    <3> QED BY <1>1, <1>2, <2>3, <3>1 DEF CallsInv, PromisesOK
  <2> QED BY <2>2, <2>4, <2>5 DEF PromisesOK, Running
<1> QED BY <1>7, <1>8 DEF CallsInv

\* Rotten bytes are still there, and so are old metadata.
LEMMA DiskKeeps ==
    ASSUME TypeOK, PlaceOK, CallsInv, NEW i \in Ids, Rot(i) \/ Age(i)
    PROVE  CallsInv'
<1>1. /\ UNCHANGED <<tmp, locks, inflight, outcome, req, overlapped, pc, loc, lost>>
      /\ \A j \in Ids : object'[j] = "none" <=> object[j] = "none"
      /\ \A j \in Ids : meta'[j] = "none" <=> meta[j] = "none"
  BY DEF Rot, Age, Control, Fixed, TypeOK
<1>2. \A c \in Calls : req[c].op = "put"
         => (Kept(c) <=> Kept(c)') /\ (Described(c) <=> Described(c)')
  BY <1>1 DEF Kept, Described, At, PlaceOK, ObjectOps
<1>3. PromisesOK'
  BY <1>1 DEF CallsInv, PromisesOK, Running, Leader, At
<1>4. ASSUME NEW c \in Calls
      PROVE  CallOK(c)' /\ SoloOK(c)' /\ FailedOK(c)'
  <2>1. CallOK(c) /\ SoloOK(c) /\ FailedOK(c) /\ At(c)' = At(c)
    BY <1>1 DEF CallsInv, At
  <2>2. req[c].op \in ObjectOps \/ pc[c] = "judgeMeta" => At(c) \in Ids
    BY DEF PlaceOK
  <2>3. ReadOK(c)' /\ DurableOK(c)' /\ TidyOK(c)'
    BY <1>1, <1>2, <2>1, <2>2 DEF CallOK, ReadOK, DurableOK, TidyOK, ObjectOps
  <2>4. CallOK(c)' /\ FailedOK(c)'
    BY <1>1, <2>1, <2>3 DEF CallOK, FailedOK
  <2>5. SoloOK(c)'
    <3>1. pc[c] \in Hits => At(c) \in Ids
      BY DEF PlaceOK, ObjectPCs, Hits
    <3> QED BY <1>1, <2>1, <2>2, <3>1 DEF SoloOK, Running, Hits
  <2> QED BY <2>4, <2>5
<1> QED BY <1>3, <1>4 DEF CallsInv

------------------------------------------------------------------------------
(* put, read and verifyObject *)

\* A step that changes neither the files nor the locals of a call.
Quiet == UNCHANGED <<Files, Fixed, loc, lost>>

LEMMA QuietOthers ==
    ASSUME TypeOK, CallsInv, NEW c \in Running, Quiet,
           \A n \in LockNames : locks'[n] \subseteq locks[n] \cup {c}
    PROVE  /\ Others(c) /\ Meets(c)
           /\ At(c)' = At(c) /\ loc'[c] = loc[c] /\ req' = req
           /\ Kept(c)' <=> Kept(c)
           /\ Described(c)' <=> Described(c)
<1>1. Meets(c)
  BY RunnersMeet DEF Quiet, Fixed
<1> QED BY <1>1 DEF Quiet, Files, Fixed, Others, At, Kept, Described, Running

\* A call under way, except at its temporary file, ends.
LEMMA QuietEnd ==
    ASSUME TypeOK, PlaceOK, CallsInv, NEW c \in Running, NEW result, Quiet,
           End(c, result), pc[c] \notin {"await", "write", "rename"},
           req[c].op \in {"read", "verify"} /\ result = "ok" => loc[c].buf = "good",
           req[c].op = "put" /\ result = "ok" => Kept(c) /\ Described(c),
           result = "failed" => overlapped[c]
    PROVE  CallsInv'
<1>1. c \in Calls /\ Goes(c) /\ CallOK(c)
  BY DEF Running, Resting, Goes, CallsInv
<1>2. \A n \in LockNames : locks'[n] \subseteq locks[n] \cup {c}
  BY DEF End, Released
<1>3. \A k \in Kinds : tmp'[c][k] = "none"
  BY <1>1 DEF CallOK, TidyOK, Quiet, Files, Running, Resting
<1> QED BY <1>1, <1>2, <1>3, QuietOthers, EndKeeps DEF Quiet, Fixed

\* A call under way, except at its temporary file, goes on.
LEMMA QuietMove ==
    ASSUME TypeOK, PlaceOK, CallsInv, NEW c \in Running, NEW where, Quiet,
           Moves(c, where), pc[c] \notin {"await", "write", "rename"},
           where \notin WritePCs \cup {"deleteMeta"},
           where \in GcSteps => req[c].op \notin ObjectOps,
           where \in Free => pc[c] \in Free /\ locks' = locks,
           req[c].op \in {"read", "verify"} => where \in {"readBytes", "assert"}
                                                 \/ loc[c].buf = "good",
           req[c].op = "put" /\ where \in Hits => Kept(c) /\ Described(c),
           ~overlapped[c] =>
             /\ where = "readBytes" => object[At(c)] # "none"
             /\ where \in {"assertMeta", "touchRead", "readMeta", "judgeMeta"}
                  => meta[At(c)] # "none"
             /\ where \in Hits /\ req[c].op = "put" => meta[At(c)] # "none"
    PROVE  CallsInv'
<1>1. c \in Calls /\ Goes(c) /\ CallOK(c) /\ SoloOK(c)
  BY DEF Running, Resting, Goes, CallsInv
<1>2. /\ Others(c) /\ Meets(c)
      /\ At(c)' = At(c) /\ loc'[c] = loc[c] /\ req' = req
      /\ Kept(c)' <=> Kept(c)
      /\ Described(c)' <=> Described(c)
  BY QuietOthers DEF Moves
<1>3. /\ pc'[c] = where /\ where \notin Resting \cup {"await"} /\ outcome'[c] = "pending"
      /\ Running' = Running
  BY <1>1 DEF Moves, TypeOK, CallOK, Running, Resting
<1>4. CallOK(c)'
  <2>1. ReadOK(c)'
    BY <1>1, <1>2, <1>3 DEF CallOK, ReadOK, Moves
  <2>2. DurableOK(c)'
    BY <1>2, <1>3 DEF DurableOK
  <2>3. TidyOK(c)'
    BY <1>1, <1>3 DEF CallOK, TidyOK, Free, Quiet, Files, Running, Resting
  <2> QED BY <1>1, <1>2, <1>3, <2>1, <2>2, <2>3 DEF CallOK
<1>5. SoloOK(c)'
  BY <1>1, <1>2, <1>3 DEF SoloOK, Quiet, Files, Fixed, WritePCs
<1> QED BY <1>1, <1>2, <1>4, <1>5, MoveKeeps DEF Quiet

LEMMA ThenMoves ==
    ASSUME CallsInv, NEW c \in Calls, NEW where, Then(c, where),
           where \notin Resting \cup {"await"}
    PROVE  Moves(c, where)
BY DEF Moves, Then, Goto, Control, CallsInv, CallOK, ReadOK

\* The step that starts writeFileAtomic.
LEMMA CreateMove ==
    ASSUME TypeOK, PlaceOK, CallsInv, NEW c \in Running, pc[c] # "await", Others(c),
           Moves(c, "create"), UNCHANGED overlapped,
           At(c)' = At(c), loc'[c].buf = loc[c].buf, lost' = lost,
           \A k \in Kinds : tmp'[c][k] = "none",
           req[c].op \in {"read", "verify"} => loc[c].buf = "good",
           req[c].op = "put" => /\ loc'[c].kind = "meta" => Kept(c)'
                                /\ loc'[c].kind = "touch" => Kept(c)' /\ Described(c)'
    PROVE  CallsInv'
<1>1. c \in Calls /\ Goes(c) /\ CallOK(c) /\ SoloOK(c) /\ req' = req
  BY DEF Running, Resting, Goes, CallsInv, Others
<1>2. pc'[c] = "create" /\ outcome'[c] = "pending" /\ Running' = Running
  BY <1>1 DEF Moves, TypeOK, CallOK, Running, Resting
<1>3. CallOK(c)'
  <2>1. ReadOK(c)' /\ DurableOK(c)' /\ TidyOK(c)'
    BY <1>1, <1>2 DEF ReadOK, DurableOK, TidyOK, Hits, Resting, Free, Moves
  <2> QED BY <1>1, <1>2, <2>1 DEF CallOK, GcSteps
<1>4. SoloOK(c)'
  BY <1>1, <1>2 DEF SoloOK, Hits
<1>5. Meets(c)
  BY RunnersMeet
<1> QED BY <1>1, <1>3, <1>4, <1>5, MoveKeeps

\* Past assertObjectValid.
LEMMA AfterAssertKeeps ==
    ASSUME TypeOK, PlaceOK, CallsInv, NEW c \in Running, pc[c] \in {"assert", "assertMeta"},
           req[c].op \in {"read", "verify"} => loc[c].buf = "good", Quiet, AfterAssert(c)
    PROVE  CallsInv'
<1>1. CallOK(c) /\ SoloOK(c) /\ c \in Calls
  BY DEF CallsInv, Running
<1>2. req[c].op = "put" => Kept(c) /\ Described(c)
  BY <1>1 DEF CallOK, DurableOK, Hits
<1>3. CASE req[c].op = "verify" /\ End(c, "ok")
  BY <1>1, <1>3, QuietEnd
<1>4. CASE req[c].op # "verify" /\ Then(c, "touch")
  <2>1. Moves(c, "touch")
    BY <1>1, <1>4, ThenMoves DEF Resting
  <2> QED BY <1>1, <1>2, <2>1, QuietMove DEF WritePCs, GcSteps, Free, Hits, SoloOK
<1>5. CASE /\ c \in locks[At(c)] /\ req[c].op # "verify"
           /\ Goto(c, "readMeta") /\ locks' = Released(c, "ok")
           /\ UNCHANGED <<inflight, outcome>>
  <2>1. Moves(c, "readMeta")
    BY <1>5 DEF Moves, Goto, Released, Resting
  <2>2. req[c].op = "put"
    BY <1>1, <1>5 DEF CallOK, ReadOK, PlaceOK, ObjectPCs, ObjectOps, LockNames
  <2>3. meta[At(c)] # "none" \/ overlapped[c]
    BY <1>1, <2>2 DEF SoloOK, Hits
  <2> QED BY <1>1, <1>2, <2>1, <2>2, <2>3, QuietMove
           DEF WritePCs, GcSteps, Free, Hits, SoloOK
<1> QED BY <1>3, <1>4, <1>5 DEF AfterAssert

\* What is known of a call at a step of put, read or verifyObject.
LEMMA ObjectCall ==
    ASSUME TypeOK, PlaceOK, CallsInv, NEW c \in Calls, pc[c] \in ObjectPCs \ {"await"}
    PROVE  /\ c \in Running /\ req[c].op \in ObjectOps /\ At(c) \in Ids
           /\ CallOK(c) /\ SoloOK(c)
           /\ pc[c] \notin WritePCs \cup GcSteps
           /\ pc[c] \in Free => req[c].op = "put" /\ \A n \in LockNames : c \notin locks[n]
           /\ pc[c] \in Hits /\ req[c].op = "put" => Kept(c) /\ Described(c)
<1>1. CallOK(c) /\ SoloOK(c) /\ req[c].op \in ObjectOps /\ c \in Running
  BY DEF CallsInv, PlaceOK, Running, Resting, ObjectPCs
<1>2. pc[c] \in Free => req[c].op = "put" /\ \A n \in LockNames : c \notin locks[n]
  BY <1>1 DEF CallOK, ReadOK, TidyOK, ObjectOps
<1>3. pc[c] \in Hits /\ req[c].op = "put" => Kept(c) /\ Described(c)
  BY <1>1 DEF CallOK, DurableOK
<1> QED BY <1>1, <1>2, <1>3 DEF PlaceOK, ObjectPCs, WritePCs, GcSteps

LEMMA PutStepKeeps ==
    ASSUME TypeOK, PlaceOK, CallsInv, NEW c \in Calls, PutStep(c)
    PROVE  CallsInv'
<1>0. /\ pc[c] \in ObjectPCs \ {"await"}
      /\ c \in Running /\ req[c].op \in ObjectOps /\ At(c) \in Ids
      /\ CallOK(c) /\ SoloOK(c)
      /\ pc[c] \notin WritePCs \cup GcSteps \cup {"await"}
      /\ pc[c] \in Free => req[c].op = "put" /\ \A n \in LockNames : c \notin locks[n]
      /\ pc[c] \in Hits /\ req[c].op = "put" => Kept(c) /\ Described(c)
  <2>1. pc[c] \in ObjectPCs \ {"await"}
    BY DEF PutStep, PutVerify, InsertCheck, InsertLock, InsertRecheck, ReadBytes, CheckBytes,
           CheckMeta, Touch, TouchRead, ReadMeta, ObjectPCs
  <2> QED BY <2>1, ObjectCall
<1>a. \A k \in Kinds : tmp[c][k] = "none"
  BY <1>0 DEF CallOK, TidyOK, Running, Resting, WritePCs
<1>b. /\ Has(At(c)) => Kept(c) /\ Described(c)
      /\ Has(At(c)) <=> object[At(c)] # "none" /\ meta[At(c)] # "none"
  BY DEF Has, Kept, Described
<1>1. CASE PutVerify(c)
  <2>1. Quiet /\ req[c].op = "put" /\ pc[c] = "verify"
    BY <1>0, <1>1 DEF PutVerify, Quiet, Free
  <2>2. CASE End(c, "mismatch")
    BY <1>0, <2>1, <2>2, QuietEnd DEF WritePCs
  <2>3. CASE Then(c, "check")
    <3>1. Moves(c, "check") /\ locks' = locks
      BY <2>3, ThenMoves DEF Resting, Then, Control
    <3> QED BY <1>0, <2>1, <3>1, QuietMove DEF WritePCs, GcSteps, Free, Hits
  <2> QED BY <1>1, <2>2, <2>3 DEF PutVerify
<1>2. CASE InsertCheck(c)
  <2>1. Quiet /\ req[c].op = "put" /\ pc[c] = "check"
    BY <1>0, <1>2 DEF InsertCheck, Quiet, Free
  <2>2. PICK where \in {"readBytes", "lock"} :
           Then(c, where) /\ (where = "readBytes" => Has(At(c)))
    BY <1>2 DEF InsertCheck
  <2>3. Moves(c, where) /\ locks' = locks
    BY <2>2, ThenMoves DEF Resting, Then, Control
  <2> QED BY <1>0, <1>b, <2>1, <2>2, <2>3, QuietMove DEF WritePCs, GcSteps, Free, Hits
<1>3. CASE InsertLock(c)
  <2>1. /\ Quiet /\ req[c].op = "put" /\ pc[c] = "lock"
        /\ \A n \in LockNames : c \notin locks[n]
    BY <1>0, <1>3 DEF InsertLock, Quiet, Free
  <2>2. CASE /\ locks' = [locks EXCEPT ![At(c)] = @ \cup {c}]
             /\ Goto(c, "recheck")
             /\ UNCHANGED <<inflight, outcome>>
    <3>1. Moves(c, "recheck")
      BY <2>1, <2>2 DEF Moves, Goto, Resting, TypeOK
    <3> QED BY <1>0, <2>1, <3>1, QuietMove DEF WritePCs, GcSteps, Free, Hits
  <2>3. CASE locks[At(c)] # {} /\ End(c, "failed")
    <3>1. PICK d \in Calls : d \in locks[At(c)]
      BY <1>0, <2>3 DEF TypeOK, LockNames
    <3>2. d \in Running /\ d # c
      BY <1>0, <2>1, <3>1 DEF CallsInv, CallOK, TidyOK, Running, LockNames
    <3>3. overlapped[c]
      BY <1>0, <3>2 DEF SoloOK
    <3> QED BY <1>0, <2>1, <2>3, <3>3, QuietEnd DEF WritePCs
  <2>4. CASE End(c, "fault")
    BY <1>0, <2>1, <2>4, QuietEnd DEF WritePCs
  <2> QED BY <1>3, <2>2, <2>3, <2>4 DEF InsertLock, AcquireLock
<1>4. CASE InsertRecheck(c)
  <2>1. /\ UNCHANGED <<Files, Fixed, lost>> /\ pc[c] = "recheck" /\ UNCHANGED Control
        /\ pc[c] \notin Free
    BY <1>4 DEF InsertRecheck, Then, Free
  <2>2. CASE Has(At(c)) /\ Then(c, "readBytes") /\ UNCHANGED loc
    <3>1. Moves(c, "readBytes") /\ Quiet
      BY <2>1, <2>2, ThenMoves DEF Resting, Quiet
    <3> QED BY <1>0, <1>b, <2>1, <2>2, <3>1, QuietMove DEF WritePCs, GcSteps, Free, Hits
  <2>3. CASE StartWrite(c, "object")
    <3>1. pc' = [pc EXCEPT ![c] = "create"] /\ loc' = [loc EXCEPT ![c].kind = "object"]
      BY <2>3 DEF StartWrite, Goto
    <3>2. /\ At(c)' = At(c) /\ loc'[c].buf = loc[c].buf /\ loc'[c].kind = "object"
          /\ \A d \in Calls : d # c => loc'[d] = loc[d]
      BY <3>1 DEF At, TypeOK, Locals
    <3>3. Moves(c, "create") /\ Others(c)
      BY <1>0, <2>1, <3>1, <3>2
         DEF Moves, Others, Control, Files, Fixed, Resting, CallOK, ReadOK, TypeOK
    <3>4. req[c].op \in {"read", "verify"} => loc[c].buf = "good"
      BY <1>0, <2>1 DEF CallOK, ReadOK
    <3> QED BY <1>0, <1>a, <2>1, <3>2, <3>3, <3>4, CreateMove DEF Files, Fixed
  <2> QED BY <1>4, <2>2, <2>3 DEF InsertRecheck, RecheckHit
<1>5. CASE ReadBytes(c)
  <2>1. UNCHANGED <<Files, Fixed, lost>> /\ pc[c] = "readBytes"
    BY <1>5 DEF ReadBytes
  <2>2. CASE object[At(c)] = "none" /\ End(c, "failed") /\ UNCHANGED loc
    <3>1. overlapped[c]
      BY <1>0, <2>1, <2>2 DEF SoloOK
    <3> QED BY <1>0, <2>1, <2>2, <3>1, QuietEnd DEF Quiet, WritePCs
  <2>3. CASE Then(c, "assert") /\ loc' = [loc EXCEPT ![c].buf = object[At(c)]]
    <3>1. Moves(c, "assert") /\ UNCHANGED Control
      BY <2>3, ThenMoves DEF Resting, Then
    <3>2. /\ At(c)' = At(c) /\ loc'[c].kind = loc[c].kind
          /\ \A d \in Calls : d # c => loc'[d] = loc[d]
      BY <2>3 DEF At, TypeOK, Locals
    <3>3. Others(c) /\ Meets(c) /\ req' = req
      BY <1>0, <2>1, <3>1, <3>2, RunnersMeet DEF Others, Control, Files, Fixed, TypeOK
    <3>4. pc'[c] = "assert" /\ outcome'[c] = "pending" /\ Running' = Running
      BY <1>0, <2>1, <3>1 DEF Moves, CallOK, TypeOK, Running, Resting
    <3>5. Kept(c)' = Kept(c) /\ Described(c)' = Described(c)
      BY <2>1, <3>2 DEF Kept, Described, Files
    <3>6. CallOK(c)'
      <4>1. ReadOK(c)'
        BY <1>0, <3>1, <3>3, <3>4 DEF CallOK, ReadOK, Control, Free
      <4>2. DurableOK(c)'
        BY <1>0, <2>1, <3>3, <3>4, <3>5 DEF CallOK, DurableOK, WritePCs, Hits
      <4>3. TidyOK(c)'
        BY <1>a, <2>1, <3>4 DEF TidyOK, Files, Free, Resting
      <4> QED BY <1>0, <3>2, <3>3, <3>4, <4>1, <4>2, <4>3 DEF CallOK, GcSteps
    <3>7. SoloOK(c)'
      BY <1>0, <2>1, <3>2, <3>3, <3>4 DEF SoloOK, Files, Fixed, Hits
    <3> QED BY <1>0, <2>1, <3>1, <3>2, <3>3, <3>6, <3>7, MoveKeeps DEF Goes, Running, Resting
  <2> QED BY <1>5, <2>2, <2>3 DEF ReadBytes
<1>6. CASE CheckBytes(c)
  <2>1. Quiet /\ pc[c] = "assert"
    BY <1>6 DEF CheckBytes, Quiet
  <2>2. CASE End(c, "corrupt")
    BY <1>0, <2>1, <2>2, QuietEnd DEF WritePCs
  <2>3. CASE DigestMatches(c) /\ meta[At(c)] # "none" /\ Then(c, "assertMeta")
    <3>1. Moves(c, "assertMeta")
      BY <2>3, ThenMoves DEF Resting
    <3> QED BY <1>0, <2>1, <2>3, <3>1, QuietMove
            DEF WritePCs, GcSteps, Free, Hits, DigestMatches
  <2>4. CASE DigestMatches(c) /\ AfterAssert(c)
    BY <1>0, <2>1, <2>4, AfterAssertKeeps DEF DigestMatches
  <2> QED BY <1>6, <2>2, <2>3, <2>4 DEF CheckBytes
<1>7. CASE CheckMeta(c)
  <2>1. Quiet /\ pc[c] = "assertMeta"
    BY <1>7 DEF CheckMeta, Quiet
  <2>2. CASE meta[At(c)] = "none" /\ End(c, "failed")
    BY <1>0, <2>1, <2>2, QuietEnd DEF WritePCs, SoloOK
  <2>3. CASE meta[At(c)] # "none" /\ AfterAssert(c)
    <3>1. req[c].op \in {"read", "verify"} => loc[c].buf = "good"
      BY <1>0, <2>1 DEF CallOK, ReadOK
    <3> QED BY <1>0, <2>1, <2>3, <3>1, AfterAssertKeeps
  <2> QED BY <1>7, <2>2, <2>3 DEF CheckMeta
<1>8. CASE Touch(c)
  <2>1. Quiet /\ pc[c] = "touch" /\ (req[c].op \in {"read", "verify"} => loc[c].buf = "good")
    BY <1>0, <1>8 DEF Touch, Quiet, CallOK, ReadOK
  <2>2. CASE meta[At(c)] # "none" /\ Then(c, "touchRead")
    <3>1. Moves(c, "touchRead")
      BY <2>2, ThenMoves DEF Resting
    <3> QED BY <1>0, <2>1, <2>2, <3>1, QuietMove DEF WritePCs, GcSteps, Free, Hits
  <2>3. CASE req[c].op = "put" /\ Then(c, "readMeta")
    <3>1. Moves(c, "readMeta")
      BY <2>3, ThenMoves DEF Resting
    <3> QED BY <1>0, <2>1, <2>3, <3>1, QuietMove DEF WritePCs, GcSteps, Free, Hits, SoloOK
  <2>4. CASE req[c].op # "put" /\ End(c, "ok")
    BY <1>0, <2>1, <2>4, QuietEnd DEF WritePCs
  <2> QED BY <1>8, <2>2, <2>3, <2>4 DEF Touch, AfterTouch
<1>9. CASE TouchRead(c)
  <2>1. /\ UNCHANGED <<Files, Fixed, lost>> /\ pc[c] = "touchRead"
        /\ req[c].op \in {"read", "verify"} => loc[c].buf = "good"
    BY <1>0, <1>9 DEF TouchRead, CallOK, ReadOK
  <2>2. CASE meta[At(c)] = "none" /\ End(c, "failed") /\ UNCHANGED loc
    <3>1. overlapped[c]
      BY <1>0, <2>1, <2>2 DEF SoloOK
    <3> QED BY <1>0, <2>1, <2>2, <3>1, QuietEnd DEF Quiet, WritePCs
  <2>3. CASE StartWrite(c, "touch") /\ UNCHANGED Control
    <3>1. pc' = [pc EXCEPT ![c] = "create"] /\ loc' = [loc EXCEPT ![c].kind = "touch"]
      BY <2>3 DEF StartWrite, Goto
    <3>2. /\ At(c)' = At(c) /\ loc'[c].buf = loc[c].buf /\ loc'[c].kind = "touch"
          /\ \A d \in Calls : d # c => loc'[d] = loc[d]
      BY <3>1 DEF At, TypeOK, Locals
    <3>3. Moves(c, "create") /\ Others(c)
      BY <1>0, <2>1, <2>3, <3>1, <3>2
         DEF Moves, Others, Control, Files, Fixed, Resting, CallOK, ReadOK, TypeOK
    <3>4. Kept(c)' = Kept(c) /\ Described(c)' = Described(c)
      BY <2>1, <3>2 DEF Kept, Described, Files
    <3> QED BY <1>0, <1>a, <2>1, <3>2, <3>3, <3>4, CreateMove DEF Files, Fixed, Hits
  <2> QED BY <1>9, <2>2, <2>3 DEF TouchRead
<1>10. CASE ReadMeta(c)
  <2>1. Quiet /\ pc[c] = "readMeta" /\ (req[c].op \in {"read", "verify"} => loc[c].buf = "good")
    BY <1>0, <1>10 DEF ReadMeta, Quiet, CallOK, ReadOK
  <2>2. CASE meta[At(c)] = "none" /\ End(c, "failed")
    BY <1>0, <2>1, <2>2, QuietEnd DEF WritePCs, SoloOK
  <2>3. CASE End(c, "ok")
    BY <1>0, <2>1, <2>3, QuietEnd DEF WritePCs, Hits
  <2> QED BY <1>10, <2>2, <2>3 DEF ReadMeta
<1> QED BY <1>1, <1>2, <1>3, <1>4, <1>5, <1>6, <1>7, <1>8, <1>9, <1>10 DEF PutStep

------------------------------------------------------------------------------
(* writeFileAtomic *)

LEMMA WriteStepKeeps ==
    ASSUME TypeOK, PlaceOK, CallsInv, NEW c \in Calls, WriteStep(c)
    PROVE  CallsInv'
<1>0. /\ pc[c] \in WritePCs /\ c \in Running /\ Goes(c)
      /\ CallOK(c) /\ SoloOK(c)
      /\ loc[c].kind \in Kinds
      /\ req[c].op \in {"read", "verify"} => loc[c].buf = "good"
      /\ req[c].op = "put" => At(c) \in Ids
      /\ UNCHANGED Fixed
  <2>1. pc[c] \in WritePCs /\ UNCHANGED Fixed
    BY DEF WriteStep, Create, Write, WriteFault, RenameFails, RenameObject, RenameMeta,
           RenameTouch, RenameIndex, Renaming, WritePCs
  <2>2. CallOK(c) /\ SoloOK(c)
    BY DEF CallsInv
  <2>3. req[c].op \in {"read", "verify"} => loc[c].buf = "good"
    BY <2>1, <2>2 DEF CallOK, ReadOK, WritePCs
  <2>4. c \in Running /\ Goes(c)
    BY <2>1 DEF WritePCs, Running, Resting, Goes
  <2> QED BY <2>1, <2>2, <2>3, <2>4 DEF PlaceOK, ObjectOps, TypeOK, Locals
<1>a. /\ Meets(c) /\ req' = req /\ overlapped' = overlapped
      /\ \A n \in LockNames : req[c].op \in {"read", "verify"} => c \notin locks[n]
      /\ \A k \in Kinds : k # loc[c].kind => tmp[c][k] = "none"
      /\ pc[c] = "create" => \A k \in Kinds : tmp[c][k] = "none"
  BY <1>0, RunnersMeet DEF Fixed, CallOK, ReadOK, TidyOK, WritePCs
<1>1. CASE Create(c) \/ Write(c)
  <2>1. /\ UNCHANGED <<object, meta, loc, lost, locks, inflight, outcome>>
        /\ \A d \in Calls : d # c => tmp'[d] = tmp[d]
    BY <1>1 DEF Create, Write, Then, Control, TypeOK
  <2>2. PICK where \in {"write", "rename"} : /\ pc' = [pc EXCEPT ![c] = where]
                                             /\ pc[c] = "create" => where = "write"
    BY <1>1 DEF Create, Write, Then, Goto
  <2>3. Others(c) /\ Moves(c, where) /\ At(c)' = At(c)
    BY <1>a, <2>1, <2>2 DEF Others, Moves, At, Resting, TypeOK
  <2>4. pc'[c] = where /\ outcome'[c] = "pending" /\ Running' = Running
    BY <1>0, <2>2, <2>1 DEF CallOK, WritePCs, TypeOK, Running, Resting
  <2>5. \A k \in Kinds : k # loc[c].kind => tmp'[c][k] = "none"
    BY <1>0, <1>1, <1>a DEF Create, Write, TypeOK
  <2>6. ~overlapped[c] => tmp'[c][loc[c].kind] # "none"
    BY <1>0, <1>1 DEF Create, Write, SoloOK, TypeOK
  <2>7. CallOK(c)'
    <3>1. ReadOK(c)'
      BY <1>0, <1>a, <2>1, <2>4 DEF ReadOK, Free
    <3>2. DurableOK(c)'
      <4>1. Kept(c)' = Kept(c) /\ Described(c)' = Described(c)
        BY <2>1, <2>3 DEF Kept, Described
      <4> QED BY <1>0, <1>a, <2>1, <2>4, <4>1 DEF CallOK, DurableOK, Hits, WritePCs
    <3>3. TidyOK(c)'
      BY <2>1, <2>4, <2>5 DEF TidyOK, Free, Resting
    <3> QED BY <1>0, <1>a, <2>3, <2>4, <3>1, <3>2, <3>3 DEF CallOK, GcSteps
  <2>8. SoloOK(c)'
    BY <1>0, <1>a, <2>1, <2>4, <2>6 DEF SoloOK, Hits
  <2> QED BY <1>0, <1>a, <2>1, <2>3, <2>7, <2>8, MoveKeeps
<1>2. CASE WriteFault(c) \/ RenameFails(c)
  <2>1. PICK result \in {"fault", "failed"} :
           End(c, result) /\ (result = "failed" => RenameFails(c))
    BY <1>2 DEF WriteFault, RenameFails
  <2>2. /\ UNCHANGED <<object, meta, loc, lost>>
        /\ \A d \in Calls : d # c => tmp'[d] = tmp[d]
        /\ \A k \in Kinds : tmp'[c][k] \in {"none", "left"}
    <3>1. CASE WriteFault(c)
      <4>1. PICK f \in {"none", "left"} : tmp' = [tmp EXCEPT ![c][loc[c].kind] = f]
        BY <3>1 DEF WriteFault, AfterFault
      <4> QED BY <1>0, <1>a, <3>1, <4>1 DEF WriteFault, TypeOK
    <3>2. CASE RenameFails(c)
      <4>1. UNCHANGED <<object, meta, loc, lost, tmp>> /\ tmp[c][loc[c].kind] = "none"
        BY <3>2 DEF RenameFails, Files
      <4> QED BY <1>a, <4>1
    <3> QED BY <1>2, <3>1, <3>2
  <2>3. Others(c) /\ At(c)' = At(c)
    BY <1>a, <2>1, <2>2 DEF Others, End, Released, At
  <2>4. result = "failed" => overlapped'[c]
    BY <1>0, <1>a, <2>1 DEF RenameFails, SoloOK
  <2> QED BY <1>0, <1>a, <2>1, <2>2, <2>3, <2>4, EndKeeps
<1>3. ASSUME NEW k \in Kinds, Renaming(c, k)
      PROVE  /\ \A d \in Calls : d # c => tmp'[d] = tmp[d]
             /\ \A j \in Kinds : tmp'[c][j] = "none"
             /\ k = loc[c].kind /\ tmp[c][k] # "none"
  BY <1>3, <1>a DEF Renaming, TypeOK
<1>4. CASE RenameObject(c)
  <2>1. /\ UNCHANGED <<meta, lost, Control>>
        /\ object' = [object EXCEPT ![At(c)] = tmp[c]["object"]]
        /\ pc' = [pc EXCEPT ![c] = "create"] /\ loc' = [loc EXCEPT ![c].kind = "meta"]
    BY <1>4 DEF RenameObject, StartWrite, Goto
  <2>2. /\ \A d \in Calls : d # c => tmp'[d] = tmp[d]
        /\ \A j \in Kinds : tmp'[c][j] = "none"
        /\ tmp[c]["object"] # "none"
    BY <1>3, <1>4 DEF RenameObject, Kinds
  <2>3. /\ At(c)' = At(c) /\ loc'[c].buf = loc[c].buf /\ loc'[c].kind = "meta"
        /\ \A d \in Calls : d # c => loc'[d] = loc[d]
    BY <2>1 DEF At, TypeOK, Locals
  <2>4. Moves(c, "create") /\ Others(c)
    BY <1>a, <2>1, <2>2, <2>3 DEF Moves, Others, Control, Resting, TypeOK
  <2>5. req[c].op = "put" => Kept(c)'
    BY <1>0, <2>1, <2>2, <2>3 DEF Kept, TypeOK
  <2> QED BY <1>0, <1>a, <2>1, <2>2, <2>3, <2>4, <2>5, CreateMove DEF WritePCs
<1>5. CASE RenameMeta(c) \/ RenameTouch(c)
  <2>1. /\ UNCHANGED <<object, lost, loc>>
        /\ meta' = [meta EXCEPT ![At(c)] = "recent"]
        /\ pc[c] = "rename" /\ loc[c].kind \in {"meta", "touch"}
        /\ loc[c].kind = "meta" => End(c, "ok")
        /\ loc[c].kind = "touch" => AfterTouch(c)
    BY <1>5 DEF RenameMeta, RenameTouch, Renaming
  <2>2. /\ \A d \in Calls : d # c => tmp'[d] = tmp[d]
        /\ \A j \in Kinds : tmp'[c][j] = "none"
    BY <1>3, <1>5 DEF RenameMeta, RenameTouch, Kinds
  <2>3. /\ At(c)' = At(c)
        /\ req[c].op = "put" => meta'[At(c)] # "none" /\ Kept(c)' /\ Described(c)'
    <3>1. At(c)' = At(c)
      BY <2>1 DEF At
    <3>2. req[c].op = "put" => Kept(c) /\ meta'[At(c)] = "recent"
      BY <1>0, <2>1 DEF CallOK, DurableOK, WritePCs, TypeOK
    <3> QED BY <2>1, <3>1, <3>2 DEF Kept, Described
  <2>4. CASE End(c, "ok")
    <3>1. Others(c)
      BY <1>a, <2>1, <2>2, <2>4 DEF Others, End, Released, TypeOK
    <3> QED BY <1>0, <1>a, <2>1, <2>2, <2>3, <2>4, <3>1, EndKeeps
  <2>5. CASE req[c].op = "put" /\ Then(c, "readMeta")
    <3>1. Moves(c, "readMeta") /\ UNCHANGED Control
      BY <2>5, ThenMoves DEF Resting, Then
    <3>2. Others(c)
      BY <1>a, <2>1, <2>2, <3>1 DEF Others, Control, TypeOK
    <3>3. pc'[c] = "readMeta" /\ outcome'[c] = "pending" /\ Running' = Running
      BY <1>0, <3>1 DEF Moves, CallOK, WritePCs, TypeOK, Running, Resting
    <3>4. ReadOK(c)' /\ DurableOK(c)' /\ TidyOK(c)'
      BY <1>a, <2>2, <2>3, <2>5, <3>3
         DEF ReadOK, DurableOK, TidyOK, WritePCs, Free, Resting
    <3>5. CallOK(c)'
      BY <1>0, <1>a, <2>3, <3>3, <3>4 DEF CallOK, GcSteps
    <3>6. SoloOK(c)'
      BY <1>0, <1>a, <2>1, <2>3, <2>5, <3>3 DEF SoloOK
    <3> QED BY <1>0, <1>a, <2>1, <2>3, <3>1, <3>2, <3>5, <3>6, MoveKeeps
  <2> QED BY <2>1, <2>4, <2>5 DEF AfterTouch
<1>6. CASE RenameIndex(c)
  <2>1. UNCHANGED <<object, meta, loc, lost>> /\ End(c, "ok") /\ loc[c].kind = "index"
    BY <1>6 DEF RenameIndex, Renaming
  <2>2. /\ \A d \in Calls : d # c => tmp'[d] = tmp[d]
        /\ \A j \in Kinds : tmp'[c][j] = "none"
    BY <1>3, <1>6 DEF RenameIndex, Kinds
  <2>3. req[c].op = "register"
    BY <1>0, <2>1 DEF PlaceOK
  <2>4. Others(c)
    BY <1>a, <2>1, <2>2 DEF Others, End, Released, TypeOK
  <2> QED BY <1>0, <1>a, <2>1, <2>2, <2>3, <2>4, EndKeeps
<1> QED BY <1>1, <1>2, <1>4, <1>5, <1>6 DEF WriteStep

------------------------------------------------------------------------------
(* gc and clearOrphans *)

\* A step of gc or clearOrphans that does not end it.
LEMMA GcMove ==
    ASSUME TypeOK, PlaceOK, CallsInv, NEW c \in Calls, pc[c] \in GcSteps,
           NEW where \in GcSteps, pc' = [pc EXCEPT ![c] = where],
           UNCHANGED <<Control, Fixed>>, Others(c),
           \A k \in Kinds : tmp'[c][k] \in {tmp[c][k], "none"},
           lost' = lost \/ Shared,
           where = "judgeMeta" => meta'[At(c)'] # "none"
    PROVE  CallsInv'
<1>1. /\ CallOK(c) /\ SoloOK(c) /\ c \in Running /\ Goes(c) /\ req' = req
      /\ overlapped' = overlapped /\ req[c].op \notin ObjectOps
  BY DEF CallsInv, CallOK, GcSteps, Running, Resting, Goes, Fixed
<1>2. Moves(c, where) /\ Meets(c)
  BY <1>1, RunnersMeet DEF Moves, Control, GcSteps, Resting, ObjectOps
<1>3. pc'[c] = where /\ outcome'[c] = "pending" /\ Running' = Running
  BY <1>1 DEF Control, CallOK, GcSteps, TypeOK, Running, Resting
<1>4. CallOK(c)'
  <2>1. ReadOK(c)' /\ DurableOK(c)'
    BY <1>1 DEF ReadOK, DurableOK, ObjectOps
  <2>2. TidyOK(c)'
    BY <1>1, <1>3 DEF CallOK, TidyOK, GcSteps, Free, Resting
  <2> QED BY <1>1, <1>3, <2>1, <2>2 DEF CallOK, ObjectOps
<1>5. SoloOK(c)'
  BY <1>1, <1>3 DEF SoloOK, GcSteps, Hits, At
<1> QED BY <1>1, <1>2, <1>4, <1>5, MoveKeeps DEF ObjectOps

LEMMA GcStepOK ==
    ASSUME TypeOK, PlaceOK, CallsInv, NEW c \in Calls, GcStep(c)
    PROVE  CallsInv'
<1>0. /\ pc[c] \in GcSteps /\ UNCHANGED <<tmp, Fixed>>
      /\ c \in Running /\ CallOK(c) /\ SoloOK(c) /\ req[c].op \notin ObjectOps
  <2>1. pc[c] \in GcSteps /\ UNCHANGED <<tmp, Fixed>>
    BY DEF GcStep, GcReaddir, GcReadIndex, GcSkipIndex, GcList, GcJudge, GcJudgeMeta,
           GcJudgedAll, GcDelete, GcDeleteMeta, GcDeleteUnpacked, GcEnd, GcSteps, Files
  <2> QED BY <2>1 DEF CallsInv, CallOK, GcSteps, Running, Resting
<1>1. ASSUME NEW result, End(c, result), Quiet, result = "failed" => overlapped[c]
      PROVE  CallsInv'
  BY <1>0, <1>1, QuietEnd DEF GcSteps, ObjectOps
<1>2. ASSUME NEW where \in GcSteps \ {"judgeMeta", "deleteMeta"},
             pc' = [pc EXCEPT ![c] = where], UNCHANGED Control,
             UNCHANGED <<object, meta, lost>>,
             \A d \in Calls : d # c => loc'[d] = loc[d]
      PROVE  CallsInv'
  <2>1. Others(c)
    BY <1>0, <1>2 DEF Others, Control, Fixed, TypeOK
  <2> QED BY <1>0, <1>2, <2>1, GcMove
<1>3. CASE GcReaddir(c) \/ GcReadIndex(c) \/ GcSkipIndex(c) \/ GcList(c)
  <2>1. /\ UNCHANGED <<Control, object, meta, lost>>
        /\ \A d \in Calls : d # c => loc'[d] = loc[d]
    BY <1>3 DEF GcReaddir, GcReadIndex, GcSkipIndex, GcList, Then, Files, TypeOK
  <2>2. PICK where \in GcSteps \ {"judgeMeta", "deleteMeta"} : pc' = [pc EXCEPT ![c] = where]
    BY <1>3 DEF GcReaddir, GcReadIndex, GcSkipIndex, GcList, Then, Goto, GcSteps, TypeOK
  <2> QED BY <1>2, <2>1, <2>2
<1>4. CASE GcJudge(c)
  <2>1. UNCHANGED <<Control, object, meta, lost>> /\ pc[c] = "judge"
    BY <1>4 DEF GcJudge, Files
  <2>2. PICK i \in loc[c].todo :
           IF meta[i] = "none" THEN Judged(c, i, TRUE) /\ UNCHANGED pc
           ELSE loc' = [loc EXCEPT ![c].at = i] /\ Goto(c, "judgeMeta")
    BY <1>4 DEF GcJudge
  <2>3. CASE meta[i] = "none"
    <3>1. /\ \A d \in Calls : d # c => loc'[d] = loc[d]
          /\ pc' = [pc EXCEPT ![c] = "judge"]
      BY <2>1, <2>2, <2>3 DEF Judged, TypeOK
    <3> QED BY <1>2, <2>1, <3>1 DEF GcSteps
  <2>4. CASE meta[i] # "none"
    <3>1. /\ \A d \in Calls : d # c => loc'[d] = loc[d]
          /\ pc' = [pc EXCEPT ![c] = "judgeMeta"] /\ At(c)' = i
      BY <2>2, <2>4 DEF Goto, At, TypeOK, Locals
    <3>2. Others(c)
      BY <1>0, <2>1, <3>1 DEF Others, Control, Fixed, TypeOK
    <3> QED BY <1>0, <2>1, <2>4, <3>1, <3>2, GcMove DEF GcSteps
  <2> QED BY <2>3, <2>4
<1>5. CASE GcJudgeMeta(c)
  <2>1. UNCHANGED <<object, meta, lost>> /\ pc[c] = "judgeMeta"
    BY <1>5 DEF GcJudgeMeta, Files
  <2>2. CASE meta[At(c)] = "none" /\ End(c, "failed") /\ UNCHANGED loc
    <3>1. overlapped[c] /\ Quiet
      BY <1>0, <1>5, <2>1, <2>2 DEF SoloOK, GcJudgeMeta, Quiet
    <3> QED BY <1>1, <2>2, <3>1
  <2>3. CASE /\ Judged(c, At(c), ~(req[c].olderThan /\ meta[At(c)] = "recent"))
             /\ Then(c, "judge")
    <3>1. \A d \in Calls : d # c => loc'[d] = loc[d]
      BY <2>3 DEF Judged, TypeOK
    <3> QED BY <1>2, <2>1, <2>3, <3>1 DEF Then, Goto, GcSteps
  <2> QED BY <1>5, <2>2, <2>3 DEF GcJudgeMeta
<1>6. CASE GcJudgedAll(c) \/ GcEnd(c)
  <2>1. Quiet
    BY <1>6 DEF GcJudgedAll, GcEnd, Quiet
  <2>2. CASE End(c, "ok")
    BY <1>1, <2>1, <2>2
  <2>3. CASE Then(c, "delete")
    BY <1>2, <2>1, <2>3 DEF Quiet, Files, Then, Goto, GcSteps
  <2> QED BY <1>6, <2>2, <2>3 DEF GcJudgedAll, GcEnd
<1>7. ASSUME NEW i \in Ids, lost' = lost \cup PutsOf(i) PROVE Shared
  BY <1>7 DEF Shared, PutsOf, CallsInv, CallOK
<1>8. CASE GcDelete(c)
  <2>1. PICK i \in loc[c].doomed :
           /\ loc' = [loc EXCEPT ![c].at = i]
           /\ object' = [object EXCEPT ![i] = "none"]
           /\ lost' = IF object[i] = "none" THEN lost ELSE lost \cup PutsOf(i)
    BY <1>8 DEF GcDelete
  <2>2. UNCHANGED <<meta, Control>> /\ pc' = [pc EXCEPT ![c] = "deleteMeta"]
    BY <1>8 DEF GcDelete, Then, Goto
  <2>3. i \in Ids /\ \A d \in Calls : d # c => loc'[d] = loc[d]
    BY <2>1 DEF TypeOK, Locals
  <2>4. \A d \in Calls : req[d].op = "put" /\ pc[d] # "start"
           => (object'[At(d)] = "none" => object[At(d)] = "none" \/ d \in lost')
    BY <2>1 DEF PutsOf, CallsInv, CallOK, TypeOK
  <2>5. lost \subseteq lost' /\ (lost' = lost \/ Shared)
    BY <1>7, <2>1, <2>3
  <2>6. Others(c)
    BY <1>0, <2>2, <2>3, <2>4, <2>5 DEF Others, Control, Fixed, TypeOK
  <2> QED BY <1>0, <2>2, <2>5, <2>6, GcMove DEF GcSteps
<1>10. CASE GcDeleteMeta(c)
  <2>1. /\ pc[c] = "deleteMeta" /\ meta' = [meta EXCEPT ![At(c)] = "none"]
        /\ lost' = IF meta[At(c)] = "none" THEN lost ELSE lost \cup PutsOf(At(c))
        /\ UNCHANGED <<object, loc, Control>>
        /\ pc' = [pc EXCEPT ![c] = "deleteUnpacked"]
    BY <1>10 DEF GcDeleteMeta, Then, Goto
  <2>2. \A d \in Calls : req[d].op = "put" /\ pc[d] # "start"
           => (meta'[At(d)] = "none" => meta[At(d)] = "none" \/ d \in lost')
    BY <2>1 DEF PutsOf, CallsInv, CallOK, TypeOK
  <2>3. lost \subseteq lost' /\ (lost' = lost \/ Shared)
    BY <2>1 DEF Shared, PutsOf, CallsInv, CallOK
  <2>4. Others(c)
    BY <1>0, <2>1, <2>2, <2>3 DEF Others, Control, Fixed, TypeOK
  <2> QED BY <1>0, <2>1, <2>3, <2>4, GcMove DEF GcSteps
<1>9. CASE GcDeleteUnpacked(c)
  <2>1. \A d \in Calls : d # c => loc'[d] = loc[d]
    BY <1>9 DEF GcDeleteUnpacked, TypeOK
  <2> QED BY <1>2, <1>9, <2>1 DEF GcDeleteUnpacked, Then, Goto, GcSteps
<1> QED BY <1>3, <1>4, <1>5, <1>6, <1>8, <1>9, <1>10 DEF GcStep

LEMMA ClearStepOK ==
    ASSUME TypeOK, PlaceOK, CallsInv, NEW c \in Calls, ClearStep(c)
    PROVE  CallsInv'
<1>0. /\ pc[c] = "removeTmp" /\ pc[c] \in GcSteps /\ UNCHANGED <<object, meta, lost, Fixed>>
      /\ c \in Running /\ CallOK(c) /\ req[c].op \notin ObjectOps
  <2>1. pc[c] = "removeTmp" /\ UNCHANGED <<object, meta, lost, Fixed>>
    BY DEF ClearStep, ClearRemove, ClearEnd, Files
  <2> QED BY <2>1 DEF CallsInv, CallOK, GcSteps, Running, Resting
<1>1. CASE ClearRemove(c)
  <2>1. PICK f \in loc[c].listed :
           /\ tmp' = [tmp EXCEPT ![f[1]][f[2]] = "none"]
           /\ loc' = [loc EXCEPT ![c].listed = @ \ {f}]
    BY <1>1 DEF ClearRemove
  <2>2. /\ \A d \in Calls, k \in Kinds : tmp'[d][k] \in {tmp[d][k], "none"}
        /\ \A d \in Calls : d # c => loc'[d] = loc[d]
    BY <2>1 DEF TypeOK
  <2>3. UNCHANGED Control /\ pc' = [pc EXCEPT ![c] = "removeTmp"]
    BY <1>0, <1>1 DEF ClearRemove, TypeOK
  <2>4. Others(c)
    BY <1>0, <2>2, <2>3 DEF Others, Control, Fixed, TypeOK
  <2> QED BY <1>0, <2>2, <2>3, <2>4, GcMove DEF GcSteps
<1>2. CASE ClearEnd(c)
  <2>1. Quiet /\ End(c, "ok")
    BY <1>2 DEF ClearEnd, Quiet
  <2> QED BY <1>0, <2>1, QuietEnd DEF GcSteps, ObjectOps
<1> QED BY <1>1, <1>2 DEF ClearStep

------------------------------------------------------------------------------
(* The theorems *)

LEMMA CallsStep == TypeOK /\ PlaceOK /\ CallsInv /\ [Next]_vars => CallsInv'
<1> SUFFICES ASSUME TypeOK, PlaceOK, CallsInv, [Next]_vars PROVE CallsInv'
  OBVIOUS
<1>1. ASSUME NEW c \in Calls, Call(c) PROVE CallsInv'
  BY <1>1, CallKeeps, CallType
<1>2. ASSUME NEW c \in Calls, Step(c) PROVE CallsInv'
  BY <1>2, WriteStepKeeps, PutStepKeeps, GcStepOK, ClearStepOK DEF Step
<1>3. CASE UNCHANGED vars
  BY <1>3 DEF vars, disk, CallsInv, PromisesOK, CallOK, SoloOK, FailedOK, ReadOK, DurableOK,
              TidyOK, Kept, Described, Running, Leader, At
<1> QED BY <1>1, <1>2, <1>3, CrashKeeps, DiskKeeps DEF Next

LEMMA CallsInvariant == Spec => [](TypeOK /\ PlaceOK /\ CallsInv)
BY TypeInvariant, CallsInit, CallsStep, PTL DEF Spec

\* read and verifyObject succeed only on bytes that match the content id.
THEOREM ReadsVerify == Spec => []ReadsAreVerified
<1>1. TypeOK /\ CallsInv => ReadsAreVerified
  BY DEF CallsInv, CallOK, ReadOK, ReadsAreVerified
<1> QED BY <1>1, CallsInvariant, PTL

\* The object of a put that has returned is stored with its metadata, unless a gc has
\* deleted either since that put began; so for a put that awaited another's promise.
THEOREM PutsLast == Spec => []PutIsDurable
<1>1. CallsInv => PutIsDurable
  BY DEF CallsInv, CallOK, DurableOK, Kept, Described, Has, PutIsDurable
<1> QED BY <1>1, CallsInvariant, PTL

\* Calls that are over, however they ended, leave no lock and no promise, and only
\* killed calls leave temporary files, and those that could not remove theirs; who
\* awaits, awaits a call under way.
THEOREM CallsTidyUp == Spec => []NothingLeftBehind
<1>1. TypeOK /\ PlaceOK /\ CallsInv => NothingLeftBehind
  <2> SUFFICES ASSUME TypeOK, PlaceOK, CallsInv PROVE NothingLeftBehind
    OBVIOUS
  <2>1. ASSUME NEW c \in Calls, c \notin Running
        PROVE  /\ \A n \in LockNames : c \notin locks[n]
               /\ \A p \in Procs, i \in Ids : inflight[p][i] # c
    BY <2>1 DEF CallsInv, CallOK, TidyOK, PromisesOK, Running, Resting
  <2>2. ASSUME NEW c \in Calls, pc[c] = "await" PROVE Leader(c) \in Running
    <3>1. req[c].op = "put" /\ Leader(c) # NoCall
      BY <2>2 DEF CallsInv, PromisesOK
    <3>2. Owner[c] \in Procs /\ At(c) \in Ids
      BY <3>1, OwnerAssumption DEF PlaceOK, ObjectOps, OwnerAssumption
    <3>3. Leader(c) \in Calls
      BY <3>1, <3>2 DEF Leader, TypeOK
    <3> QED BY <3>2, <3>3 DEF CallsInv, PromisesOK, Leader
  <2>3. ASSUME NEW c \in Calls, pc[c] = "done" PROVE \A k \in Kinds : tmp[c][k] \in {"none", "left"}
    BY <2>3 DEF CallsInv, CallOK, TidyOK
  <2> QED BY <2>1, <2>2, <2>3 DEF NothingLeftBehind
<1> QED BY <1>1, CallsInvariant, PTL

\* Of the puts of the same bytes in one process at most one does the work.
THEOREM InsertsAreDeduplicated == Spec => []OneInsertPerProcess
<1>1. CallsInv => OneInsertPerProcess
  <2> SUFFICES ASSUME CallsInv, NEW c \in Running, NEW d \in Running,
                      Owner[c] = Owner[d], req[c].op = "put", req[d].op = "put", At(c) = At(d),
                      pc[c] # "await", pc[d] # "await"
               PROVE  c = d
    BY DEF OneInsertPerProcess
  <2> QED BY DEF CallsInv, PromisesOK, Leader
<1> QED BY <1>1, CallsInvariant, PTL

\* A call that met no other fails only for a full disk or for the bytes it was
\* given or found: never for a missing file or a lock that crashes left behind.
THEOREM AloneNothingFails == Spec => []FailuresNeedARival
<1>1. CallsInv => FailuresNeedARival
  BY DEF CallsInv, FailedOK, FailuresNeedARival
<1> QED BY <1>1, CallsInvariant, PTL
==============================================================================
