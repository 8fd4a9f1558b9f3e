--------------------------- MODULE LockTrustProofs ---------------------------
(***************************************************************************)
(* Proofs about LockTrust, for any checkouts, machines, packages, members  *)
(* and processes, any number of keys, and any worlds whose signatures are  *)
(* about digests.                                                          *)
(***************************************************************************)
EXTENDS LockTrust, TLAPS

(* The inductive invariant *)

\* A process that works has a command, and only keygen is at the keys.
Given ==
    \A p \in Active : /\ proc[p].cmd \in Commands
                      /\ proc[p].pc \in {"private", "public"} => Op(p) = "keygen"

\* A signature is about the digest beside it.
Covers(l) == l.signature # Unsigned => l.digest # Unknown /\ l.signature.list = l.digest
Covered == /\ \A c \in Checkouts : Covers(lock[c])
           /\ \A p \in Processes : Covers(proc[p].lock)

\* Every signature in sight has been made.
Recorded == /\ \A c \in Checkouts : lock[c].signature \in signed \cup {Unsigned}
            /\ \A p \in Processes : proc[p].lock.signature \in signed \cup {Unsigned}

\* A process beside which nothing was written knows what is on disk.
Fresh ==
    \A p \in Active \ disturbed : /\ proc[p].lock = lock[At(p)]
                                  /\ proc[p].key = PublicKey(At(p))
                                  /\ proc[p].filed = Filed(At(p))

\* What a sealed run has checked is what it holds, and what its child has found.
Upheld ==
    \A p \in Active :
        Sealed(p) /\ proc[p].pc \in {"prefetch", "spawn", "wait"} =>
            /\ proc[p].checked = NoList \/ proc[p].key = NoKey
                  \/ SignLockDigest(proc[p].checked, proc[p].key) \in signed
            /\ proc[p].lock.list.npm = proc[p].checked.npm
            /\ proc[p].pc = "wait" /\ p \notin disturbed
                  => proc[p].ran.npm = proc[p].checked.npm

------------------------------------------------------------------------------
(* Locks, lists and keys *)

LEMMA ListFacts == Unknown \notin Lists /\ NoList \in Lists
<1>1. Unknown.member \notin Entries
  BY CheckoutsAssumption DEF CheckoutsAssumption, Entries, NoMember, Unknown
<1>2. \A l \in Lists : l.member \in Entries
  BY DEF Lists
<1>3. NoList \in Lists
  BY DEF NoList, Lists, Entries
<1> QED
  BY <1>1, <1>2, <1>3

LEMMA LockFields ==
    ASSUME NEW l \in Locks
    PROVE  l.list \in Lists /\ l.digest \in Lists \cup {Unknown} /\ l.signature \in Signatures
  BY DEF Locks

LEMMA NoLockType == NoLock \in Locks
  BY ListFacts DEF NoLock, Locks, Signatures

LEMMA SignType ==
    ASSUME NEW list \in Lists, NEW k \in Keys
    PROVE  /\ SignLockDigest(list, k) \in Signatures
           /\ SignLockDigest(list, k) # Unsigned
           /\ SignLockDigest(list, k).list = list
<1>1. k # NoKey
  BY KeysAssumption DEF KeysAssumption, Keys, NoKey
<1> QED
  BY <1>1 DEF SignLockDigest, Signatures, Unsigned

\* What writeLockfile makes of a lock: with a key a signed one, without a key one that keeps
\* the signature of the same list.
LEMMA WriteResult ==
    ASSUME NEW l, NEW list, NEW k
    PROVE  /\ WriteLockfile(l, list, k).list = list
           /\ WriteLockfile(l, list, k).digest = list
           /\ k # NoKey => WriteLockfile(l, list, k).signature = SignLockDigest(list, k)
           /\ k = NoKey /\ l.digest \notin {list, Unknown}
                => WriteLockfile(l, list, k).signature = Unsigned
           /\ k = NoKey /\ l.digest \in {list, Unknown}
                => WriteLockfile(l, list, k).signature = l.signature
<1>1. CASE k # NoKey
  BY <1>1 DEF WriteLockfile
<1>2. CASE k = NoKey /\ l.digest \notin {list, Unknown}
  BY <1>2 DEF WriteLockfile
<1>3. CASE k = NoKey /\ l.digest \in {list, Unknown}
  BY <1>3 DEF WriteLockfile
<1> QED
  BY <1>1, <1>2, <1>3

LEMMA WriteType ==
    ASSUME NEW l \in Locks, NEW list \in Lists, NEW k \in AnyKey
    PROVE  WriteLockfile(l, list, k) \in Locks
<1> DEFINE w == WriteLockfile(l, list, k)
<1>1. w.signature \in Signatures
  BY WriteResult, SignType, LockFields DEF AnyKey, Signatures
<1>2. w = [list |-> list, digest |-> list, signature |-> w.signature]
  BY DEF WriteLockfile
<1> HIDE DEF w
<1>3. w \in Locks
  BY <1>1, <1>2 DEF Locks
<1> QED
  BY <1>3 DEF w

LEMMA WriteCovers ==
    ASSUME NEW l \in Locks, Covers(l), NEW list \in Lists, NEW k \in AnyKey
    PROVE  Covers(WriteLockfile(l, list, k))
<1>1. list # Unknown
  BY ListFacts
<1>2. CASE k # NoKey
  BY <1>1, <1>2, WriteResult, SignType DEF Covers, AnyKey
<1>3. CASE k = NoKey /\ l.digest \notin {list, Unknown}
  BY <1>1, <1>3, WriteResult DEF Covers
<1>4. CASE k = NoKey /\ l.digest \in {list, Unknown}
  BY <1>1, <1>4, WriteResult DEF Covers
<1> QED
  BY <1>2, <1>3, <1>4

LEMMA PrivateKeyType ==
    ASSUME TypeOK, NEW c \in Checkouts, NEW env \in AnyKey
    PROVE  LoadLockPrivateKey(c, env) \in AnyKey
<1>1. own[c] \in AnyKey /\ home[Machine[c]] \in AnyKey
  BY DEF TypeOK, Machines
<1>2. CASE env # NoKey
  BY <1>2 DEF LoadLockPrivateKey
<1>3. CASE env = NoKey /\ own[c] # NoKey
  BY <1>1, <1>3 DEF LoadLockPrivateKey
<1>4. CASE env = NoKey /\ own[c] = NoKey
  BY <1>1, <1>4 DEF LoadLockPrivateKey
<1> QED
  BY <1>2, <1>3, <1>4

\* The fields of a process.
LEMMA ProcessFields ==
    ASSUME TypeOK, NEW p \in Processes
    PROVE  /\ proc[p].pc \in PCs /\ proc[p].key \in AnyKey /\ proc[p].filed \in BOOLEAN
           /\ proc[p].lock \in Locks /\ proc[p].checked \in Lists /\ proc[p].ran \in Lists
           /\ proc[p].fresh \in AnyKey
  BY DEF TypeOK, ProcessTypes

LEMMA CommandFields ==
    ASSUME Given, NEW p \in Active
    PROVE  At(p) \in Checkouts /\ proc[p].cmd.env \in AnyKey /\ Op(p) \in Ops
  BY DEF Given, Commands, At, Op

LEMMA WrittenFacts ==
    ASSUME TypeOK, Given, Covered, NEW p \in Active, NEW list \in Lists
    PROVE  /\ Written(p, list) \in Locks
           /\ Covers(Written(p, list))
<1>1. p \in Processes /\ proc[p].lock \in Locks /\ Covers(proc[p].lock)
  BY ProcessFields DEF Active, Covered
<1>2. SessionKey(p) \in AnyKey
  BY PrivateKeyType, CommandFields DEF SessionKey, AnyKey
<1> QED
  BY <1>1, <1>2, WriteType, WriteCovers DEF Written

------------------------------------------------------------------------------
(* Types *)

LEMMA IdleType == Idle \in ProcessTypes
  BY NoLockType, ListFacts DEF Idle, PCs, AnyKey, ProcessTypes

LEMMA TypeInit == Init => TypeOK
<1> SUFFICES ASSUME Init PROVE TypeOK
  OBVIOUS
<1>1. PICK w \in Worlds : /\ commands = w.commands /\ budget = w.budget /\ edits = w.edits
                          /\ lock = w.lock /\ inline = w.inline /\ pub = w.pub
                          /\ home = w.home /\ made = w.made
  BY DEF Init
<1>2. /\ commands \subseteq Commands /\ budget \in Nat /\ edits \in Nat
      /\ lock \in [Checkouts -> Locks] /\ inline \in [Checkouts -> AnyKey]
      /\ pub \in [Checkouts -> AnyKey] /\ home \in [Machines -> AnyKey] /\ made \in AnyKey
  BY <1>1, WorldsAssumption DEF WorldsAssumption
<1>3. Idle \in ProcessTypes
  BY IdleType
<1>4. proc \in [Processes -> ProcessTypes]
  BY <1>3 DEF Init
<1>5. signed \subseteq Signatures
  BY <1>2, LockFields DEF Init
<1> QED
  BY <1>2, <1>4, <1>5 DEF Init, TypeOK, AnyKey

\* What holds of a process that takes a step.
LEMMA EndsType ==
    ASSUME TypeOK, NEW p \in Processes, Ends(p)
    PROVE  proc' \in [Processes -> ProcessTypes]
  BY IdleType DEF TypeOK, Ends

LEMMA WritesType ==
    ASSUME TypeOK, NEW p \in Active, NEW l \in Locks, Writes(p, l)
    PROVE  /\ lock' \in [Checkouts -> Locks]
           /\ signed' \subseteq Signatures
           /\ disturbed' \subseteq Processes
  BY LockFields DEF TypeOK, Writes, Disturbs, Active

LEMMA TomlType ==
    ASSUME TypeOK, NEW p \in Processes
    PROVE  Toml(p).inline \in AnyKey /\ Toml(p).listed \in BOOLEAN
<1>1. proc[p].filed \in BOOLEAN /\ proc[p].key \in AnyKey
  BY ProcessFields
<1> QED
  BY <1>1 DEF Toml, AnyKey

LEMMA NewListType ==
    ASSUME TypeOK, NEW p \in Active, Given, NEW S \in SUBSET Packages
    PROVE  [npm |-> proc[p].lock.list.npm \cup S, member |-> Remembered(p)] \in Lists
<1>1. p \in Processes
  BY DEF Active
<1>2. proc[p].lock.list.npm \in SUBSET Packages /\ proc[p].lock.list.member \in Entries
  BY <1>1, ProcessFields, LockFields DEF Lists
<1>3. Remembered(p) \in Entries
  BY <1>2, CommandFields DEF Remembered, Entries, TypeOK
<1> QED
  BY <1>2, <1>3 DEF Lists

LEMMA AddOrRemoveWrites ==
    ASSUME TypeOK, NEW p \in Processes, AddOrRemove(p)
    PROVE  \E list \in Lists : Writes(p, Written(p, list))
<1>1. proc[p].lock.list \in Lists
  BY ProcessFields, LockFields
<1>2. PICK n \in Packages :
        Writes(p, Written(p, [proc[p].lock.list EXCEPT !.npm =
          IF Op(p) = "add" THEN proc[p].lock.list.npm \cup {n}
          ELSE proc[p].lock.list.npm \ {n}]))
  BY DEF AddOrRemove
<1>3. [proc[p].lock.list EXCEPT !.npm =
          IF Op(p) = "add" THEN proc[p].lock.list.npm \cup {n}
          ELSE proc[p].lock.list.npm \ {n}] \in Lists
  BY <1>1 DEF Lists
<1> QED
  BY <1>2, <1>3

LEMMA TypeStep ==
    ASSUME TypeOK, Given, Covered, [Next]_vars
    PROVE  TypeOK'
<1> USE DEF source, config, keys, provenance
<1>a. ASSUME NEW p \in Processes, NEW cmd \in commands, Open(p, cmd) PROVE TypeOK'
  <2>1. cmd \in Commands
    BY <1>a DEF TypeOK
  <2>2. /\ First(cmd.op) \in PCs /\ PublicKey(cmd.at) \in AnyKey /\ Filed(cmd.at) \in BOOLEAN
        /\ lock[cmd.at] \in Locks
    <3>1. cmd.at \in Checkouts /\ cmd.op \in Ops
      BY <2>1 DEF Commands
    <3>2. inline[cmd.at] \in AnyKey /\ pub[cmd.at] \in AnyKey /\ listed[cmd.at] \in BOOLEAN
      BY <3>1 DEF TypeOK
    <3>3. First(cmd.op) \in PCs
      BY <3>1 DEF First, PCs
    <3> QED
      BY <3>1, <3>2, <3>3 DEF PublicKey, Filed, TypeOK
  <2>3. [Idle EXCEPT !.pc = First(cmd.op), !.cmd = cmd, !.key = PublicKey(cmd.at),
                     !.filed = Filed(cmd.at), !.lock = lock[cmd.at]] \in ProcessTypes
    BY <2>1, <2>2, IdleType DEF ProcessTypes
  <2>4. proc' \in [Processes -> ProcessTypes]
    BY <1>a, <2>3 DEF Open, TypeOK
  <2> QED
    BY <1>a, <2>4 DEF Open, TypeOK
<1>b. ASSUME NEW p \in Processes, Check(p) PROVE TypeOK'
  <2>1. CASE Accepted(p)
    <3>1. PICK x \in PCs :
            proc' = [proc EXCEPT ![p].pc = x, ![p].checked = proc[p].lock.list]
      <4>1. (IF Prefetches(p) THEN "prefetch" ELSE "spawn") \in PCs
        BY DEF PCs
      <4>2. proc' = [proc EXCEPT ![p].pc = IF Prefetches(p) THEN "prefetch" ELSE "spawn",
                                 ![p].checked = proc[p].lock.list]
        BY <1>b, <2>1 DEF Check
      <4> QED
        BY <4>1, <4>2
    <3>2. [proc[p] EXCEPT !.pc = x, !.checked = proc[p].lock.list] \in ProcessTypes
      <4>1. proc[p] \in ProcessTypes /\ proc[p].lock.list \in Lists
        BY ProcessFields, LockFields DEF TypeOK
      <4> QED BY <4>1 DEF ProcessTypes
    <3>3. proc' \in [Processes -> ProcessTypes]
      BY <3>1, <3>2 DEF TypeOK
    <3> QED
      BY <1>b, <3>3 DEF Check, TypeOK
  <2>2. CASE ~Accepted(p)
    BY <1>b, <2>2, EndsType DEF Check, TypeOK
  <2> QED
    BY <2>1, <2>2
<1>c. ASSUME NEW p \in Processes, Prefetch(p) PROVE TypeOK'
  <2>1. p \in Active
    BY <1>c DEF Active, Prefetch
  <2>2. PICK S \in Taken(p) :
          LET w == Written(p, [npm |-> proc[p].lock.list.npm \cup S, member |-> Remembered(p)])
          IN  Writes(p, w) /\ proc' = [proc EXCEPT ![p].lock = w, ![p].pc = "spawn"]
    BY <1>c DEF Prefetch
  <2> DEFINE w == Written(p, [npm |-> proc[p].lock.list.npm \cup S, member |-> Remembered(p)])
  <2>3. S \in SUBSET Packages
    BY DEF Taken
  <2>4. w \in Locks
    BY <2>1, <2>3, NewListType, WrittenFacts
  <2>5. Writes(p, w) /\ proc' = [proc EXCEPT ![p].lock = w, ![p].pc = "spawn"]
    BY <2>2
  <2> HIDE DEF w
  <2>6. [proc[p] EXCEPT !.lock = w, !.pc = "spawn"] \in ProcessTypes
    <3>1. proc[p] \in ProcessTypes
      BY DEF TypeOK
    <3> QED BY <2>4, <3>1 DEF ProcessTypes, PCs
  <2> QED
    BY <1>c, <2>1, <2>4, <2>5, <2>6, WritesType DEF Prefetch, TypeOK
<1>d. ASSUME NEW p \in Processes, Spawn(p) PROVE TypeOK'
  <2>1. p \in Active
    BY <1>d DEF Active, Spawn
  <2>2. lock[At(p)].list \in Lists
    BY <2>1, CommandFields, LockFields DEF TypeOK
  <2>3. [proc[p] EXCEPT !.pc = "wait", !.ran = lock[At(p)].list] \in ProcessTypes
    <3>1. proc[p] \in ProcessTypes
      BY DEF TypeOK
    <3> QED BY <2>2, <3>1 DEF ProcessTypes, PCs
  <2> QED
    BY <1>d, <2>3 DEF Spawn, TypeOK
<1>e. ASSUME NEW p \in Processes, RunEnds(p) PROVE TypeOK'
  <2>1. p \in Active
    BY <1>e DEF Active, RunEnds
  <2>2. Written(p, proc[p].lock.list) \in Locks
    BY <2>1, ProcessFields, LockFields, WrittenFacts
  <2> QED
    BY <1>e, <2>1, <2>2, WritesType, EndsType DEF RunEnds, TypeOK
<1>f. ASSUME NEW p \in Processes, Snapshot(p) PROVE TypeOK'
  <2>1. p \in Active
    BY <1>f DEF Active, Snapshot
  <2>2. PICK S \in SUBSET Packages :
          Writes(p, Written(p, [npm |-> proc[p].lock.list.npm \cup S, member |-> Remembered(p)]))
    BY <1>f DEF Snapshot
  <2>3. Written(p, [npm |-> proc[p].lock.list.npm \cup S, member |-> Remembered(p)]) \in Locks
    BY <2>1, NewListType, WrittenFacts
  <2> QED
    BY <1>f, <2>1, <2>2, <2>3, WritesType, EndsType DEF Snapshot, TypeOK
<1>g. ASSUME NEW p \in Processes, AddOrRemove(p) PROVE TypeOK'
  <2>1. p \in Active
    BY <1>g DEF Active, AddOrRemove
  <2>2. PICK list \in Lists : Writes(p, Written(p, list))
    BY <1>g, AddOrRemoveWrites
  <2>3. Written(p, list) \in Locks
    BY <2>1, WrittenFacts
  <2> QED
    BY <1>g, <2>1, <2>2, <2>3, WritesType, EndsType, TomlType DEF AddOrRemove, TypeOK
<1>h. ASSUME NEW p \in Processes, Sign(p) PROVE TypeOK'
  <2>1. p \in Active
    BY <1>h DEF Active, Sign
  <2> DEFINE k == LoadLockPrivateKey(At(p), proc[p].cmd.env)
  <2>2. k \in AnyKey
    BY <2>1, PrivateKeyType, CommandFields
  <2>3. WriteLockfile(proc[p].lock, proc[p].lock.list, k) \in Locks
    BY <2>2, ProcessFields, LockFields, WriteType
  <2>4. CASE k = NoKey
    BY <1>h, <2>4, EndsType DEF Sign, TypeOK
  <2>5. CASE k # NoKey
    <3>1. Writes(p, WriteLockfile(proc[p].lock, proc[p].lock.list, k))
      BY <1>h, <2>5 DEF Sign
    <3> QED
      BY <1>h, <2>1, <2>3, <3>1, WritesType, EndsType DEF Sign, TypeOK
  <2> QED
    BY <2>4, <2>5
<1>i. ASSUME NEW p \in Processes, WritePrivate(p) PROVE TypeOK'
  <2>1. p \in Active
    BY <1>i DEF Active, WritePrivate
  <2>2. made' \in AnyKey
    BY <1>i, KeysAssumption DEF WritePrivate, TypeOK, AnyKey, Keys, NoKey, KeysAssumption
  <2>3. home' \in [Machines -> AnyKey] /\ own' \in [Checkouts -> AnyKey]
    BY <1>i, <2>2 DEF WritePrivate, TypeOK
  <2>4. disturbed' \subseteq Processes
    BY <1>i DEF WritePrivate, TypeOK, Disturbs, Active
  <2>5. proc' = [proc EXCEPT ![p].pc = "public", ![p].fresh = made']
    BY <1>i DEF WritePrivate
  <2>6. proc' \in [Processes -> ProcessTypes]
    <3>1. [proc[p] EXCEPT !.pc = "public", !.fresh = made'] \in ProcessTypes
      <4>1. proc[p] \in ProcessTypes
        BY DEF TypeOK
      <4> QED BY <2>2, <4>1 DEF ProcessTypes, PCs
    <3> QED
      BY <2>5, <3>1 DEF TypeOK
  <2> QED
    BY <1>i, <2>2, <2>3, <2>4, <2>6 DEF WritePrivate, TypeOK
<1>j. ASSUME NEW p \in Processes, WritePublic(p) PROVE TypeOK'
  <2>1. pub' \in [Checkouts -> AnyKey] /\ inline' \in [Checkouts -> AnyKey]
    BY <1>j, ProcessFields DEF WritePublic, TypeOK, AnyKey
  <2>2. disturbed' \subseteq Processes
    BY <1>j DEF WritePublic, TypeOK, Disturbs, Active
  <2> QED
    BY <1>j, <2>1, <2>2, EndsType DEF WritePublic, TypeOK
<1>k. ASSUME NEW p \in Processes, Dies(p) PROVE TypeOK'
  BY <1>k, EndsType DEF Dies, TypeOK
<1>l. ASSUME NEW p \in Processes, VerifyAttestations(p) PROVE TypeOK'
  BY <1>l, EndsType DEF VerifyAttestations, TypeOK
<1>m. ASSUME NEW c \in Checkouts, Edit(c) PROVE TypeOK'
  <2>1. PICK n \in Packages : lock' = [lock EXCEPT ![c].list.npm = IF n \in @ THEN @ \ {n}
                                                                   ELSE @ \cup {n}]
    BY <1>m DEF Edit
  <2>2. lock[c] \in Locks /\ lock[c].list \in Lists
    BY LockFields DEF TypeOK
  <2>3. lock' \in [Checkouts -> Locks]
    BY <2>1, <2>2 DEF TypeOK, Locks, Lists
  <2> QED
    BY <1>m, <2>3 DEF Edit, TypeOK, Active
<1>n. ASSUME NEW c \in Checkouts, EditMember(c) PROVE TypeOK'
  BY <1>n DEF EditMember, TypeOK, Active
<1>o. ASSUME NEW pair \in Clones, Pull(pair[1], pair[2]) PROVE TypeOK'
  <2>1. pair[1] \in Checkouts /\ pair[2] \in Checkouts
    BY CheckoutsAssumption DEF CheckoutsAssumption
  <2> QED
    BY <1>o, <2>1 DEF Pull, TypeOK, Active
<1>p. CASE Over \/ UNCHANGED vars
  BY <1>p DEF Over, TypeOK, vars
<1> QED
  BY <1>a, <1>b, <1>c, <1>d, <1>e, <1>f, <1>g, <1>h, <1>i, <1>j, <1>k, <1>l, <1>m, <1>n, <1>o, <1>p
  DEF Next, Step

------------------------------------------------------------------------------
(* What steps have in common *)

\* What p has of its session stays, or p is done; the lock it writes is made from the one it
\* holds; and whoever else works notices when something is written.
Shape(p) ==
    /\ p \in Active
    /\ \A q \in Processes \ {p} : proc'[q] = proc[q]
    /\ \/ proc'[p] = Idle
       \/ /\ proc'[p].pc \notin {"idle", "private"}
          /\ proc'[p].pc = "public" => proc[p].pc = "private"
          /\ proc'[p].cmd = proc[p].cmd
          /\ proc'[p].key = proc[p].key /\ proc'[p].filed = proc[p].filed
    /\ \/ /\ UNCHANGED <<lock, signed>>
          /\ proc'[p] = Idle \/ proc'[p].lock = proc[p].lock
          /\ UNCHANGED <<inline, listed, pub>> \/ (Disturbs(p) /\ proc'[p] = Idle)
       \/ \E list \in Lists, k \in AnyKey :
             /\ Writes(p, WriteLockfile(proc[p].lock, list, k))
             /\ \/ proc'[p] = Idle
                \/ /\ proc'[p].lock = WriteLockfile(proc[p].lock, list, k)
                   /\ UNCHANGED <<inline, listed, pub>>
    /\ disturbed' = disturbed \/ Disturbs(p)

LEMMA WrittenShape ==
    ASSUME TypeOK, Given, NEW p \in Active, NEW list
    PROVE  \E k \in AnyKey : Written(p, list) = WriteLockfile(proc[p].lock, list, k)
<1>1. SessionKey(p) \in AnyKey
  BY PrivateKeyType, CommandFields DEF SessionKey, AnyKey
<1> QED
  BY <1>1 DEF Written

LEMMA StepShape ==
    ASSUME TypeOK, Given, NEW p \in Processes, Step(p)
    PROVE  Shape(p)
<1> USE DEF config, keys, source, provenance
<1>0. /\ Ends(p) => proc'[p] = Idle /\ \A q \in Processes \ {p} : proc'[q] = proc[q]
      /\ \A l : Writes(p, l) => Disturbs(p)
  BY DEF Ends, TypeOK, Writes
<1>1. ASSUME Check(p) PROVE Shape(p)
  <2>1. CASE Accepted(p)
    <3>1. PICK x \in {"prefetch", "spawn"} :
            proc' = [proc EXCEPT ![p].pc = x, ![p].checked = proc[p].lock.list]
      <4>1. (IF Prefetches(p) THEN "prefetch" ELSE "spawn") \in {"prefetch", "spawn"}
        OBVIOUS
      <4>2. proc' = [proc EXCEPT ![p].pc = IF Prefetches(p) THEN "prefetch" ELSE "spawn",
                                 ![p].checked = proc[p].lock.list]
        BY <1>1, <2>1 DEF Check
      <4> QED
        BY <4>1, <4>2
    <3>2. /\ proc'[p].pc = x /\ proc'[p].cmd = proc[p].cmd /\ proc'[p].lock = proc[p].lock
          /\ proc'[p].key = proc[p].key /\ proc'[p].filed = proc[p].filed
          /\ \A q \in Processes \ {p} : proc'[q] = proc[q]
      BY <3>1 DEF TypeOK, ProcessTypes
    <3> QED
      BY <1>1, <3>2 DEF Check, Shape, Active
  <2>2. CASE ~Accepted(p)
    BY <1>0, <1>1, <2>2 DEF Check, Shape, Active
  <2> QED
    BY <2>1, <2>2
<1>2. ASSUME Prefetch(p) PROVE Shape(p)
  <2>1. p \in Active
    BY <1>2 DEF Prefetch, Active
  <2>2. PICK S \in SUBSET Packages :
          LET w == Written(p, [npm |-> proc[p].lock.list.npm \cup S, member |-> Remembered(p)])
          IN  Writes(p, w) /\ proc' = [proc EXCEPT ![p].lock = w, ![p].pc = "spawn"]
    BY <1>2 DEF Prefetch, Taken
  <2>3. PICK list \in Lists :
          /\ Writes(p, Written(p, list))
          /\ proc' = [proc EXCEPT ![p].lock = Written(p, list), ![p].pc = "spawn"]
    BY <2>1, <2>2, NewListType
  <2>4. PICK k \in AnyKey : Written(p, list) = WriteLockfile(proc[p].lock, list, k)
    BY <2>1, WrittenShape
  <2>5. /\ proc'[p].pc = "spawn" /\ proc'[p].cmd = proc[p].cmd
        /\ proc'[p].lock = Written(p, list)
        /\ proc'[p].key = proc[p].key /\ proc'[p].filed = proc[p].filed
        /\ \A q \in Processes \ {p} : proc'[q] = proc[q]
    BY <2>3 DEF TypeOK, ProcessTypes
  <2>6. UNCHANGED <<inline, listed, pub>>
    BY <1>2 DEF Prefetch
  <2> QED
    BY <1>0, <2>1, <2>3, <2>4, <2>5, <2>6 DEF Shape
<1>3. ASSUME Spawn(p) PROVE Shape(p)
  <2>1. /\ proc'[p].pc = "wait" /\ proc'[p].cmd = proc[p].cmd /\ proc'[p].lock = proc[p].lock
        /\ proc'[p].key = proc[p].key /\ proc'[p].filed = proc[p].filed
        /\ \A q \in Processes \ {p} : proc'[q] = proc[q]
    BY <1>3 DEF Spawn, TypeOK, ProcessTypes
  <2> QED
    BY <1>3, <2>1 DEF Spawn, Shape, Active
<1>4. ASSUME RunEnds(p) PROVE Shape(p)
  <2>1. p \in Active
    BY <1>4 DEF RunEnds, Active
  <2>2. proc[p].lock.list \in Lists
    BY ProcessFields, LockFields
  <2>3. PICK k \in AnyKey :
          Written(p, proc[p].lock.list) = WriteLockfile(proc[p].lock, proc[p].lock.list, k)
    BY <2>1, WrittenShape
  <2>4. Writes(p, WriteLockfile(proc[p].lock, proc[p].lock.list, k)) /\ Ends(p)
    BY <1>4, <2>3 DEF RunEnds
  <2> QED
    BY <1>0, <2>1, <2>2, <2>4 DEF Shape
<1>5. ASSUME Snapshot(p) PROVE Shape(p)
  <2>1. p \in Active
    BY <1>5 DEF Snapshot, Active
  <2>2. PICK S \in SUBSET Packages :
          Writes(p, Written(p, [npm |-> proc[p].lock.list.npm \cup S, member |-> Remembered(p)]))
    BY <1>5 DEF Snapshot
  <2>3. PICK list \in Lists : Writes(p, Written(p, list))
    BY <2>1, <2>2, NewListType
  <2>4. PICK k \in AnyKey : Written(p, list) = WriteLockfile(proc[p].lock, list, k)
    BY <2>1, WrittenShape
  <2> QED
    BY <1>0, <1>5, <2>1, <2>3, <2>4 DEF Shape, Snapshot
<1>6. ASSUME AddOrRemove(p) PROVE Shape(p)
  <2>1. p \in Active
    BY <1>6 DEF AddOrRemove, Active
  <2>2. PICK list \in Lists : Writes(p, Written(p, list))
    BY <1>6, AddOrRemoveWrites
  <2>3. PICK k \in AnyKey : Written(p, list) = WriteLockfile(proc[p].lock, list, k)
    BY <2>1, WrittenShape
  <2>4. Ends(p)
    BY <1>6 DEF AddOrRemove
  <2> QED
    BY <1>0, <2>1, <2>2, <2>3, <2>4 DEF Shape
<1>7. ASSUME Sign(p) PROVE Shape(p)
  <2> DEFINE k == LoadLockPrivateKey(At(p), proc[p].cmd.env)
  <2>1. p \in Active
    BY <1>7 DEF Sign, Active
  <2>2. k \in AnyKey /\ proc[p].lock.list \in Lists
    BY <2>1, PrivateKeyType, CommandFields, ProcessFields, LockFields
  <2>3. Ends(p) /\ UNCHANGED <<inline, listed, pub>>
    BY <1>7 DEF Sign
  <2>4. CASE k = NoKey
    <3>1. UNCHANGED <<lock, signed, disturbed>>
      BY <1>7, <2>4 DEF Sign
    <3> QED
      BY <1>0, <2>1, <2>3, <3>1 DEF Shape
  <2>5. CASE k # NoKey
    <3>1. Writes(p, WriteLockfile(proc[p].lock, proc[p].lock.list, k))
      BY <1>7, <2>5 DEF Sign
    <3> HIDE DEF k
    <3> QED
      BY <1>0, <2>1, <2>2, <2>3, <3>1 DEF Shape
  <2> QED
    BY <2>4, <2>5
<1>8. ASSUME WritePrivate(p) PROVE Shape(p)
  <2>1. /\ proc'[p].pc = "public" /\ proc'[p].cmd = proc[p].cmd /\ proc'[p].lock = proc[p].lock
        /\ proc'[p].key = proc[p].key /\ proc'[p].filed = proc[p].filed
        /\ \A q \in Processes \ {p} : proc'[q] = proc[q]
    <3>1. proc' = [proc EXCEPT ![p].pc = "public", ![p].fresh = made']
      BY <1>8 DEF WritePrivate
    <3> QED
      BY <3>1 DEF TypeOK, ProcessTypes
  <2>2. /\ p \in Active /\ proc[p].pc = "private" /\ Disturbs(p)
        /\ UNCHANGED <<lock, signed, inline, listed, pub>>
    BY <1>8 DEF WritePrivate, Active
  <2> QED
    BY <2>1, <2>2 DEF Shape
<1>9. ASSUME WritePublic(p) PROVE Shape(p)
  BY <1>0, <1>9 DEF WritePublic, Shape, Active
<1>10. ASSUME Dies(p) PROVE Shape(p)
  BY <1>0, <1>10 DEF Dies, Shape, Active
<1>11. ASSUME VerifyAttestations(p) PROVE Shape(p)
  <2>1. p \in Active /\ Ends(p) /\ UNCHANGED <<lock, signed, inline, listed, pub, disturbed>>
    BY <1>11 DEF VerifyAttestations, Active
  <2> QED
    BY <1>0, <2>1 DEF Shape
<1> QED
  BY <1>1, <1>2, <1>3, <1>4, <1>5, <1>6, <1>7, <1>8, <1>9, <1>10, <1>11 DEF Step

\* The kinds of steps there are.
LEMMA NextCases ==
    ASSUME Next
    PROVE  \/ \E p \in Processes : Step(p)
           \/ \E p \in Processes : \E cmd \in commands : Open(p, cmd)
           \/ \E c \in Checkouts : Edit(c)
           \/ \E c \in Checkouts : EditMember(c)
           \/ \E from, to \in Checkouts : Pull(from, to)
           \/ UNCHANGED vars
<1>1. \A pair \in Clones : pair[1] \in Checkouts /\ pair[2] \in Checkouts
  BY CheckoutsAssumption DEF CheckoutsAssumption
<1> QED
  BY <1>1 DEF Next, Over

\* What an opened session begins with.
LEMMA OpenShape ==
    ASSUME TypeOK, NEW p \in Processes, NEW cmd \in commands, Open(p, cmd)
    PROVE  /\ cmd \in Commands /\ p \notin Active
           /\ \A q \in Processes \ {p} : proc'[q] = proc[q]
           /\ proc'[p].pc = First(cmd.op) /\ proc'[p].cmd = cmd
           /\ proc'[p].key = PublicKey(cmd.at) /\ proc'[p].filed = Filed(cmd.at)
           /\ proc'[p].lock = lock[cmd.at]
           /\ disturbed' = disturbed \ {p}
           /\ UNCHANGED <<lock, inline, listed, pub, signed>>
<1>1. cmd \in Commands
  BY DEF TypeOK
<1>2. proc'[p] = [Idle EXCEPT !.pc = First(cmd.op), !.cmd = cmd, !.key = PublicKey(cmd.at),
                              !.filed = Filed(cmd.at), !.lock = lock[cmd.at]]
  BY DEF Open, TypeOK
<1> QED
  BY <1>1, <1>2 DEF Open, TypeOK, Active, Idle, config

------------------------------------------------------------------------------
(* Each part of the invariant *)

LEMMA FirstFacts ==
    ASSUME NEW op \in Ops
    PROVE  /\ First(op) \notin {"idle", "public", "prefetch", "spawn", "wait"}
           /\ First(op) = "private" => op = "keygen"
  BY DEF First, Ops

LEMMA GivenStep ==
    ASSUME TypeOK, Given, Next
    PROVE  Given'
<1>1. ASSUME NEW p \in Processes, Step(p) PROVE Given'
  <2>1. Shape(p)
    BY <1>1, StepShape
  <2>2. ASSUME NEW q \in Active'
        PROVE  /\ proc'[q].cmd \in Commands
               /\ proc'[q].pc \in {"private", "public"} => Op(q)' = "keygen"
    <3>1. CASE q # p
      BY <2>1, <2>2, <3>1 DEF Shape, Given, Active, Op
    <3>2. CASE q = p
      <4>1. proc'[p] # Idle
        BY <2>2, <3>2 DEF Active, Idle
      <4>2. /\ proc'[p].pc \notin {"idle", "private"}
            /\ proc'[p].pc = "public" => proc[p].pc = "private"
            /\ proc'[p].cmd = proc[p].cmd
        BY <2>1, <4>1 DEF Shape
      <4> QED
        BY <2>1, <3>2, <4>2 DEF Shape, Given, Op
    <3> QED
      BY <3>1, <3>2
  <2> QED
    BY <2>2 DEF Given
<1>2. ASSUME NEW p \in Processes, NEW cmd \in commands, Open(p, cmd) PROVE Given'
  <2>1. cmd.op \in Ops
    BY <1>2, OpenShape DEF Commands
  <2>2. ASSUME NEW q \in Active'
        PROVE  /\ proc'[q].cmd \in Commands
               /\ proc'[q].pc \in {"private", "public"} => Op(q)' = "keygen"
    <3>1. CASE q # p
      BY <1>2, <2>2, <3>1, OpenShape DEF Given, Active, Op
    <3>2. CASE q = p
      BY <1>2, <2>1, <3>2, OpenShape, FirstFacts DEF Op
    <3> QED
      BY <3>1, <3>2
  <2> QED
    BY <2>2 DEF Given
<1>3. CASE UNCHANGED proc
  BY <1>3 DEF Given, Active, Op
<1> QED
  BY <1>1, <1>2, <1>3, NextCases DEF Edit, EditMember, Pull, vars

LEMMA IdleCovers == Covers(Idle.lock)
  BY DEF Covers, Idle, NoLock

LEMMA CoveredStep ==
    ASSUME TypeOK, Given, Covered, Next
    PROVE  Covered'
<1>1. ASSUME NEW p \in Processes, Step(p) PROVE Covered'
  <2>1. Shape(p)
    BY <1>1, StepShape
  <2>2. CASE UNCHANGED lock /\ (proc'[p] = Idle \/ proc'[p].lock = proc[p].lock)
    BY <2>1, <2>2, IdleCovers DEF Shape, Covered
  <2>3. ASSUME NEW list \in Lists, NEW k \in AnyKey,
               Writes(p, WriteLockfile(proc[p].lock, list, k)),
               proc'[p] = Idle \/ proc'[p].lock = WriteLockfile(proc[p].lock, list, k)
        PROVE  Covered'
    <3>1. Covers(WriteLockfile(proc[p].lock, list, k))
      BY ProcessFields, WriteCovers DEF Covered
    <3>2. \A c \in Checkouts : Covers(lock'[c])
      BY <2>3, <3>1 DEF Writes, Covered, TypeOK
    <3>3. \A q \in Processes : Covers(proc'[q].lock)
      BY <2>1, <2>3, <3>1, IdleCovers DEF Shape, Covered
    <3> QED
      BY <3>2, <3>3 DEF Covered
  <2> QED
    BY <2>1, <2>2, <2>3 DEF Shape
<1>2. ASSUME NEW p \in Processes, NEW cmd \in commands, Open(p, cmd) PROVE Covered'
  <2>1. Covers(lock[cmd.at])
    BY <1>2, OpenShape DEF Commands, Covered
  <2> QED
    BY <1>2, <2>1, OpenShape DEF Covered
<1>3. ASSUME NEW c \in Checkouts, Edit(c) PROVE Covered'
  <2>1. PICK n \in Packages : lock' = [lock EXCEPT ![c].list.npm = IF n \in @ THEN @ \ {n}
                                                                   ELSE @ \cup {n}]
    BY <1>3 DEF Edit
  <2>2. \A d \in Checkouts : /\ lock'[d].digest = lock[d].digest
                             /\ lock'[d].signature = lock[d].signature
    BY <2>1 DEF TypeOK, Locks
  <2> QED
    BY <1>3, <2>2 DEF Edit, Covered, Covers
<1>4. ASSUME NEW from \in Checkouts, NEW to \in Checkouts, Pull(from, to) PROVE Covered'
  BY <1>4 DEF Pull, Covered, TypeOK
<1>5. CASE UNCHANGED <<lock, proc>>
  BY <1>5 DEF Covered
<1> QED
  BY <1>1, <1>2, <1>3, <1>4, <1>5, NextCases DEF EditMember, vars

LEMMA RecordedStep ==
    ASSUME TypeOK, Given, Recorded, Next
    PROVE  Recorded'
<1> USE DEF Recorded
<1>0. Idle.lock.signature = Unsigned
  BY DEF Idle, NoLock
<1>1. ASSUME NEW p \in Processes, Step(p) PROVE Recorded'
  <2>1. Shape(p)
    BY <1>1, StepShape
  <2>2. CASE UNCHANGED <<lock, signed>> /\ (proc'[p] = Idle \/ proc'[p].lock = proc[p].lock)
    BY <1>0, <2>1, <2>2 DEF Shape
  <2>3. ASSUME NEW list \in Lists, NEW k \in AnyKey,
               Writes(p, WriteLockfile(proc[p].lock, list, k)),
               proc'[p] = Idle \/ proc'[p].lock = WriteLockfile(proc[p].lock, list, k)
        PROVE  Recorded'
    <3> DEFINE w == WriteLockfile(proc[p].lock, list, k)
    <3>1. lock' = [lock EXCEPT ![At(p)] = w] /\ signed' = signed \cup {w.signature}
      BY <2>3 DEF Writes
    <3>2. proc'[p] = Idle \/ proc'[p].lock = w
      BY <2>3
    <3> HIDE DEF w
    <3>3. \A c \in Checkouts : lock'[c].signature \in signed' \cup {Unsigned}
      BY <3>1 DEF TypeOK
    <3>4. \A q \in Processes : proc'[q].lock.signature \in signed' \cup {Unsigned}
      BY <1>0, <2>1, <3>1, <3>2 DEF Shape
    <3> QED
      BY <3>3, <3>4
  <2> QED
    BY <2>1, <2>2, <2>3 DEF Shape
<1>2. ASSUME NEW p \in Processes, NEW cmd \in commands, Open(p, cmd) PROVE Recorded'
  <2>1. lock[cmd.at].signature \in signed \cup {Unsigned}
    BY <1>2, OpenShape DEF Commands
  <2> QED
    BY <1>2, <2>1, OpenShape
<1>3. ASSUME NEW c \in Checkouts, Edit(c) PROVE Recorded'
  <2>1. PICK n \in Packages : lock' = [lock EXCEPT ![c].list.npm = IF n \in @ THEN @ \ {n}
                                                                   ELSE @ \cup {n}]
    BY <1>3 DEF Edit
  <2>2. \A d \in Checkouts : lock'[d].signature = lock[d].signature
    BY <2>1 DEF TypeOK, Locks
  <2> QED
    BY <1>3, <2>2 DEF Edit
<1>4. ASSUME NEW from \in Checkouts, NEW to \in Checkouts, Pull(from, to) PROVE Recorded'
  BY <1>4 DEF Pull, TypeOK
<1>5. CASE UNCHANGED <<lock, proc, signed>>
  BY <1>5
<1> QED
  BY <1>1, <1>2, <1>3, <1>4, <1>5, NextCases DEF EditMember, vars

LEMMA FreshStep ==
    ASSUME TypeOK, Given, Fresh, Next
    PROVE  Fresh'
<1>1. ASSUME NEW p \in Processes, Step(p) PROVE Fresh'
  <2>1. Shape(p)
    BY <1>1, StepShape
  <2>2. ASSUME NEW q \in Active' \ disturbed'
        PROVE  /\ proc'[q].lock = lock[At(q)]'
               /\ proc'[q].key = PublicKey(At(q))'
               /\ proc'[q].filed = Filed(At(q))'
    <3>1. q \in Active /\ q \notin disturbed /\ (q # p => disturbed' = disturbed /\ ~Disturbs(p))
      BY <2>1, <2>2 DEF Shape, Active, Disturbs
    <3>2. CASE q # p
      <4>1. UNCHANGED <<lock, inline, listed, pub>> /\ proc'[q] = proc[q]
        BY <2>1, <3>1, <3>2 DEF Shape, Writes, Active
      <4> QED
        BY <3>1, <4>1 DEF Fresh, PublicKey, Filed, At
    <3>3. CASE q = p
      <4>1. proc'[p] # Idle
        BY <2>2, <3>3 DEF Active, Idle
      <4>2. /\ At(p)' = At(p) /\ proc'[p].key = proc[p].key /\ proc'[p].filed = proc[p].filed
            /\ UNCHANGED <<inline, listed, pub>>
        BY <2>1, <4>1 DEF Shape, At
      <4>3. proc'[p].lock = lock'[At(p)]
        <5>1. CASE UNCHANGED lock /\ proc'[p].lock = proc[p].lock
          BY <3>1, <3>3, <5>1 DEF Fresh
        <5>2. ASSUME NEW l, Writes(p, l), proc'[p].lock = l PROVE proc'[p].lock = lock'[At(p)]
          BY <3>1, <3>3, <5>2, CommandFields DEF Writes, TypeOK
        <5> QED
          BY <2>1, <4>1, <5>1, <5>2 DEF Shape
      <4> QED
        BY <3>1, <3>3, <4>2, <4>3 DEF Fresh, PublicKey, Filed
    <3> QED
      BY <3>2, <3>3
  <2> QED
    BY <2>2 DEF Fresh
<1>2. ASSUME NEW p \in Processes, NEW cmd \in commands, Open(p, cmd) PROVE Fresh'
  <2>1. ASSUME NEW q \in Active' \ disturbed'
        PROVE  /\ proc'[q].lock = lock[At(q)]'
               /\ proc'[q].key = PublicKey(At(q))'
               /\ proc'[q].filed = Filed(At(q))'
    <3>1. CASE q # p
      BY <1>2, <2>1, <3>1, OpenShape DEF Fresh, Active, PublicKey, Filed, At
    <3>2. CASE q = p
      BY <1>2, <3>2, OpenShape DEF PublicKey, Filed, At
    <3> QED
      BY <3>1, <3>2
  <2> QED
    BY <2>1 DEF Fresh
<1>3. CASE UNCHANGED proc /\ disturbed' = disturbed \cup Active
  BY <1>3 DEF Fresh, Active
<1>4. CASE UNCHANGED vars
  BY <1>4 DEF Fresh, Active, PublicKey, Filed, At, vars, config
<1> QED
  BY <1>1, <1>2, <1>3, <1>4, NextCases DEF Edit, EditMember, Pull

\* What a check lets pass was signed.
LEMMA AcceptedIsSigned ==
    ASSUME TypeOK, Recorded, NEW p \in Active, Accepted(p), Sealed(p)
    PROVE  \/ proc[p].lock.list = NoList \/ proc[p].key = NoKey
           \/ SignLockDigest(proc[p].lock.list, proc[p].key) \in signed
<1> DEFINE l == proc[p].lock
<1>1. p \in Processes /\ l.list \in Lists /\ proc[p].key \in AnyKey
  BY ProcessFields, LockFields DEF Active
<1>2. l.list = NoList \/ SignatureOk(l, proc[p].key)
  BY DEF Accepted, FrozenAccepts
<1>3. CASE proc[p].key # NoKey /\ l.signature = SignLockDigest(l.list, proc[p].key)
  <2>1. l.signature # Unsigned
    BY <1>1, <1>3, SignType DEF AnyKey
  <2> QED
    BY <1>1, <1>3, <2>1 DEF Recorded
<1> QED
  BY <1>2, <1>3 DEF SignatureOk

LEMMA UpheldStep ==
    ASSUME TypeOK, Given, Recorded, Fresh, Upheld, Next
    PROVE  Upheld'
<1> DEFINE Late == {"prefetch", "spawn", "wait"}
           Good(q) == Sealed(q)' /\ proc'[q].pc \in Late =>
                        /\ proc'[q].checked = NoList \/ proc'[q].key = NoKey
                              \/ SignLockDigest(proc'[q].checked, proc'[q].key) \in signed'
                        /\ proc'[q].lock.list.npm = proc'[q].checked.npm
                        /\ proc'[q].pc = "wait" /\ q \notin disturbed'
                              => proc'[q].ran.npm = proc'[q].checked.npm
<1>0. (\A q \in Active' : Good(q)) => Upheld'
  BY DEF Upheld, SignLockDigest
<1>1. ASSUME NEW q \in Active, proc'[q] = proc[q], signed \subseteq signed',
             q \in disturbed => q \in disturbed'
      PROVE  Good(q)
  BY <1>1 DEF Upheld, Sealed, Op
<1>2. ASSUME NEW p \in Processes, Step(p) PROVE Upheld'
  <2>1. Shape(p)
    BY <1>2, StepShape
  <2>2. signed \subseteq signed' /\ disturbed \subseteq disturbed'
    BY <2>1 DEF Shape, Writes, Disturbs
  <2>3. ASSUME NEW q \in Active', q # p PROVE Good(q)
    <3>1. q \in Active /\ proc'[q] = proc[q]
      BY <2>1, <2>3 DEF Shape, Active
    <3> QED
      BY <1>1, <2>2, <3>1
  <2>4. ASSUME p \in Active' PROVE Good(p)
    <3>1. CASE Check(p)
      <4>1. Accepted(p)
        BY <2>4, <3>1 DEF Check, Ends, TypeOK, Active, Idle
      <4>2. PICK x : proc' = [proc EXCEPT ![p].pc = x, ![p].checked = proc[p].lock.list]
        BY <3>1, <4>1 DEF Check
      <4>3. x \in {"prefetch", "spawn"}
        <5>1. proc' = [proc EXCEPT ![p].pc = IF Prefetches(p) THEN "prefetch" ELSE "spawn",
                                   ![p].checked = proc[p].lock.list]
          BY <3>1, <4>1 DEF Check
        <5>2. proc'[p].pc = (IF Prefetches(p) THEN "prefetch" ELSE "spawn") /\ proc'[p].pc = x
          BY <4>2, <5>1 DEF TypeOK, ProcessTypes
        <5> QED
          BY <5>2
      <4>4. /\ proc'[p].pc = x /\ proc'[p].checked = proc[p].lock.list
            /\ proc'[p].cmd = proc[p].cmd /\ proc'[p].key = proc[p].key
            /\ proc'[p].lock = proc[p].lock
        BY <4>2 DEF TypeOK, ProcessTypes
      <4>5. Sealed(p) => \/ proc[p].lock.list = NoList \/ proc[p].key = NoKey
                         \/ SignLockDigest(proc[p].lock.list, proc[p].key) \in signed
        BY <2>1, <4>1, AcceptedIsSigned DEF Shape
      <4> QED
        BY <2>2, <4>3, <4>4, <4>5 DEF Sealed, Op
    <3>2. CASE Prefetch(p)
      <4>1. PICK S \in Taken(p) :
              LET w == Written(p, [npm |-> proc[p].lock.list.npm \cup S,
                                   member |-> Remembered(p)])
              IN  proc' = [proc EXCEPT ![p].lock = w, ![p].pc = "spawn"]
        BY <3>2 DEF Prefetch
      <4> DEFINE list == [npm |-> proc[p].lock.list.npm \cup S, member |-> Remembered(p)]
      <4>2. /\ proc'[p].pc = "spawn" /\ proc'[p].checked = proc[p].checked
            /\ proc'[p].cmd = proc[p].cmd /\ proc'[p].key = proc[p].key
            /\ proc'[p].lock = Written(p, list)
        BY <4>1 DEF TypeOK, ProcessTypes
      <4>3. Written(p, list).list = list
        BY WriteResult DEF Written
      <4>4. Sealed(p) => list.npm = proc[p].lock.list.npm
        BY DEF Taken
      <4>5. proc[p].pc = "prefetch"
        BY <3>2 DEF Prefetch
      <4> HIDE DEF list
      <4> QED
        BY <2>1, <2>2, <4>2, <4>3, <4>4, <4>5 DEF Shape, Upheld, Sealed, Op
    <3>3. CASE Spawn(p)
      <4>1. /\ proc'[p].pc = "wait" /\ proc'[p].checked = proc[p].checked
            /\ proc'[p].cmd = proc[p].cmd /\ proc'[p].key = proc[p].key
            /\ proc'[p].lock = proc[p].lock /\ proc'[p].ran = lock[At(p)].list
        BY <3>3 DEF Spawn, TypeOK, ProcessTypes
      <4>2. proc[p].pc = "spawn" /\ disturbed' = disturbed
        BY <3>3 DEF Spawn
      <4>3. p \notin disturbed => proc[p].lock = lock[At(p)]
        BY <2>1 DEF Shape, Fresh
      <4> QED
        BY <2>1, <2>2, <4>1, <4>2, <4>3 DEF Shape, Upheld, Sealed, Op
    <3>4. CASE WritePrivate(p)
      <4>1. proc' = [proc EXCEPT ![p].pc = "public", ![p].fresh = made']
        BY <3>4 DEF WritePrivate
      <4>2. proc'[p].pc = "public"
        BY <4>1 DEF TypeOK, ProcessTypes
      <4> QED
        BY <4>2
    <3>5. CASE Ends(p)
      BY <2>4, <3>5 DEF Ends, TypeOK, Active, Idle
    <3> QED
      BY <1>2, <3>1, <3>2, <3>3, <3>4, <3>5
      DEF Step, RunEnds, Snapshot, AddOrRemove, Sign, WritePublic, Dies, VerifyAttestations
  <2> QED
    BY <1>0, <2>3, <2>4
<1>3. ASSUME NEW p \in Processes, NEW cmd \in commands, Open(p, cmd) PROVE Upheld'
  <2>1. cmd.op \in Ops
    BY <1>3, OpenShape DEF Commands
  <2>2. Good(p)
    BY <1>3, <2>1, OpenShape, FirstFacts
  <2>3. ASSUME NEW q \in Active', q # p PROVE Good(q)
    <3>1. q \in Active /\ proc'[q] = proc[q]
      BY <1>3, <2>3, OpenShape DEF Active
    <3> QED
      BY <1>1, <1>3, <2>3, <3>1, OpenShape
  <2> HIDE DEF Good
  <2> QED
    BY <1>0, <2>2, <2>3
<1>4. CASE UNCHANGED <<proc, signed>> /\ disturbed \subseteq disturbed'
  <2>1. \A q \in Active' : Good(q)
    BY <1>1, <1>4 DEF Active
  <2> QED
    BY <1>0, <2>1
<1> QED
  BY <1>2, <1>3, <1>4, NextCases DEF Edit, EditMember, Pull, vars

------------------------------------------------------------------------------
(* The theorems *)

IInv == TypeOK /\ Given /\ Covered /\ Recorded /\ Fresh /\ Upheld

LEMMA InvInit == Init => IInv
<1> SUFFICES ASSUME Init PROVE IInv
  OBVIOUS
<1>1. \A p \in Processes : proc[p] = Idle /\ p \notin Active
  BY DEF Init, Active, Idle
<1>2. Covered
  <2>1. PICK w \in Worlds : lock = w.lock
    BY DEF Init
  <2>2. \A c \in Checkouts : Covers(lock[c])
    BY <2>1, SignaturesAssumption DEF SignaturesAssumption, Covers
  <2> QED
    BY <1>1, <2>2, IdleCovers DEF Covered
<1>3. Recorded
  <2>1. \A p \in Processes : proc[p].lock.signature = Unsigned
    BY <1>1 DEF Idle, NoLock
  <2> QED
    BY <2>1 DEF Init, Recorded
<1>4. Given /\ Fresh /\ Upheld
  BY <1>1 DEF Given, Fresh, Upheld, Active
<1> QED
  BY <1>2, <1>3, <1>4, TypeInit DEF IInv

LEMMA InvStep == IInv /\ [Next]_vars => IInv'
<1> SUFFICES ASSUME IInv, [Next]_vars PROVE IInv'
  OBVIOUS
<1>1. CASE Next
  BY <1>1, TypeStep, GivenStep, CoveredStep, RecordedStep, FreshStep, UpheldStep DEF IInv
<1>2. CASE UNCHANGED vars
  <2>1. TypeOK'
    BY <1>2, TypeStep DEF IInv
  <2>2. Given' /\ Covered' /\ Recorded'
    BY <1>2 DEF IInv, Given, Covered, Recorded, Active, Op, vars
  <2>3. Fresh'
    BY <1>2 DEF IInv, Fresh, Active, At, PublicKey, Filed, vars, config
  <2>4. Upheld'
    BY <1>2 DEF IInv, Upheld, Active, Sealed, Op, vars
  <2> QED
    BY <2>1, <2>2, <2>3, <2>4 DEF IInv
<1> QED
  BY <1>1, <1>2

\* Types: knot.lock, the keys and the sessions are always of the forms the code writes.
THEOREM TypeCorrect == Spec => []TypeOK
<1>1. IInv => TypeOK
  BY DEF IInv
<1> QED
  BY <1>1, InvInit, InvStep, PTL DEF Spec

\* A signature with a right digest is about the list beside it, knot verify is at least as
\* strict as a frozen run, and what a sealed run has checked was signed and is what its
\* child finds.
THEOREM TrustIsEarned == Spec => []TrustMeansSigned
<1>1. ASSUME IInv PROVE TrustMeansSigned
  <2>1. ASSUME NEW c \in Checkouts
        PROVE  /\ DigestOk(lock[c]) /\ lock[c].signature # Unsigned
                    => lock[c].signature.list = lock[c].list
               /\ VerifyLock(lock[c], PublicKey(c)) => FrozenAccepts(lock[c], PublicKey(c))
               /\ lock[c].list # NoList /\ FrozenAccepts(lock[c], PublicKey(c))
                    => VerifyLock(lock[c], PublicKey(c))
    BY <1>1 DEF IInv, Covered, Covers, DigestOk, VerifyLock, FrozenAccepts
  <2>2. ASSUME NEW p \in Active, Sealed(p), proc[p].pc \in {"prefetch", "spawn", "wait"}
        PROVE  /\ proc[p].checked = NoList \/ proc[p].key = NoKey
                    \/ SignLockDigest(proc[p].checked, proc[p].key) \in signed
               /\ proc[p].pc = "wait" /\ p \notin disturbed
                    => proc[p].ran.npm = proc[p].checked.npm
    BY <1>1, <2>2 DEF IInv, Upheld
  <2> QED
    BY <2>1, <2>2 DEF TrustMeansSigned
<1> QED
  BY <1>1, InvInit, InvStep, PTL DEF Spec

\* What the commands other than keygen that nobody disturbs do to a project's trust.
KeepsAt(p, c) ==
    LET k == LoadLockPrivateKey(c, proc[p].cmd.env)
    IN  /\ lock' # lock /\ k # NoKey /\ k = PublicKey(c)' => Signed(c)'
        /\ k = NoKey /\ Signed(c) => Signed(c)' \/ lock'[c].list # lock[c].list
                                   \/ PublicKey(c)' # PublicKey(c)
        /\ PublicKey(c)' = PublicKey(c) \/ (Filed(c) /\ inline[c] # NoKey)

\* A lock that is written with the key that fits is signed; without a key the signature of an
\* unchanged list stays.
LEMMA WriteKeeps ==
    ASSUME IInv, NEW p \in Active \ disturbed, NEW c, c = At(p), NEW list, NEW k \in AnyKey,
           Writes(p, WriteLockfile(proc[p].lock, list, k))
    PROVE  /\ k # NoKey /\ k = PublicKey(c)' => Signed(c)'
           /\ k = NoKey /\ Signed(c) => \/ Signed(c)' \/ lock'[c].list # lock[c].list
                                      \/ PublicKey(c)' # PublicKey(c)
<1> DEFINE w == WriteLockfile(proc[p].lock, list, k)
<1>1. c \in Checkouts /\ proc[p].lock = lock[c]
  BY CommandFields DEF IInv, Fresh
<1>2. lock'[c] = w
  BY <1>1 DEF Writes, IInv, TypeOK
<1>3. /\ w.list = list /\ w.digest = list
      /\ k # NoKey => w.signature = SignLockDigest(list, k)
      /\ k = NoKey /\ lock[c].digest \in {list, Unknown} => w.signature = lock[c].signature
  BY <1>1, WriteResult
<1>4. Signed(c)' <=> /\ PublicKey(c)' # NoKey /\ w.digest = w.list
                     /\ w.signature = SignLockDigest(w.list, PublicKey(c)')
  BY <1>2 DEF Signed, DigestOk, SignLockDigest
<1> HIDE DEF w
<1>5. k # NoKey /\ k = PublicKey(c)' => Signed(c)'
  BY <1>3, <1>4
<1>6. ASSUME k = NoKey, Signed(c), lock'[c].list = lock[c].list, PublicKey(c)' = PublicKey(c)
      PROVE  Signed(c)'
  <2>1. /\ PublicKey(c) # NoKey /\ lock[c].digest = lock[c].list
        /\ lock[c].signature = SignLockDigest(lock[c].list, PublicKey(c))
    BY <1>6 DEF Signed, DigestOk
  <2>2. lock[c].list = list
    BY <1>2, <1>3, <1>6
  <2> QED
    BY <1>3, <1>4, <1>6, <2>1, <2>2
<1> QED
  BY <1>5, <1>6

\* persistSession finds the key that the project's public key asks for.
LEMMA SessionKeyFacts ==
    ASSUME IInv, NEW p \in Active \ disturbed, NEW c, c = At(p)
    PROVE  LET k == LoadLockPrivateKey(c, proc[p].cmd.env)
           IN  /\ k \in AnyKey /\ SessionKey(p) \in AnyKey
               /\ k = NoKey => SessionKey(p) = NoKey
               /\ PublicKey(c) # NoKey => SessionKey(p) = k
<1>1. proc[p].key = PublicKey(c)
  BY DEF IInv, Fresh
<1> QED
  BY <1>1, PrivateKeyType, CommandFields DEF SessionKey, IInv, AnyKey

LEMMA WrittenKeeps ==
    ASSUME IInv, NEW p \in Active \ disturbed, NEW c, c = At(p),
           NEW list, Writes(p, Written(p, list)),
           PublicKey(c)' # NoKey => PublicKey(c) # NoKey,
           PublicKey(c)' = PublicKey(c) \/ (Filed(c) /\ inline[c] # NoKey)
    PROVE  KeepsAt(p, c)
<1>1. Writes(p, WriteLockfile(proc[p].lock, list, SessionKey(p)))
  BY DEF Written
<1> DEFINE k == LoadLockPrivateKey(c, proc[p].cmd.env)
<1>2. /\ SessionKey(p) \in AnyKey /\ (k = NoKey => SessionKey(p) = NoKey)
      /\ PublicKey(c) # NoKey => SessionKey(p) = k
  BY SessionKeyFacts
<1>3. PICK s \in AnyKey : s = SessionKey(p)
  BY <1>2
<1>4. /\ s # NoKey /\ s = PublicKey(c)' => Signed(c)'
      /\ s = NoKey /\ Signed(c) => \/ Signed(c)' \/ lock'[c].list # lock[c].list
                                 \/ PublicKey(c)' # PublicKey(c)
  BY <1>1, <1>3, WriteKeeps
<1> HIDE DEF k
<1>5. k # NoKey /\ k = PublicKey(c)' => Signed(c)'
  BY <1>2, <1>3, <1>4
<1>6. k = NoKey /\ Signed(c) => \/ Signed(c)' \/ lock'[c].list # lock[c].list
                                \/ PublicKey(c)' # PublicKey(c)
  BY <1>2, <1>3, <1>4
<1> QED
  BY <1>5, <1>6, Zenon DEF k, KeepsAt

LEMMA UntouchedKeeps ==
    ASSUME NEW p, NEW c, UNCHANGED <<lock, inline, listed, pub>>
    PROVE  KeepsAt(p, c)
<1>1. PublicKey(c)' = PublicKey(c)
  BY DEF PublicKey
<1>2. Signed(c)' <=> Signed(c)
  BY <1>1 DEF Signed, DigestOk, SignLockDigest
<1> QED
  BY <1>1, <1>2, Zenon DEF KeepsAt

LEMMA StepKeeps ==
    ASSUME IInv, Next, NEW p \in Active \ disturbed, NEW c, c = At(p),
           proc'[p] # proc[p], Op(p) # "keygen"
    PROVE  KeepsAt(p, c)
<1>1. p \in Processes /\ TypeOK /\ Given /\ c \in Checkouts
  BY CommandFields DEF Active, IInv
<1>2. Step(p)
  <2>1. ASSUME NEW q \in Processes, Step(q) PROVE q = p
    BY <1>1, <2>1, StepShape DEF Shape
  <2>2. ASSUME NEW q \in Processes, NEW cmd \in commands, Open(q, cmd) PROVE FALSE
    BY <1>1, <2>2, OpenShape
  <2> QED
    BY <1>1, <2>1, <2>2, NextCases DEF Edit, EditMember, Pull, vars
<1>3. CASE Check(p) \/ Spawn(p) \/ Dies(p) \/ VerifyAttestations(p)
  BY <1>3, UntouchedKeeps DEF Check, Spawn, Dies, VerifyAttestations, config
<1>4. CASE Prefetch(p) \/ RunEnds(p) \/ Snapshot(p)
  <2>1. PICK list : Writes(p, Written(p, list))
    BY <1>4 DEF Prefetch, RunEnds, Snapshot
  <2>2. PublicKey(c)' = PublicKey(c)
    <3>1. UNCHANGED <<inline, pub>>
      BY <1>4 DEF Prefetch, RunEnds, Snapshot, config
    <3> QED
      BY <3>1 DEF PublicKey
  <2> QED
    BY <2>1, <2>2, WrittenKeeps
<1>5. CASE AddOrRemove(p)
  <2>1. PICK list : Writes(p, Written(p, list))
    BY <1>1, <1>5, AddOrRemoveWrites
  <2>2. proc[p].key = PublicKey(c) /\ proc[p].filed = Filed(c)
    BY DEF IInv, Fresh
  <2>3. inline'[c] = (IF Filed(c) THEN NoKey ELSE PublicKey(c)) /\ pub' = pub
    BY <1>1, <1>5, <2>2 DEF AddOrRemove, Toml, TypeOK
  <2>4. PublicKey(c)' = IF inline'[c] # NoKey THEN inline'[c] ELSE pub[c]
    BY <2>3 DEF PublicKey
  <2>5. CASE Filed(c)
    <3>1. PublicKey(c)' = pub[c]
      BY <2>3, <2>4, <2>5
    <3>2. PublicKey(c)' = PublicKey(c) \/ inline[c] # NoKey
      BY <3>1 DEF PublicKey
    <3>3. PublicKey(c)' # NoKey => PublicKey(c) # NoKey
      BY <3>1 DEF PublicKey
    <3> QED
      BY <2>1, <2>5, <3>2, <3>3, WrittenKeeps
  <2>6. CASE ~Filed(c)
    <3>1. PublicKey(c)' = PublicKey(c)
      BY <2>3, <2>4, <2>6 DEF Filed, PublicKey
    <3> QED
      BY <2>1, <3>1, WrittenKeeps
  <2> QED
    BY <2>5, <2>6
<1>6. CASE Sign(p)
  <2> DEFINE k == LoadLockPrivateKey(c, proc[p].cmd.env)
  <2>1. UNCHANGED <<inline, listed, pub>> /\ k \in AnyKey
    BY <1>1, <1>6, PrivateKeyType, CommandFields DEF Sign, config
  <2>2. PublicKey(c)' = PublicKey(c)
    BY <2>1 DEF PublicKey
  <2>3. CASE k = NoKey
    BY <1>6, <2>1, <2>3, UntouchedKeeps DEF Sign
  <2>4. CASE k # NoKey
    <3>1. PICK s \in AnyKey : s = k
      BY <2>1
    <3>2. Writes(p, WriteLockfile(proc[p].lock, proc[p].lock.list, s))
      BY <1>6, <2>4, <3>1 DEF Sign
    <3>3. PICK list : list = proc[p].lock.list
      OBVIOUS
    <3>4. s = PublicKey(c)' => Signed(c)'
      BY <2>4, <3>1, <3>2, <3>3, WriteKeeps
    <3> QED
      BY <2>2, <2>4, <3>1, <3>4, Zenon DEF KeepsAt
  <2> QED
    BY <2>3, <2>4
<1>7. CASE WritePrivate(p) \/ WritePublic(p)
  BY <1>7 DEF IInv, Given, WritePrivate, WritePublic
<1> QED
  BY <1>2, <1>3, <1>4, <1>5, <1>6, <1>7 DEF Step

\* With the private key that fits no command leaves a lock unsigned, with none it takes away
\* no signature of a list that stays, and only a hidden public key can change.
THEOREM CommandsKeepTrust == Spec => TrustIsKept
<1>1. ASSUME IInv, [Next]_vars
      PROVE  [\A p \in Active \ disturbed : \A c \in {At(p)} :
                proc'[p] # proc[p] /\ Op(p) # "keygen" => KeepsAt(p, c)]_vars
  BY <1>1, StepKeeps
<1> QED
  BY <1>1, InvInit, InvStep, PTL DEF Spec, TrustIsKept, KeepsAt

------------------------------------------------------------------------------
(* Attestations *)

Vouches(b, digest, roots) ==
    /\ b.envelope = "sealed" /\ b.certificate # NoCertificate
    /\ b.certificate.key \in b.signers /\ digest \in b.subjects
    /\ b.certificate.current
    /\ \E j \in DOMAIN roots : roots[j].current /\ b.certificate.issuer = roots[j].key

\* A chain ends in a current root that has issued the certificate.
LEMMA ChainIssued ==
    ASSUME NEW leaf, NEW roots, VerifyCertificateChain(leaf, roots)
    PROVE  leaf.current /\ \E j \in DOMAIN roots : roots[j].current /\ leaf.issuer = roots[j].key
BY DEF VerifyCertificateChain, Decides

\* One bundle has all that verifies its publisher, and nothing matches without a digest.
LEMMA BundleVouches ==
    ASSUME NEW b, NEW digest, NEW roots
    PROVE  /\ VerifyAttestationBundle(b, digest, roots).publisherVerified
                => Vouches(b, digest, roots)
           /\ digest = NoDigest =>
                /\ ~VerifyAttestationBundle(b, digest, roots).subjectMatches
                /\ ~VerifyAttestationBundle(b, digest, roots).publisherVerified
<1> DEFINE cert == b.certificate
           sealed == b.envelope = "sealed" /\ cert # NoCertificate /\ cert.key \in b.signers
           subject == b.envelope = "sealed" /\ SubjectMatchesArtifact(b, digest)
           chained == b.envelope = "sealed" /\ cert # NoCertificate
                        /\ VerifyCertificateChain(cert, roots)
           result == VerifyAttestationBundle(b, digest, roots)
<1>1. /\ result.publisherVerified => sealed /\ subject /\ chained
      /\ result.subjectMatches => subject
  BY DEF VerifyAttestationBundle, VerifyDsseEnvelope
<1>2. subject => digest # NoDigest /\ digest \in b.subjects
  BY DEF SubjectMatchesArtifact
<1>3. chained => cert.current /\ \E j \in DOMAIN roots : roots[j].current /\ cert.issuer = roots[j].key
  BY ChainIssued
<1> HIDE DEF result
<1>4. result.publisherVerified => Vouches(b, digest, roots)
  BY <1>1, <1>2, <1>3 DEF Vouches
<1>5. digest = NoDigest => ~result.subjectMatches /\ ~result.publisherVerified
  BY <1>1, <1>2
<1> QED BY <1>4, <1>5 DEF result

LEMMA ResponseVouches ==
    ASSUME NEW response, NEW digest, NEW roots
    PROVE  LET result == VerifyNpmAttestations(response, digest, roots) IN
           /\ result.publisherVerified
                => \E i \in DOMAIN response : Vouches(response[i], digest, roots)
           /\ digest = NoDigest => ~result.publisherVerified /\ ~result.subjectMatches
<1> DEFINE result == VerifyNpmAttestations(response, digest, roots)
           one(i) == VerifyAttestationBundle(response[i], digest, roots)
<1>1. /\ result.publisherVerified = \E i \in Answers(response) : one(i).publisherVerified
      /\ result.subjectMatches = \E i \in Answers(response) : one(i).subjectMatches
  BY DEF VerifyNpmAttestations
<1>2. Answers(response) \subseteq DOMAIN response
  BY DEF Answers
<1> HIDE DEF result
<1>3. \A i \in DOMAIN response :
         /\ one(i).publisherVerified => Vouches(response[i], digest, roots)
         /\ digest = NoDigest => ~one(i).publisherVerified /\ ~one(i).subjectMatches
  BY BundleVouches
<1> HIDE DEF one
<1> QED BY <1>1, <1>2, <1>3 DEF result

\* What the report says of an answer that was read.
LEMMA RecordVouches ==
    ASSUME NEW response, NEW digest, NEW roots
    PROVE  LET record == ProvenanceFromAttestation(
                           VerifyNpmAttestations(response, digest, roots), digest) IN
           /\ record.publisherVerified
                => \E i \in DOMAIN response : Vouches(response[i], digest, roots)
           /\ digest = NoDigest => ~record.publisherVerified /\ ~record.contentVerified
BY ResponseVouches DEF ProvenanceFromAttestation

LEMMA NothingReported == ~NoReport.publisherVerified /\ ~NoReport.contentVerified
<1>1. ~\E i \in DOMAIN << >> : Vouches(<< >>[i], NoDigest, << >>)
  OBVIOUS
<1> QED BY <1>1, RecordVouches DEF NoReport

\* A publisher is reported as verified only if one and the same attestation was signed with
\* the key of a current certificate, names the archive, and has a current root of the
\* caller's behind it; without a digest nothing is reported as verified.
THEOREM PublishersAreVouched == Spec => []PublisherIsVouched
<1>1. Init => PublisherIsVouched
  BY NothingReported DEF Init, PublisherIsVouched
<1>2. ASSUME PublisherIsVouched, NEW p \in Processes, VerifyAttestations(p)
      PROVE  PublisherIsVouched'
  <2>1. PICK response \in Responses, roots \in RootLists, digest \in Digests \cup {NoDigest} :
           /\ asked' = [response |-> response, digest |-> digest, roots |-> roots]
           /\ report' = IF Throws(response) THEN NoReport
                        ELSE ProvenanceFromAttestation(
                               VerifyNpmAttestations(response, digest, roots), digest)
    BY <1>2 DEF VerifyAttestations
  <2>2. asked'.response = response /\ asked'.digest = digest /\ asked'.roots = roots
    BY <2>1
  <2>3. /\ report'.publisherVerified
             => \E i \in DOMAIN response : Vouches(response[i], digest, roots)
        /\ digest = NoDigest => ~report'.publisherVerified /\ ~report'.contentVerified
    BY <2>1, NothingReported, RecordVouches
  <2> QED BY <2>2, <2>3 DEF PublisherIsVouched, Vouches
<1>3. ASSUME PublisherIsVouched, [Next]_vars,
             ~ \E p \in Processes : VerifyAttestations(p)
      PROVE  PublisherIsVouched'
  <2>1. UNCHANGED provenance
    BY <1>3, NextCases DEF Step, Check, Prefetch, Spawn, RunEnds, Snapshot, AddOrRemove, Sign,
       WritePrivate, WritePublic, Dies, Open, Edit, EditMember, Pull, vars
  <2> QED BY <1>3, <2>1 DEF PublisherIsVouched, provenance
<1>4. PublisherIsVouched /\ [Next]_vars => PublisherIsVouched'
  BY <1>2, <1>3
<1> QED BY <1>1, <1>4, PTL DEF Spec
==============================================================================
