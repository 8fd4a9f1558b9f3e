------------------------ MODULE ProjectSessionProofs ------------------------
(***************************************************************************)
(* Proofs about ProjectSession, for any packages, any processes and any    *)
(* worlds, consistent or not.                                              *)
(***************************************************************************)
EXTENDS ProjectSession, TLAPS

\* The fields that a request has.
LEMMA RequestFields ==
    ASSUME TypeOK, NEW s \in Sessions
    PROVE  /\ Op(s) \in {"add", "remove", "snapshot", "prefetch", "run", "gc", "child"}
           /\ Op(s) \in {"add", "remove"} => req[s].pkg \in Packages
           /\ Op(s) = "child" => req[s].parent \in Sessions
  BY DEF TypeOK, Requests, Op

LEMMA WantedType ==
    ASSUME TypeOK, NEW s \in Sessions, NEW L
    PROVE  Wanted(s, L) \subseteq SUBSET Packages
<1>1. deps[s] \subseteq Packages
  BY DEF TypeOK
<1> QED
  BY <1>1 DEF Wanted

LEMMA TypeInit == Init => TypeOK
<1> SUFFICES ASSUME Init PROVE TypeOK
  OBVIOUS
<1>1. PICK w \in Worlds : /\ req = w.req /\ file = w.file /\ state = w.state
                          /\ index = w.index /\ objects = w.objects
  BY DEF Init
<1>2. /\ req \in [Sessions -> Requests] /\ file \in [Files -> SUBSET Packages]
      /\ state \in [Files -> States] /\ index \subseteq Packages /\ objects \subseteq Packages
  BY <1>1, WorldsAssumption DEF WorldsAssumption
<1> QED
  BY <1>2 DEF Init, TypeOK, PCs, Resting, Files

\* Every step keeps the types.
LEMMA TypeStep ==
    ASSUME TypeOK, [Next]_vars
    PROVE  TypeOK'
<1> USE DEF TypeOK, PCs, Resting, Persisting, Files, States, disk, mem, hist, Goto, StartWrites
<1>1. ASSUME NEW s \in Sessions, Open(s) PROVE TypeOK'
  BY <1>1 DEF Open, NoteCompany, Running
<1>2. ASSUME NEW s \in Sessions, ReadToml(s) PROVE TypeOK'
  BY <1>2 DEF ReadToml
<1>3. ASSUME NEW s \in Sessions, ReadLock(s) PROVE TypeOK'
  <2>1. PICK T \in Wanted(s, file["lock"]) : todo' = [todo EXCEPT ![s] = T]
    BY <1>3 DEF ReadLock
  <2>2. T \subseteq Packages
    BY <2>1, WantedType
  <2> QED
    BY <1>3, <2>1, <2>2 DEF ReadLock
<1>4. ASSUME NEW s \in Sessions, Add(s) PROVE TypeOK'
  <2>1. req[s].pkg \in Packages
    BY <1>4, RequestFields DEF Add
  <2> QED
    BY <1>4, <2>1 DEF Add, Obtain, LockWith
<1>5. ASSUME NEW s \in Sessions, Remove(s) PROVE TypeOK'
  BY <1>5 DEF Remove
<1>6. ASSUME NEW s \in Sessions, Fetch(s) PROVE TypeOK'
  BY <1>6 DEF Fetch, Obtain
<1>7. ASSUME NEW s \in Sessions, Fetched(s) PROVE TypeOK'
  BY <1>7 DEF Fetched
<1>8. ASSUME NEW s \in Sessions, Run(s) PROVE TypeOK'
  BY <1>8 DEF Run
<1>9. ASSUME NEW s \in Sessions, Import(s) PROVE TypeOK'
  BY <1>9 DEF Import, Obtain
<1>10. ASSUME NEW s \in Sessions, Exit(s) PROVE TypeOK'
  BY <1>10 DEF Exit
<1>11. ASSUME NEW s \in Sessions, Waited(s) PROVE TypeOK'
  BY <1>11 DEF Waited
<1>12. ASSUME NEW s \in Sessions, Truncate(s) PROVE TypeOK'
  <2>1. CASE target[s] = "json" /\ ~Readable("json")
    BY <1>12, <2>1 DEF Truncate
  <2>2. CASE ~(target[s] = "json" /\ ~Readable("json"))
    <3>1. /\ file' = [file EXCEPT ![target[s]] = {}]
          /\ state' = [state EXCEPT ![target[s]] = "empty"]
          /\ pc' = [pc EXCEPT ![s] = "fill"]
          /\ UNCHANGED interrupted
      BY <1>12, <2>2, Zenon DEF Truncate
    <3> QED
      BY <1>12, <3>1 DEF Truncate
  <2> QED
    BY <2>1, <2>2
<1>13. ASSUME NEW s \in Sessions, Fill(s) PROVE TypeOK'
  <2>1. PICK x \in FillStates(target[s]) : state' = [state EXCEPT ![target[s]] = x]
    BY <1>13 DEF Fill
  <2>2. x \in States
    BY <2>1 DEF FillStates
  <2>3. Content(s, target[s]) \subseteq Packages
    BY DEF Content
  <2> QED
    BY <1>13, <2>1, <2>2, <2>3 DEF Fill, AfterFill, NextFile
<1>14. ASSUME NEW s \in Sessions, Register(s) PROVE TypeOK'
  <2>1. added' \subseteq Packages
    BY <1>14, RequestFields DEF Register
  <2> QED
    BY <1>14, <2>1 DEF Register
<1>15. ASSUME NEW s \in Sessions, GcLook(s) PROVE TypeOK'
  BY <1>15 DEF GcLook, NoteCompany, Running
<1>16. ASSUME NEW s \in Sessions, GcSweep(s) PROVE TypeOK'
  BY <1>16 DEF GcSweep, Spared
<1>17. ASSUME NEW s \in Sessions, Die(s) PROVE TypeOK'
  BY <1>17 DEF Die, Running
<1>18. CASE UNCHANGED vars
  BY <1>18 DEF vars
<1> QED
  BY <1>1, <1>2, <1>3, <1>4, <1>5, <1>6, <1>7, <1>8, <1>9, <1>10, <1>11, <1>12, <1>13,
     <1>14, <1>15, <1>16, <1>17, <1>18 DEF Next, Step

\* Type correctness: commands, files, index, store and sessions keep their types.
THEOREM TypeCorrect == Spec => []TypeOK
  BY TypeInit, TypeStep, PTL DEF Spec

------------------------------------------------------------------------------
(* Who runs beside whom *)

Alone(s) == Op(s) # "child" /\ s \notin crowded

\* Where a process of each kind can be, and what a process has resolved by then.
Placed ==
    \A s \in Sessions :
        /\ Op(s) = "child" => pc[s] \in Resting \cup {"readToml", "readLock", "work"}
        /\ pc[s] = "wait" => Op(s) \in {"prefetch", "run"}
        /\ pc[s] \in {"start", "readToml", "readLock"} => used[s] = {}
        /\ Op(s) = "remove" => used[s] = {}
        /\ pc[s] = "sweep" => Op(s) = "gc"

\* Beside a command that has had no company, only children of its own run, and only while
\* it waits for them.
Company ==
    \A s, t \in Sessions :
        Alone(s) /\ s \in Running /\ t \in Running /\ t # s =>
            Op(t) = "child" /\ req[t].parent = s /\ pc[s] = "wait"

LEMMA PlacedStep ==
    ASSUME TypeOK, Placed, [Next]_vars
    PROVE  Placed'
<1> USE DEF TypeOK, Placed, Op, Resting, Persisting, disk, mem, hist, Goto, StartWrites
<1>1. ASSUME NEW s \in Sessions, Open(s) PROVE Placed'
  BY <1>1 DEF Open
<1>2. ASSUME NEW s \in Sessions, ReadToml(s) PROVE Placed'
  BY <1>2 DEF ReadToml
<1>3. ASSUME NEW s \in Sessions, ReadLock(s) PROVE Placed'
  BY <1>3 DEF ReadLock
<1>4. ASSUME NEW s \in Sessions, Add(s) PROVE Placed'
  BY <1>4 DEF Add, Obtain
<1>5. ASSUME NEW s \in Sessions, Remove(s) PROVE Placed'
  BY <1>5 DEF Remove
<1>6. ASSUME NEW s \in Sessions, Fetch(s) PROVE Placed'
  BY <1>6 DEF Fetch, Obtain
<1>7. ASSUME NEW s \in Sessions, Fetched(s) PROVE Placed'
  BY <1>7 DEF Fetched
<1>8. ASSUME NEW s \in Sessions, Run(s) PROVE Placed'
  BY <1>8 DEF Run
<1>9. ASSUME NEW s \in Sessions, Import(s) PROVE Placed'
  BY <1>9 DEF Import, Obtain
<1>10. ASSUME NEW s \in Sessions, Exit(s) PROVE Placed'
  BY <1>10 DEF Exit
<1>11. ASSUME NEW s \in Sessions, Waited(s) PROVE Placed'
  BY <1>11 DEF Waited
<1>12. ASSUME NEW s \in Sessions, Truncate(s) PROVE Placed'
  <2>1. /\ pc' = [pc EXCEPT ![s] = "failed"] \/ pc' = [pc EXCEPT ![s] = "fill"]
        /\ pc[s] = "truncate"
        /\ UNCHANGED <<req, used>>
    BY <1>12, Zenon DEF Truncate
  <2> QED
    BY <2>1
<1>13. ASSUME NEW s \in Sessions, Fill(s) PROVE Placed'
  BY <1>13 DEF Fill, AfterFill
<1>14. ASSUME NEW s \in Sessions, Register(s) PROVE Placed'
  BY <1>14 DEF Register
<1>15. ASSUME NEW s \in Sessions, GcLook(s) PROVE Placed'
  BY <1>15 DEF GcLook
<1>16. ASSUME NEW s \in Sessions, GcSweep(s) PROVE Placed'
  BY <1>16 DEF GcSweep
<1>17. ASSUME NEW s \in Sessions, Die(s) PROVE Placed'
  BY <1>17 DEF Die, Running
<1>18. CASE UNCHANGED vars
  BY <1>18 DEF vars
<1> QED
  BY <1>1, <1>2, <1>3, <1>4, <1>5, <1>6, <1>7, <1>8, <1>9, <1>10, <1>11, <1>12, <1>13,
     <1>14, <1>15, <1>16, <1>17, <1>18 DEF Next, Step

\* A step of one process that opens nothing, while all others stay where they are, leaves the
\* company of all as it is, if that process is not waiting for a child that runs.
LEMMA SameCompany ==
    ASSUME TypeOK, Company, NEW s \in Sessions, s \in Running,
           UNCHANGED <<req, crowded>>,
           \A t \in Sessions \ {s} : pc'[t] = pc[t],
           pc[s] # "wait" \/ ChildEnded(s) \/ s \notin Running'
    PROVE  Company'
<1> SUFFICES ASSUME NEW u \in Sessions, NEW t \in Sessions, Alone(u)', u \in Running',
                    t \in Running', t # u
             PROVE  (Op(t) = "child" /\ req[t].parent = u /\ pc[u] = "wait")'
  BY DEF Company
<1>1. Alone(u) /\ u \in Running /\ t \in Running
  BY DEF Alone, Op, Running
<1>2. Op(t) = "child" /\ req[t].parent = u /\ pc[u] = "wait"
  BY <1>1 DEF Company
<1>3. u # s
  <2> SUFFICES ASSUME u = s PROVE FALSE
    OBVIOUS
  <2>1. ChildEnded(s)
    BY <1>2
  <2>2. pc[t] \in Resting \ {"start"}
    BY <1>2, <2>1 DEF ChildEnded, ChildOf
  <2> QED
    BY <1>1, <2>2 DEF Running
<1> QED
  BY <1>2, <1>3 DEF Op

\* A command that starts beside others takes and gives company; a child has that of its parent.
LEMMA StartCompany ==
    ASSUME TypeOK, Placed, Company, NEW s \in Sessions, pc[s] = "start", MayStart(s),
           NoteCompany(s), UNCHANGED req, \A t \in Sessions \ {s} : pc'[t] = pc[t]
    PROVE  Company'
<1> SUFFICES ASSUME NEW u \in Sessions, NEW t \in Sessions, Alone(u)', u \in Running',
                    t \in Running', t # u
             PROVE  (Op(t) = "child" /\ req[t].parent = u /\ pc[u] = "wait")'
  BY DEF Company
<1>1. crowded \subseteq crowded' /\ Alone(u)
  BY DEF NoteCompany, Alone, Op
<1>2. CASE Op(s) # "child"
  <2>1. Running = {}
    <3> SUFFICES ASSUME Running # {} PROVE FALSE
      OBVIOUS
    <3>1. Running \cup {s} \subseteq crowded'
      BY <1>2 DEF NoteCompany
    <3>2. u \in Running \cup {s}
      BY DEF Running
    <3> QED
      BY <3>1, <3>2 DEF Alone
  <2>2. u = s /\ t = s
    BY <2>1 DEF Running
  <2> QED
    BY <2>2
<1>3. CASE Op(s) = "child"
  <2>1. u # s /\ u \in Running
    BY <1>1, <1>3 DEF Alone, Running
  <2>2. CASE t # s
    <3>1. t \in Running
      BY <2>2 DEF Running
    <3>2. Op(t) = "child" /\ req[t].parent = u /\ pc[u] = "wait"
      BY <1>1, <2>1, <3>1 DEF Company
    <3> QED
      BY <2>1, <3>2 DEF Op
  <2>3. CASE t = s
    <3> DEFINE P == req[s].parent
    <3>1. P \in Sessions /\ pc[P] = "wait"
      BY <1>3, RequestFields DEF MayStart
    <3>2. Op(P) # "child" /\ P \in Running
      BY <3>1 DEF Placed, Running, Resting
    <3>3. u = P
      BY <1>1, <2>1, <3>1, <3>2 DEF Company
    <3> QED
      BY <1>3, <2>1, <2>3, <3>1, <3>3 DEF Op
  <2> QED
    BY <2>2, <2>3
<1> QED
  BY <1>2, <1>3

LEMMA CompanyStep ==
    ASSUME TypeOK, Placed, Company, [Next]_vars
    PROVE  Company'
<1> USE DEF Resting, Persisting, disk, mem, hist, Goto, StartWrites
<1>1. ASSUME NEW s \in Sessions, Open(s) PROVE Company'
  <2>1. pc[s] = "start" /\ MayStart(s) /\ NoteCompany(s) /\ UNCHANGED req
    BY <1>1 DEF Open
  <2>2. \A t \in Sessions \ {s} : pc'[t] = pc[t]
    BY <1>1 DEF Open, TypeOK
  <2> QED
    BY <2>1, <2>2, StartCompany
<1>2. ASSUME NEW s \in Sessions, GcLook(s) PROVE Company'
  <2>1. pc[s] = "start" /\ MayStart(s) /\ NoteCompany(s) /\ UNCHANGED req
    BY <1>2 DEF GcLook, MayStart
  <2>2. \A t \in Sessions \ {s} : pc'[t] = pc[t]
    BY <1>2 DEF GcLook, TypeOK
  <2> QED
    BY <2>1, <2>2, StartCompany
<1>3. ASSUME NEW s \in Sessions,
             \/ ReadToml(s) \/ ReadLock(s) \/ Add(s) \/ Remove(s) \/ Fetch(s) \/ Fetched(s)
             \/ Run(s) \/ Import(s) \/ Exit(s) \/ Fill(s) \/ Register(s) \/ GcSweep(s)
      PROVE  Company'
  <2>1. s \in Running /\ pc[s] # "wait"
    BY <1>3 DEF ReadToml, ReadLock, Add, Remove, Fetch, Fetched, Run, Import, Exit, Fill,
                Register, GcSweep, Running
  <2>2. UNCHANGED <<req, crowded>> /\ \A t \in Sessions \ {s} : pc'[t] = pc[t]
    BY <1>3 DEF ReadToml, ReadLock, Add, Remove, Fetch, Fetched, Run, Import, Exit, Fill,
                Register, GcSweep, TypeOK
  <2> QED
    BY <2>1, <2>2, SameCompany
<1>4. ASSUME NEW s \in Sessions, Truncate(s) PROVE Company'
  <2>1. /\ pc' = [pc EXCEPT ![s] = "failed"] \/ pc' = [pc EXCEPT ![s] = "fill"]
        /\ pc[s] = "truncate"
        /\ UNCHANGED <<req, crowded>>
    BY <1>4, Zenon DEF Truncate
  <2>2. s \in Running /\ \A t \in Sessions \ {s} : pc'[t] = pc[t]
    BY <2>1 DEF Running, TypeOK
  <2> QED
    BY <2>1, <2>2, SameCompany
<1>5. ASSUME NEW s \in Sessions, Waited(s) PROVE Company'
  <2>1. /\ s \in Running /\ ChildEnded(s)
        /\ UNCHANGED <<req, crowded>> /\ \A t \in Sessions \ {s} : pc'[t] = pc[t]
    BY <1>5 DEF Waited, Running, TypeOK
  <2> QED
    BY <2>1, SameCompany
<1>6. ASSUME NEW s \in Sessions, Die(s) PROVE Company'
  <2>1. /\ s \in Running /\ s \notin Running'
        /\ UNCHANGED <<req, crowded>> /\ \A t \in Sessions \ {s} : pc'[t] = pc[t]
    BY <1>6 DEF Die, Running, TypeOK
  <2> QED
    BY <2>1, SameCompany
<1>7. CASE UNCHANGED vars
  BY <1>7 DEF vars, Company, Alone, Op, Running
<1> QED
  BY <1>1, <1>2, <1>3, <1>4, <1>5, <1>6, <1>7 DEF Next, Step

------------------------------------------------------------------------------
(* A command that runs alone *)

\* What it has resolved is locked and stored; a snapshot has resolved, or will, all that it
\* found declared; and the lock on disk is its own by the time it registers.
AloneAt(s) ==
    Alone(s) /\ s \in Running =>
        /\ used[s] \subseteq lock[s] \cap objects
        /\ Op(s) = "snapshot" /\ pc[s] \notin {"readToml", "readLock"}
              => deps[s] \subseteq used[s] \cup todo[s]
        /\ Op(s) = "snapshot" /\ pc[s] \in Persisting => todo[s] = {}
        /\ pc[s] = "register" => file["lock"] = lock[s]

AloneInv == \A s \in Sessions : AloneAt(s)

\* What a process does not see does not disturb it.
LEMMA Untouched ==
    ASSUME NEW u \in Sessions, AloneAt(u), UNCHANGED <<req, file>>,
           pc'[u] = pc[u], used'[u] = used[u], lock'[u] = lock[u], deps'[u] = deps[u],
           todo'[u] = todo[u], crowded \subseteq crowded', objects \subseteq objects'
    PROVE  AloneAt(u)'
  BY DEF AloneAt, Alone, Op, Running

\* Beside a process that is neither starting nor a child, no command is alone.
LEMMA NobodyElse ==
    ASSUME Company, NEW s \in Sessions, s \in Running, Op(s) # "child",
           NEW u \in Sessions, u # s, UNCHANGED <<req, crowded>>, pc'[u] = pc[u]
    PROVE  AloneAt(u)'
<1> SUFFICES ASSUME Alone(u)', u \in Running' PROVE FALSE
  BY DEF AloneAt
<1>1. Alone(u) /\ u \in Running
  BY DEF Alone, Op, Running
<1> QED
  BY <1>1 DEF Company

LEMMA AloneStep ==
    ASSUME TypeOK, Placed, Company, AloneInv, [Next]_vars
    PROVE  AloneInv'
<1> SUFFICES ASSUME NEW u \in Sessions PROVE AloneAt(u)'
  BY DEF AloneInv
<1>0. AloneAt(u)
  BY DEF AloneInv
<1> USE DEF disk, mem, hist, Goto, StartWrites
<1>1. ASSUME NEW s \in Sessions, Open(s) PROVE AloneAt(u)'
  <2>1. CASE u = s
    BY <1>1, <2>1 DEF Open, TypeOK, Placed, AloneAt, Op, Running, Resting, Persisting
  <2>2. CASE u # s
    BY <1>0, <1>1, <2>2, Untouched DEF Open, TypeOK, NoteCompany
  <2> QED
    BY <2>1, <2>2
<1>2. ASSUME NEW s \in Sessions, ReadToml(s) PROVE AloneAt(u)'
  <2>1. CASE u = s
    BY <1>2, <2>1 DEF ReadToml, TypeOK, Placed, AloneAt, Op, Running, Resting, Persisting
  <2>2. CASE u # s
    BY <1>0, <1>2, <2>2, Untouched DEF ReadToml, TypeOK
  <2> QED
    BY <2>1, <2>2
<1>3. ASSUME NEW s \in Sessions, ReadLock(s) PROVE AloneAt(u)'
  <2>1. PICK T \in Wanted(s, file["lock"]) : todo' = [todo EXCEPT ![s] = T]
    BY <1>3 DEF ReadLock
  <2>2. CASE u = s
    <3>1. Op(s) = "snapshot" => T = deps[s]
      BY <2>1 DEF Wanted
    <3>2. used[s] = {} /\ used' = used /\ deps' = deps /\ req' = req
      BY <1>3 DEF ReadLock, Placed
    <3>3. pc'[s] \in {"work", "failed"} /\ todo'[s] = T
      BY <1>3, <2>1 DEF ReadLock, TypeOK
    <3> QED
      BY <2>2, <3>1, <3>2, <3>3 DEF AloneAt, Op, Persisting
  <2>3. CASE u # s
    BY <1>0, <1>3, <2>1, <2>3, Untouched DEF ReadLock, TypeOK
  <2> QED
    BY <2>2, <2>3
<1>4. ASSUME NEW s \in Sessions, Add(s) PROVE AloneAt(u)'
  <2>1. CASE u = s
    BY <1>0, <1>4, <2>1
    DEF Add, Obtain, LockWith, TypeOK, AloneAt, Alone, Op, Running, Resting, Persisting
  <2>2. CASE u # s
    BY <1>0, <1>4, <2>2, Untouched DEF Add, Obtain, TypeOK
  <2> QED
    BY <2>1, <2>2
<1>5. ASSUME NEW s \in Sessions, Remove(s) PROVE AloneAt(u)'
  <2>1. CASE u = s
    BY <1>5, <2>1 DEF Remove, TypeOK, Placed, AloneAt, Op
  <2>2. CASE u # s
    BY <1>0, <1>5, <2>2, Untouched DEF Remove, TypeOK
  <2> QED
    BY <2>1, <2>2
<1>6. ASSUME NEW s \in Sessions, Fetch(s) PROVE AloneAt(u)'
  <2>1. PICK p \in todo[s] : /\ Obtain(s, p)
                             /\ lock' = [lock EXCEPT ![s] = @ \cup {p}]
                             /\ todo' = [todo EXCEPT ![s] = @ \ {p}]
    BY <1>6 DEF Fetch
  <2>2. CASE u = s
    BY <1>0, <1>6, <2>1, <2>2
    DEF Fetch, Obtain, TypeOK, AloneAt, Alone, Op, Running, Resting, Persisting
  <2>3. CASE u # s
    BY <1>0, <1>6, <2>1, <2>3, Untouched DEF Fetch, Obtain, TypeOK
  <2> QED
    BY <2>2, <2>3
<1>7. ASSUME NEW s \in Sessions, Fetched(s) PROVE AloneAt(u)'
  <2>1. CASE u = s
    BY <1>0, <1>7, <2>1 DEF Fetched, TypeOK, AloneAt, Alone, Op, Running, Resting, Persisting
  <2>2. CASE u # s
    BY <1>0, <1>7, <2>2, Untouched DEF Fetched, TypeOK
  <2> QED
    BY <2>1, <2>2
<1>8. ASSUME NEW s \in Sessions, Run(s) PROVE AloneAt(u)'
  <2>1. CASE u = s
    BY <1>0, <1>8, <2>1 DEF Run, TypeOK, AloneAt, Alone, Op, Running, Resting, Persisting
  <2>2. CASE u # s
    BY <1>0, <1>8, <2>2, Untouched DEF Run, TypeOK
  <2> QED
    BY <2>1, <2>2
<1>9. ASSUME NEW s \in Sessions, Import(s) PROVE AloneAt(u)'
  <2>1. CASE u = s
    BY <1>9, <2>1 DEF Import, AloneAt, Alone, Op
  <2>2. CASE u # s
    BY <1>0, <1>9, <2>2, Untouched DEF Import, Obtain, TypeOK
  <2> QED
    BY <2>1, <2>2
<1>10. ASSUME NEW s \in Sessions, Exit(s) PROVE AloneAt(u)'
  <2>1. CASE u = s
    BY <1>10, <2>1 DEF Exit, AloneAt, Alone, Op
  <2>2. CASE u # s
    BY <1>0, <1>10, <2>2, Untouched DEF Exit, TypeOK
  <2> QED
    BY <2>1, <2>2
<1>11. ASSUME NEW s \in Sessions, Waited(s) PROVE AloneAt(u)'
  <2>1. CASE u = s
    BY <1>0, <1>11, <2>1
    DEF Waited, TypeOK, Placed, AloneAt, Alone, Op, Running, Resting, Persisting
  <2>2. CASE u # s
    BY <1>0, <1>11, <2>2, Untouched DEF Waited, TypeOK
  <2> QED
    BY <2>1, <2>2
<1>12. ASSUME NEW s \in Sessions, Truncate(s) PROVE AloneAt(u)'
  <2>1. /\ pc' = [pc EXCEPT ![s] = "failed"] \/ pc' = [pc EXCEPT ![s] = "fill"]
        /\ pc[s] = "truncate"
        /\ UNCHANGED <<req, crowded, objects, used, lock, deps, todo>>
    BY <1>12, Zenon DEF Truncate
  <2>2. s \in Running /\ Op(s) # "child"
    BY <2>1 DEF Placed, Running, Resting
  <2>3. CASE u = s
    BY <1>0, <2>1, <2>3 DEF TypeOK, AloneAt, Alone, Op, Running, Resting, Persisting
  <2>4. CASE u # s
    BY <2>1, <2>2, <2>4, NobodyElse DEF TypeOK
  <2> QED
    BY <2>3, <2>4
<1>13. ASSUME NEW s \in Sessions, Fill(s) PROVE AloneAt(u)'
  <2>1. s \in Running /\ Op(s) # "child"
    BY <1>13 DEF Fill, Placed, Running, Resting
  <2>2. CASE u = s
    <3>1. pc'[s] = "register" => file'["lock"] = lock[s]
      BY <1>13 DEF Fill, AfterFill, Content, TypeOK, Files
    <3>2. pc'[s] \in {"truncate", "register"} /\ pc[s] = "fill"
      BY <1>13 DEF Fill, AfterFill, TypeOK
    <3>3. UNCHANGED <<req, crowded, objects, used, lock, deps, todo>>
      BY <1>13 DEF Fill
    <3> QED
      BY <1>0, <2>2, <3>1, <3>2, <3>3 DEF AloneAt, Alone, Op, Running, Resting, Persisting
  <2>3. CASE u # s
    BY <1>13, <2>1, <2>3, NobodyElse DEF Fill, TypeOK
  <2> QED
    BY <2>2, <2>3
<1>14. ASSUME NEW s \in Sessions, Register(s) PROVE AloneAt(u)'
  <2>1. CASE u = s
    <3>1. pc'[s] = "wait" => Op(s) = "prefetch"
      BY <1>14 DEF Register, TypeOK
    <3>2. pc'[s] \in {"wait", "done"} /\ pc[s] = "register"
      BY <1>14 DEF Register, TypeOK
    <3>3. UNCHANGED <<req, crowded, objects, used, lock, deps, todo, file>>
      BY <1>14 DEF Register
    <3> QED
      BY <1>0, <2>1, <3>1, <3>2, <3>3 DEF AloneAt, Alone, Op, Running, Resting, Persisting
  <2>2. CASE u # s
    BY <1>0, <1>14, <2>2, Untouched DEF Register, TypeOK
  <2> QED
    BY <2>1, <2>2
<1>15. ASSUME NEW s \in Sessions, GcLook(s) PROVE AloneAt(u)'
  <2>1. CASE u = s
    BY <1>15, <2>1 DEF GcLook, TypeOK, Placed, AloneAt, Op, Persisting
  <2>2. CASE u # s
    BY <1>0, <1>15, <2>2, Untouched DEF GcLook, TypeOK, NoteCompany
  <2> QED
    BY <2>1, <2>2
<1>16. ASSUME NEW s \in Sessions, GcSweep(s) PROVE AloneAt(u)'
  <2>1. s \in Running /\ Op(s) # "child"
    BY <1>16 DEF GcSweep, Placed, Running, Resting
  <2>2. CASE u = s
    BY <1>16, <2>2 DEF GcSweep, TypeOK, AloneAt, Running, Resting
  <2>3. CASE u # s
    BY <1>16, <2>1, <2>3, NobodyElse DEF GcSweep, TypeOK
  <2> QED
    BY <2>2, <2>3
<1>17. ASSUME NEW s \in Sessions, Die(s) PROVE AloneAt(u)'
  <2>1. CASE u = s
    BY <1>17, <2>1 DEF Die, TypeOK, AloneAt, Running, Resting
  <2>2. CASE u # s
    BY <1>0, <1>17, <2>2, Untouched DEF Die, TypeOK
  <2> QED
    BY <2>1, <2>2
<1>18. CASE UNCHANGED vars
  BY <1>0, <1>18 DEF vars, AloneAt, Alone, Op, Running
<1> QED
  BY <1>1, <1>2, <1>3, <1>4, <1>5, <1>6, <1>7, <1>8, <1>9, <1>10, <1>11, <1>12, <1>13,
     <1>14, <1>15, <1>16, <1>17, <1>18 DEF Next, Step

\* A command that runs alone and ends well leaves lock and index in agreement, with what it is
\* about in both and in the store, whatever state it found the project in.
THEOREM CommandsTakeHold == Spec => AloneTakesHold
<1>1. Init => Placed /\ Company /\ AloneInv
  BY DEF Init, Placed, Company, AloneInv, AloneAt, Running, Resting
<1>2. ASSUME TypeOK, Placed, AloneInv, NEW s \in Sessions, Register(s), s \notin crowded
      PROVE  index' = file["lock"] /\ Due(s) \subseteq index' \cap objects
  <2>1. pc[s] = "register" /\ index' = lock[s]
    BY <1>2 DEF Register
  <2>2. Alone(s) /\ s \in Running
    BY <1>2, <2>1 DEF Placed, Alone, Running, Resting
  <2>3. /\ used[s] \subseteq lock[s] \cap objects
        /\ Op(s) = "snapshot" => deps[s] \subseteq used[s] \cup todo[s] /\ todo[s] = {}
        /\ file["lock"] = lock[s]
    BY <1>2, <2>1, <2>2 DEF AloneInv, AloneAt, Persisting
  <2> QED
    BY <2>1, <2>3 DEF Due
<1>3. TypeOK /\ Placed /\ AloneInv /\ [Next]_vars =>
        [\A s \in Sessions : Register(s) /\ s \notin crowded =>
            /\ index' = file["lock"]
            /\ Due(s) \subseteq index' \cap objects]_vars
  BY <1>2
<1> QED
  BY <1>1, <1>3, TypeInit, TypeStep, PlacedStep, CompanyStep, AloneStep, PTL
  DEF Spec, AloneTakesHold

------------------------------------------------------------------------------
(* Commands in sequence: what holds as long as they run one after the other *)
(* and none is killed in its writes, of any project whose files, index and  *)
(* store agree at the start.                                                *)


\* What a command that is under way has read, and what it has rewritten.
SessionOK(s) ==
    /\ pc[s] = "sweep" => todo[s] = index
    /\ pc[s] # "sweep" => added \subseteq deps[s]
    /\ pc[s] \notin {"sweep", "readToml", "readLock"}
          => added \subseteq lock[s] /\ lock[s] \subseteq objects
    /\ pc[s] \in Persisting =>
          /\ Op(s) = "add" => req[s].pkg \in deps[s] \cap lock[s]
          /\ target[s] \in {"json", "lock"} =>
                added \subseteq file["toml"] /\ (Op(s) = "add" => req[s].pkg \in file["toml"])
          /\ target[s] = "lock" =>
                added \subseteq file["json"] /\ (Op(s) = "add" => req[s].pkg \in file["json"])
          /\ pc[s] = "register" => target[s] = "lock" /\ file["lock"] = lock[s]

Writing(f) == \E s \in Sessions : pc[s] = "fill" /\ target[s] = f

OrderBody ==
    /\ \A f \in Files : Readable(f) \/ Writing(f)
    /\ \A s \in Sessions : pc[s] # "failed"
    /\ \A s \in Sessions : pc[s] = "fill" => state[target[s]] = "empty"
    /\ index \subseteq objects
    /\ Quiet => /\ index = file["lock"]
                /\ added \subseteq file["toml"] \cap file["json"] \cap file["lock"]
    /\ \A s \in Running : Op(s) # "child" => SessionOK(s)

OrderInv == Orderly => OrderBody

LEMMA OrderInit == ASSUME Consistent PROVE Init => OrderInv
<1> SUFFICES ASSUME Init PROVE OrderBody
  BY DEF OrderInv
<1>1. PICK w \in Worlds : /\ req = w.req /\ file = w.file /\ state = w.state
                          /\ index = w.index /\ objects = w.objects
  BY DEF Init
<1>2. /\ \A f \in Files : Readable(f)
      /\ index = file["lock"] /\ index \subseteq objects
  BY <1>1 DEF Consistent, Readable
<1>3. \A s \in Sessions : pc[s] = "start"
  BY DEF Init
<1> QED BY <1>2, <1>3 DEF Init, OrderBody, Running, Resting

------------------------------------------------------------------------------
(* One command at a time *)

\* Beside a command only its own children run.
LEMMA Sole ==
    ASSUME Company, crowded = {}, NEW s \in Running, Op(s) # "child",
           NEW t \in Running, t # s
    PROVE  Op(t) = "child" /\ req[t].parent = s /\ pc[s] = "wait"
BY DEF Company, Alone, Running

\* While a process runs that does not write, nobody writes.
LEMMA NobodyWrites ==
    ASSUME Placed, Company, crowded = {}, NEW s \in Running, pc[s] \notin Persisting
    PROVE  Quiet
<1> SUFFICES ASSUME NEW t \in Sessions, pc[t] \in Persisting PROVE FALSE
  BY DEF Quiet
<1>1. t \in Running /\ Op(t) # "child" /\ t # s
  BY DEF Placed, Running, Resting, Persisting
<1> QED BY <1>1, Sole DEF Persisting

\* A command that starts is the only one.
LEMMA FirstWrites ==
    ASSUME TypeOK, Placed, Company, crowded' = {}, NEW s \in Sessions, pc[s] = "start",
           MayStart(s), NoteCompany(s)
    PROVE  /\ Quiet
           /\ Op(s) # "child" => Running = {}
<1>1. CASE Op(s) # "child"
  <2>1. Running = {}
    BY <1>1 DEF NoteCompany
  <2> QED BY <2>1 DEF Quiet, Running, Resting, Persisting
<1>2. CASE Op(s) = "child"
  <2>1. req[s].parent \in Running /\ pc[req[s].parent] \notin Persisting
    BY <1>2, RequestFields DEF MayStart, Running, Resting, Persisting
  <2>2. crowded = {}
    BY <1>2 DEF NoteCompany
  <2> QED BY <1>2, <2>1, <2>2, NobodyWrites
<1> QED BY <1>1, <1>2

\* A step of s that writes no file.
LEMMA Steady ==
    ASSUME OrderBody, NEW s \in Sessions, UNCHANGED <<req, file, state, index, target>>,
           objects \subseteq objects', added' = added,
           \A t \in Sessions \ {s} : /\ pc'[t] = pc[t] /\ deps'[t] = deps[t]
                                     /\ lock'[t] = lock[t] /\ todo'[t] = todo[t],
           pc[s] \notin Persisting, pc'[s] \notin Persisting \cup {"failed"},
           s \in Running' /\ Op(s) # "child" => SessionOK(s)'
    PROVE  OrderBody'
<1>1. \A f \in Files : (Readable(f) \/ Writing(f))'
  <2>1. \A f \in Files : Readable(f)' <=> Readable(f)
    BY DEF Readable
  <2>2. \A f \in Files : Writing(f) => Writing(f)'
    BY DEF Writing, Persisting
  <2> QED BY <2>1, <2>2 DEF OrderBody
<1>2. Quiet' => Quiet
  BY DEF Quiet
<1>3. \A t \in Sessions : pc'[t] # "failed" /\ (pc'[t] = "fill" => state'[target'[t]] = "empty")
  BY DEF OrderBody, Persisting
<1>4. ASSUME NEW t \in Running', (Op(t) # "child")' PROVE SessionOK(t)'
  <2>1. CASE t = s
    BY <1>4, <2>1 DEF Op
  <2>2. CASE t # s
    <3>1. t \in Running /\ SessionOK(t)
      BY <1>4, <2>2 DEF OrderBody, Running, Op
    <3> QED BY <2>2, <3>1 DEF SessionOK, Op, Running
  <2> QED BY <2>1, <2>2
<1> QED BY <1>1, <1>2, <1>3, <1>4 DEF OrderBody

\* A command that writes, or is about to, is alone.
LEMMA Writer ==
    ASSUME Company, crowded = {}, NEW s \in Running, Op(s) # "child",
           pc[s] # "wait" \/ ChildEnded(s)
    PROVE  \A t \in Sessions \ {s} : pc[t] \in Resting
<1> SUFFICES ASSUME NEW t \in Running, t # s PROVE FALSE
  BY DEF Running
<1>1. Op(t) = "child" /\ req[t].parent = s /\ pc[s] = "wait"
  BY Sole
<1> QED BY <1>1 DEF ChildEnded, ChildOf, Running

\* A step of such a command.
LEMMA WriterStep ==
    ASSUME TypeOK, OrderBody, NEW s \in Sessions, UNCHANGED req, pc'[s] # "failed",
           \A t \in Sessions \ {s} : pc[t] \in Resting /\ pc'[t] = pc[t],
           \A f \in Files : Readable(f)' \/ (pc'[s] = "fill" /\ target'[s] = f),
           pc'[s] = "fill" => state'[target'[s]] = "empty",
           index' \subseteq objects',
           pc'[s] \notin Persisting =>
              /\ index' = file'["lock"]
              /\ added' \subseteq file'["toml"] \cap file'["json"] \cap file'["lock"],
           pc'[s] \notin Resting /\ Op(s) # "child" => SessionOK(s)'
    PROVE  OrderBody'
<1>1. \A f \in Files : (Readable(f) \/ Writing(f))'
  BY DEF Writing
<1>2. \A t \in Sessions : pc'[t] # "failed" /\ (pc'[t] = "fill" => state'[target'[t]] = "empty")
  BY DEF OrderBody, Resting
<1>3. Quiet' => pc'[s] \notin Persisting
  BY DEF Quiet
<1>4. \A t \in Running' : t = s
  BY DEF Running
<1> QED BY <1>1, <1>2, <1>3, <1>4 DEF OrderBody, Op, Running

------------------------------------------------------------------------------
(* Every step *)

LEMMA OrderStep ==
    ASSUME TypeOK, Placed, Company, AloneInv, OrderInv, [Next]_vars
    PROVE  OrderInv'
<1> SUFFICES ASSUME Orderly' PROVE OrderBody'
  BY DEF OrderInv
<1> USE DEF disk, mem, hist, Goto, StartWrites
<1>a. crowded' = {} /\ ~interrupted'
  BY DEF Orderly
<1>b. crowded = {} /\ ~interrupted
  <2>1. CASE UNCHANGED vars
    BY <1>a, <2>1 DEF vars
  <2>2. ASSUME NEW s \in Sessions, Step(s) \/ Die(s) PROVE crowded \subseteq crowded'
    BY <2>2 DEF Step, Open, ReadToml, ReadLock, Add, Remove, Fetch, Fetched, Run, Import, Exit,
                Waited, Truncate, Fill, Register, GcLook, GcSweep, Die, NoteCompany
  <2>3. ASSUME NEW s \in Sessions, Step(s) \/ Die(s), interrupted PROVE interrupted'
    BY <2>3 DEF Step, Open, ReadToml, ReadLock, Add, Remove, Fetch, Fetched, Run, Import, Exit,
                Waited, Truncate, Fill, Register, GcLook, GcSweep, Die
  <2> QED BY <1>a, <2>1, <2>2, <2>3 DEF Next
<1>c. OrderBody
  BY <1>b DEF OrderInv, Orderly
<1>d. \A s \in Running : Op(s) # "child" => SessionOK(s)
  BY <1>c DEF OrderBody
<1>e. Quiet => /\ \A f \in Files : Readable(f)
               /\ index = file["lock"] /\ index \subseteq objects
               /\ added \subseteq file["toml"] \cap file["json"] \cap file["lock"]
  BY <1>c DEF OrderBody, Quiet, Writing, Persisting
<1>1. ASSUME NEW s \in Sessions, Open(s) PROVE OrderBody'
  <2>1. Quiet
    BY <1>1, <1>a, FirstWrites DEF Open
  <2>2. /\ pc' = [pc EXCEPT ![s] = "readToml"] /\ pc[s] = "start"
        /\ deps' = [deps EXCEPT ![s] = file["json"]]
        /\ UNCHANGED <<req, disk, target, lock, todo, used, added>>
    BY <1>1, <1>e, <2>1 DEF Open, Files
  <2>3. SessionOK(s)'
    BY <1>e, <2>1, <2>2 DEF SessionOK, Persisting, TypeOK
  <2> QED BY <1>c, <2>2, <2>3, Steady DEF Persisting, TypeOK
<1>2. ASSUME NEW s \in Sessions, ReadToml(s) PROVE OrderBody'
  <2>1. Quiet /\ s \in Running
    <3>1. s \in Running /\ pc[s] \notin Persisting
      BY <1>2 DEF ReadToml, Running, Resting, Persisting
    <3> QED BY <1>b, <3>1, NobodyWrites
  <2>2. /\ pc' = [pc EXCEPT ![s] = "readLock"] /\ pc[s] = "readToml"
        /\ deps' = [deps EXCEPT ![s] = @ \cup file["toml"]]
        /\ UNCHANGED <<req, disk, target, lock, todo, used, added>>
    BY <1>2, <1>e, <2>1 DEF ReadToml, Files
  <2>3. Op(s) # "child" => SessionOK(s)'
    BY <1>d, <2>1, <2>2 DEF SessionOK, Persisting, TypeOK
  <2> QED BY <1>c, <2>2, <2>3, Steady DEF Persisting, TypeOK
<1>3. ASSUME NEW s \in Sessions, ReadLock(s) PROVE OrderBody'
  <2>1. Quiet /\ s \in Running
    <3>1. s \in Running /\ pc[s] \notin Persisting
      BY <1>3 DEF ReadLock, Running, Resting, Persisting
    <3> QED BY <1>b, <3>1, NobodyWrites
  <2>2. /\ pc' = [pc EXCEPT ![s] = "work"] /\ pc[s] = "readLock"
        /\ lock' = [lock EXCEPT ![s] = file["lock"]]
        /\ \A t \in Sessions \ {s} : todo'[t] = todo[t]
        /\ UNCHANGED <<req, disk, target, deps, used, added>>
    BY <1>3, <1>e, <2>1 DEF ReadLock, Files, TypeOK
  <2>3. Op(s) # "child" => SessionOK(s)'
    BY <1>d, <1>e, <2>1, <2>2 DEF SessionOK, Persisting, TypeOK
  <2> QED BY <1>c, <2>2, <2>3, Steady DEF Persisting, TypeOK
<1>4. ASSUME NEW s \in Sessions, Fetch(s) \/ Run(s) \/ Import(s) \/ Exit(s) PROVE OrderBody'
  <2>1. /\ pc[s] = "work" /\ pc'[s] \in {"work", "wait", "done"}
        /\ UNCHANGED <<req, file, state, index, target, deps, added>>
        /\ objects \subseteq objects'
        /\ lock[s] \subseteq lock'[s]
        /\ Op(s) # "child" => lock'[s] \subseteq lock[s] \cup objects'
        /\ \A t \in Sessions \ {s} : /\ pc'[t] = pc[t] /\ lock'[t] = lock[t]
                                     /\ todo'[t] = todo[t]
    BY <1>4 DEF Fetch, Run, Import, Exit, Obtain, TypeOK
  <2>2. Op(s) # "child" => SessionOK(s)'
    <3>1. s \in Running
      BY <2>1 DEF Running, Resting
    <3>2. Op(s) # "child" => /\ added \subseteq deps[s] /\ added \subseteq lock[s]
                             /\ lock[s] \subseteq objects
      BY <1>d, <2>1, <3>1 DEF SessionOK
    <3> QED BY <2>1, <3>2 DEF SessionOK, Persisting
  <2> QED BY <1>c, <2>1, <2>2, Steady DEF Persisting
<1>5. ASSUME NEW s \in Sessions, GcLook(s) PROVE OrderBody'
  <2>1. SessionOK(s)'
    BY <1>5 DEF GcLook, SessionOK, Persisting, TypeOK
  <2>2. /\ pc' = [pc EXCEPT ![s] = "sweep"] /\ pc[s] = "start"
        /\ todo' = [todo EXCEPT ![s] = index]
        /\ UNCHANGED <<req, disk, target, deps, lock, added>>
    BY <1>5 DEF GcLook
  <2> QED BY <1>c, <2>1, <2>2, Steady DEF Persisting, TypeOK
<1>6. ASSUME NEW s \in Sessions, Die(s) PROVE OrderBody'
  <2>1. /\ pc' = [pc EXCEPT ![s] = "dead"] /\ pc[s] \notin Persisting
        /\ UNCHANGED <<req, disk, target, mem, added>>
    BY <1>6, <1>a DEF Die
  <2>2. s \notin Running'
    BY <2>1 DEF Running, Resting, TypeOK
  <2> QED BY <1>c, <2>1, <2>2, Steady DEF Persisting, TypeOK
<1>7. CASE UNCHANGED vars
  BY <1>c, <1>7 DEF vars, OrderBody, SessionOK, Readable, Writing, Quiet, Running, Op
<1>8. ASSUME NEW s \in Sessions, Add(s) \/ Remove(s) \/ Fetched(s) \/ Waited(s)
      PROVE  OrderBody'
  <2>1. /\ s \in Running /\ Op(s) # "child" /\ pc[s] \in {"work", "wait"}
        /\ pc[s] # "wait" \/ ChildEnded(s)
        /\ UNCHANGED <<req, file, state, index>>
        /\ pc' = [pc EXCEPT ![s] = "truncate"]
        /\ \E f \in Files : target' = [target EXCEPT ![s] = f]
    BY <1>8 DEF Add, Remove, Fetched, Waited, Running, Resting, Placed, Files
  <2>2. Quiet /\ \A t \in Sessions \ {s} : pc[t] \in Resting /\ pc'[t] = pc[t]
    <3>1. \A t \in Sessions \ {s} : pc'[t] = pc[t]
      BY <2>1 DEF TypeOK
    <3> QED BY <1>b, <2>1, <3>1, Writer, NobodyWrites DEF Persisting
  <2>3. added \subseteq deps[s] /\ added \subseteq lock[s] /\ lock[s] \subseteq objects
    BY <1>d, <2>1 DEF SessionOK
  <2>4. SessionOK(s)' /\ objects \subseteq objects'
    <3>1. CASE Add(s)
      BY <2>1, <2>3, <3>1 DEF Add, Obtain, LockWith, SessionOK, Persisting, TypeOK, Op
    <3>2. CASE Remove(s)
      BY <2>1, <2>3, <3>2 DEF Remove, SessionOK, Persisting, TypeOK, Op
    <3>3. CASE Fetched(s) \/ Waited(s)
      <4>1. /\ target'[s] = "lock" /\ UNCHANGED <<mem, objects, added>> /\ Op(s) # "add"
            /\ pc'[s] = "truncate"
        BY <2>1, <3>3 DEF Fetched, Waited, Placed, TypeOK
      <4> QED BY <1>e, <2>1, <2>2, <2>3, <4>1 DEF SessionOK, Persisting, Op
    <3> QED BY <1>8, <3>1, <3>2, <3>3
  <2>5. pc'[s] = "truncate" /\ \A f \in Files : Readable(f)'
    BY <1>e, <2>1, <2>2 DEF Readable, TypeOK
  <2> QED BY <1>c, <1>e, <2>1, <2>2, <2>4, <2>5, WriterStep DEF Persisting
<1>w. ASSUME NEW s \in Sessions, pc[s] \in Persisting \cup {"sweep"}
      PROVE  /\ s \in Running /\ Op(s) # "child" /\ SessionOK(s)
             /\ \A t \in Sessions \ {s} : pc[t] \in Resting
  <2>1. s \in Running /\ Op(s) # "child" /\ pc[s] # "wait"
    BY <1>w DEF Placed, Running, Resting, Persisting
  <2> QED BY <1>b, <1>d, <2>1, Writer
<1>9. ASSUME NEW s \in Sessions, Truncate(s) PROVE OrderBody'
  <2> DEFINE f == target[s]
  <2>1. /\ pc[s] = "truncate" /\ SessionOK(s) /\ f \in Files
        /\ \A t \in Sessions \ {s} : pc[t] \in Resting
    BY <1>9, <1>w DEF Truncate, Persisting, TypeOK
  <2>2. \A g \in Files : Readable(g)
    BY <1>c, <2>1 DEF OrderBody, Writing, Resting
  <2>3. /\ file' = [file EXCEPT ![f] = {}]
        /\ state' = [state EXCEPT ![f] = "empty"]
        /\ pc' = [pc EXCEPT ![s] = "fill"]
        /\ UNCHANGED <<req, index, objects, target, mem, added, crowded>>
    BY <1>9, <2>2, Zenon DEF Truncate, Files
  <2> HIDE DEF f
  <2>4. /\ pc'[s] = "fill" /\ target'[s] = f /\ state'[f] = "empty"
        /\ \A t \in Sessions \ {s} : pc'[t] = pc[t]
        /\ \A g \in Files : g # f => Readable(g)' /\ file'[g] = file[g]
    <3>1. target[s] = f
      BY DEF f
    <3> QED BY <2>1, <2>2, <2>3, <3>1 DEF TypeOK, Readable
  <2>5. SessionOK(s)'
    <3>1. target[s] = f
      BY DEF f
    <3> QED BY <2>1, <2>3, <2>4, <3>1 DEF SessionOK, Persisting, Op, Files
  <2>6. index' \subseteq objects'
    BY <1>c, <2>3 DEF OrderBody
  <2> QED BY <1>c, <2>1, <2>3, <2>4, <2>5, <2>6, WriterStep DEF Persisting
<1>10. ASSUME NEW s \in Sessions, Fill(s) PROVE OrderBody'
  <2> DEFINE f == target[s]
  <2>1. /\ pc[s] = "fill" /\ SessionOK(s) /\ f \in Files
        /\ \A t \in Sessions \ {s} : pc[t] \in Resting
    BY <1>10, <1>w DEF Fill, Persisting, TypeOK
  <2>2. \A g \in Files : g # f => Readable(g)
    BY <1>c, <2>1 DEF OrderBody, Writing, Resting
  <2>3. /\ file' = [file EXCEPT ![f] = Content(s, f)]
        /\ state' = [state EXCEPT ![f] = "whole"]
        /\ pc' = [pc EXCEPT ![s] = AfterFill(f)]
        /\ target' = [target EXCEPT ![s] = NextFile(f)]
        /\ UNCHANGED <<req, index, objects, mem, added>>
    <3>1. state[f] = "empty"
      BY <1>c, <2>1 DEF OrderBody
    <3> QED BY <1>10, <3>1 DEF Fill, FillStates
  <2> HIDE DEF f
  <2>4. /\ pc'[s] = AfterFill(f) /\ pc'[s] \in {"truncate", "register"}
        /\ target'[s] = NextFile(f)
        /\ \A t \in Sessions \ {s} : pc'[t] = pc[t]
        /\ \A g \in Files : Readable(g)'
        /\ \A g \in Files : file'[g] = IF g = f THEN Content(s, f) ELSE file[g]
    BY <2>1, <2>2, <2>3 DEF TypeOK, Readable, AfterFill
  <2>5. SessionOK(s)'
    <3>1. target[s] = f
      BY DEF f
    <3>2. CASE f = "lock"
      BY <2>1, <2>3, <2>4, <3>1, <3>2
         DEF SessionOK, Persisting, Op, Files, AfterFill, NextFile, Content
    <3>3. CASE f # "lock"
      BY <2>1, <2>3, <2>4, <3>1, <3>3
         DEF SessionOK, Persisting, Op, Files, AfterFill, NextFile, Content
    <3> QED BY <3>2, <3>3
  <2>6. index' \subseteq objects'
    BY <1>c, <2>3 DEF OrderBody
  <2> QED BY <1>c, <2>1, <2>3, <2>4, <2>5, <2>6, WriterStep DEF Persisting
<1>11. ASSUME NEW s \in Sessions, Register(s) PROVE OrderBody'
  <2>1. /\ pc[s] = "register" /\ SessionOK(s)
        /\ \A t \in Sessions \ {s} : pc[t] \in Resting
    BY <1>11, <1>w DEF Register, Persisting
  <2>2. /\ index' = lock[s]
        /\ pc'[s] \in {"wait", "done"} /\ \A t \in Sessions \ {s} : pc'[t] = pc[t]
        /\ added' = IF Op(s) = "add" THEN added \cup {req[s].pkg} ELSE added
        /\ UNCHANGED <<req, file, state, objects, target, mem>>
    BY <1>11 DEF Register, TypeOK
  <2>3. \A g \in Files : Readable(g)'
    BY <1>c, <2>1, <2>2 DEF OrderBody, Writing, Resting, Readable
  <2>4. /\ added' \subseteq file["toml"] \cap file["json"] \cap lock[s]
        /\ added' \subseteq deps[s]
        /\ file["lock"] = lock[s] /\ lock[s] \subseteq objects
    BY <2>1, <2>2 DEF SessionOK, Persisting
  <2>5. SessionOK(s)'
    BY <2>2, <2>4 DEF SessionOK, Persisting
  <2> QED BY <1>c, <2>1, <2>2, <2>3, <2>4, <2>5, WriterStep DEF Persisting
<1>12. ASSUME NEW s \in Sessions, GcSweep(s) PROVE OrderBody'
  <2>1. /\ pc[s] = "sweep" /\ SessionOK(s) /\ s \in Running
        /\ \A t \in Sessions \ {s} : pc[t] \in Resting
    BY <1>12, <1>w DEF GcSweep
  <2>2. Quiet
    BY <1>b, <2>1, NobodyWrites DEF Persisting
  <2>3. /\ objects' = objects \cap index
        /\ pc'[s] = "done" /\ \A t \in Sessions \ {s} : pc'[t] = pc[t]
        /\ UNCHANGED <<req, file, state, index, added>>
    BY <1>12, <2>1 DEF GcSweep, Spared, SessionOK, TypeOK
  <2>4. \A g \in Files : Readable(g)'
    BY <1>e, <2>2, <2>3 DEF Readable
  <2> QED BY <1>c, <1>e, <2>1, <2>2, <2>3, <2>4, WriterStep DEF Resting
<1> QED BY <1>1, <1>2, <1>3, <1>4, <1>5, <1>6, <1>7, <1>8, <1>9, <1>10, <1>11, <1>12
        DEF Next, Step

------------------------------------------------------------------------------
(* The theorems *)

LEMMA OrderInvariant == ASSUME Consistent PROVE Spec => [](TypeOK /\ OrderInv)
<1>1. Init => Placed /\ Company /\ AloneInv
  BY DEF Init, Placed, Company, AloneInv, AloneAt, Running, Resting
<1> QED
  BY <1>1, TypeInit, TypeStep, PlacedStep, CompanyStep, AloneStep, OrderInit, OrderStep, PTL
  DEF Spec

\* Commands that run one after the other, killed at most outside their writes, keep the index
\* equal to the lock and within the store, in any project where it was so at the start.
THEOREM OrderKeepsTheIndex == ASSUME Consistent PROVE Spec => []LockAndIndexAgree
<1>1. OrderInv => LockAndIndexAgree
  BY DEF OrderInv, OrderBody, LockAndIndexAgree
<1> QED BY <1>1, OrderInvariant, PTL

\* ... what add has added is then in both manifests, the lock, the index and the store ...
THEOREM OrderKeepsTheAdded == ASSUME Consistent PROVE Spec => []AddedIsEverywhere
<1>1. OrderInv => AddedIsEverywhere
  BY DEF OrderInv, OrderBody, AddedIsEverywhere
<1> QED BY <1>1, OrderInvariant, PTL

\* ... and no command meets a file it cannot read.
THEOREM OrderKeepsReadable == ASSUME Consistent PROVE Spec => []OpensSucceed
<1>1. OrderInv => OpensSucceed
  BY DEF OrderInv, OrderBody, OpensSucceed
<1> QED BY <1>1, OrderInvariant, PTL
==============================================================================
