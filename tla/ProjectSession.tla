---------------------------- MODULE ProjectSession ----------------------------
(***************************************************************************)
(* The files of one project and the commands that share them:              *)
(* runtime/session.ts, runtime/execute.ts and api.ts over lockfile/index.ts*)
(* and manifest/project.ts.  A command is a process with a session: it     *)
(* reads package.json, knot.toml and knot.lock, works on its copies, and   *)
(* writes them back with writeFile, which first truncates the file.  knot  *)
(* run starts a child, which has a session of its own.  gc runs beside.    *)
(***************************************************************************)
EXTENDS Naturals, FiniteSets

CONSTANTS Packages,   \* packages, each with the object of its archive
          Sessions,   \* processes; each runs one command, once
          Worlds      \* the commands and the project they start with

Files == {"toml", "json", "lock"}

\* What a read of a file meets.  No file, and a truncated one, read alike: "empty".
States == {"whole", "empty", "garbled"}

Requests == [op : {"add", "remove"}, pkg : Packages]
              \cup [op : {"snapshot", "prefetch", "run", "gc"}]
              \cup [op : {"child"}, parent : Sessions]

ASSUME WorldsAssumption ==
    Worlds \subseteq [req : [Sessions -> Requests], file : [Files -> SUBSET Packages],
                      state : [Files -> States], index : SUBSET Packages,
                      objects : SUBSET Packages]

VARIABLES
  req,          \* the command of each process
  file, state,  \* the packages that a file lists, and what its text is
  index,        \* the project's index in the store
  objects,      \* the objects of the store
  pc, target,   \* where a process is, and the file it is writing
  deps, lock,   \* session.project.dependencies, and the lock of session.resolver
  todo,         \* what is still to be fetched; of gc, what it found in the index
  used,         \* the packages a process has resolved
  spawned,      \* the runs that have started their child
  added,        \* history: added by a command that ended well, not removed since
  crowded,      \* history: the processes that ran while a command beside them did
  interrupted   \* history: did a command end in the middle of its writes?

disk == <<file, state, index, objects>>
mem == <<deps, lock, todo, used>>
hist == <<added, crowded, interrupted>>
vars == <<req, disk, pc, target, mem, spawned, hist>>

Resting == {"start", "done", "failed", "dead"}
Persisting == {"truncate", "fill", "register"}
PCs == Resting \cup Persisting \cup {"readToml", "readLock", "work", "wait", "sweep"}

TypeOK ==
    /\ req \in [Sessions -> Requests]
    /\ file \in [Files -> SUBSET Packages]
    /\ state \in [Files -> States]
    /\ index \subseteq Packages /\ objects \subseteq Packages
    /\ pc \in [Sessions -> PCs]
    /\ target \in [Sessions -> Files]
    /\ deps \in [Sessions -> SUBSET Packages]
    /\ lock \in [Sessions -> SUBSET Packages]
    /\ todo \in [Sessions -> SUBSET Packages]
    /\ used \in [Sessions -> SUBSET Packages]
    /\ spawned \subseteq Sessions
    /\ added \subseteq Packages
    /\ crowded \subseteq Sessions
    /\ interrupted \in BOOLEAN

Init ==
    /\ \E w \in Worlds : /\ req = w.req /\ file = w.file /\ state = w.state
                         /\ index = w.index /\ objects = w.objects
    /\ pc = [s \in Sessions |-> "start"]
    /\ target = [s \in Sessions |-> "lock"]
    /\ deps = [s \in Sessions |-> {}]
    /\ lock = [s \in Sessions |-> {}]
    /\ todo = [s \in Sessions |-> {}]
    /\ used = [s \in Sessions |-> {}]
    /\ spawned = {}
    /\ added = {}
    /\ crowded = {}
    /\ interrupted = FALSE

------------------------------------------------------------------------------
(* Opening a session *)

Op(s) == req[s].op
Goto(s, where) == pc' = [pc EXCEPT ![s] = where]
Running == {s \in Sessions : pc[s] \notin Resting}

\* A child starts while its parent waits for it; a command starts at any time.
MayStart(s) == Op(s) = "child" => pc[req[s].parent] = "wait"

\* Fault: a file that is not there cannot be read.
Readable_Whole(f) == state[f] = "whole"

\* JSON.parse rejects an empty text; parseToml takes it for an empty document.
Readable(f) == state[f] = "whole" \/ (state[f] = "empty" /\ f # "json")

\* A child belongs to the command that started it.
NoteCompany(s) ==
    crowded' = IF Op(s) # "child" /\ Running # {} THEN crowded \cup Running \cup {s}
               ELSE crowded

\* RuntimeSession.open, loadProject: package.json first.  The loader of a child opens a
\* session of its own; knot gc opens the store only.
Open(s) ==
    /\ pc[s] = "start" /\ Op(s) # "gc" /\ MayStart(s)
    /\ deps' = [deps EXCEPT ![s] = file["json"]]
    /\ Goto(s, IF Readable("json") THEN "readToml" ELSE "failed")
    /\ NoteCompany(s)
    /\ UNCHANGED <<req, disk, target, lock, todo, used, spawned, added, interrupted>>

ReadToml(s) ==
    /\ pc[s] = "readToml"
    /\ deps' = [deps EXCEPT ![s] = @ \cup file["toml"]]
    /\ Goto(s, IF Readable("toml") THEN "readLock" ELSE "failed")
    /\ UNCHANGED <<req, disk, target, lock, todo, used, spawned, hist>>

\* Fault: snapshot takes what is locked for stored.
Wanted_Unlocked(s, locked) ==
    CASE Op(s) = "snapshot" -> {deps[s] \ locked}
      [] Op(s) = "prefetch" -> SUBSET Packages
      [] OTHER -> {{}}

\* snapshot looks for all that is declared, prefetch for what its entry imports, declared
\* or not.
Wanted(s, locked) ==
    CASE Op(s) = "snapshot" -> {deps[s]}
      [] Op(s) = "prefetch" -> SUBSET Packages
      [] OTHER -> {{}}

\* readLockfile, after which the command knows what to fetch.
ReadLock(s) ==
    /\ pc[s] = "readLock"
    /\ lock' = [lock EXCEPT ![s] = file["lock"]]
    /\ \E T \in Wanted(s, file["lock"]) : todo' = [todo EXCEPT ![s] = T]
    /\ Goto(s, IF Readable("lock") THEN "work" ELSE "failed")
    /\ UNCHANGED <<req, disk, target, deps, used, spawned, hist>>

------------------------------------------------------------------------------
(* Working *)

\* resolveSpecifier and ensurePackage: afterwards the package is stored and locked.
Obtain(s, p) ==
    /\ objects' = objects \cup {p}
    /\ used' = [used EXCEPT ![s] = @ \cup {p}]

\* Where persistManifests and persistSession begin.
StartWrites(s, f) == Goto(s, "truncate") /\ target' = [target EXCEPT ![s] = f]

\* Fault: only ingest updates the lock, which a hit in the store does not reach.
LockWith_Ingest(s, p) == IF p \in objects THEN lock[s] ELSE lock[s] \cup {p}

LockWith(s, p) == lock[s] \cup {p}

\* Knot.add
Add(s) ==
    /\ pc[s] = "work" /\ Op(s) = "add"
    /\ Obtain(s, req[s].pkg)
    /\ deps' = [deps EXCEPT ![s] = @ \cup {req[s].pkg}]
    /\ lock' = [lock EXCEPT ![s] = LockWith(s, req[s].pkg)]
    /\ StartWrites(s, "toml")
    /\ UNCHANGED <<req, file, state, index, todo, spawned, hist>>

\* Knot.remove
Remove(s) ==
    /\ pc[s] = "work" /\ Op(s) = "remove"
    /\ deps' = [deps EXCEPT ![s] = @ \ {req[s].pkg}]
    /\ lock' = [lock EXCEPT ![s] = @ \ {req[s].pkg}]
    /\ added' = added \ {req[s].pkg}
    /\ StartWrites(s, "toml")
    /\ UNCHANGED <<req, disk, todo, used, spawned, crowded, interrupted>>

\* Knot.snapshot and the prefetch of runProject
Fetch(s) ==
    /\ pc[s] = "work" /\ Op(s) \in {"snapshot", "prefetch"}
    /\ \E p \in todo[s] :
          /\ Obtain(s, p)
          /\ lock' = [lock EXCEPT ![s] = @ \cup {p}]
          /\ todo' = [todo EXCEPT ![s] = @ \ {p}]
    /\ UNCHANGED <<req, file, state, index, pc, target, deps, spawned, hist>>

Fetched(s) ==
    /\ pc[s] = "work" /\ Op(s) \in {"snapshot", "prefetch"} /\ todo[s] = {}
    /\ StartWrites(s, "lock")
    /\ UNCHANGED <<req, disk, mem, spawned, hist>>

\* runProject starts the program.
Run(s) ==
    /\ pc[s] = "work" /\ Op(s) = "run"
    /\ Goto(s, "wait")
    /\ spawned' = spawned \cup {s}
    /\ UNCHANGED <<req, disk, target, mem, hist>>

\* The loader of the program resolves an import: into the lock of the child's session.
Import(s) ==
    /\ pc[s] = "work" /\ Op(s) = "child"
    /\ \E p \in deps[s] \ used[s] :
          /\ Obtain(s, p)
          /\ lock' = [lock EXCEPT ![s] = @ \cup {p}]
    /\ UNCHANGED <<req, file, state, index, pc, target, deps, todo, spawned, hist>>

Exit(s) ==
    /\ pc[s] = "work" /\ Op(s) = "child"
    /\ Goto(s, "done")
    /\ UNCHANGED <<req, disk, target, mem, spawned, hist>>

ChildOf(s) == {c \in Sessions : Op(c) = "child" /\ req[c].parent = s}

\* Fault: an exit by a signal is not noticed.
ChildEnded_Code(s) == \A c \in ChildOf(s) : pc[c] \in {"done", "failed"}

ChildEnded(s) == \A c \in ChildOf(s) : pc[c] \in Resting \ {"start"}

Waited(s) ==
    /\ pc[s] = "wait" /\ ChildEnded(s)
    /\ StartWrites(s, "lock")
    /\ UNCHANGED <<req, disk, mem, spawned, hist>>

------------------------------------------------------------------------------
(* Writing *)

Content(s, f) == IF f = "lock" THEN lock[s] ELSE deps[s]

\* writeFile opens the file: from here it is empty.  The other fields of package.json are
\* read before.
Truncate(s) ==
    LET f == target[s] IN
    /\ pc[s] = "truncate"
    /\ IF f = "json" /\ ~Readable("json")
       THEN Goto(s, "failed") /\ interrupted' = TRUE /\ UNCHANGED <<file, state>>
       ELSE /\ file' = [file EXCEPT ![f] = {}]
            /\ state' = [state EXCEPT ![f] = "empty"]
            /\ Goto(s, "fill")
            /\ UNCHANGED interrupted
    /\ UNCHANGED <<req, index, objects, target, mem, spawned, added, crowded>>

\* ... and writes the text from the start of the file.  If another process has written since,
\* the end of its longer text remains.
FillStates(f) == IF state[f] = "empty" THEN {"whole"} ELSE {"whole", "garbled"}

\* Fault: the lock is written, the index is left to the next command.
AfterFill_Lazy(f) == IF f = "lock" THEN "done" ELSE "truncate"

AfterFill(f) == IF f = "lock" THEN "register" ELSE "truncate"

\* Fault: the target stays where it was when the lock's turn has come.
NextFile_Lost(f) == IF f = "toml" THEN "json" ELSE "none"

NextFile(f) == IF f = "toml" THEN "json" ELSE "lock"

Fill(s) ==
    LET f == target[s] IN
    /\ pc[s] = "fill"
    /\ file' = [file EXCEPT ![f] = Content(s, f)]
    /\ \E x \in FillStates(f) : state' = [state EXCEPT ![f] = x]
    /\ Goto(s, AfterFill(f))
    /\ target' = [target EXCEPT ![s] = NextFile(f)]
    /\ UNCHANGED <<req, index, objects, mem, spawned, hist>>

\* registerProject, then the end of the command, or the start of the program.
Register(s) ==
    /\ pc[s] = "register"
    /\ index' = lock[s]
    /\ IF Op(s) = "prefetch" /\ s \notin spawned
       THEN Goto(s, "wait") /\ spawned' = spawned \cup {s}
       ELSE Goto(s, "done") /\ UNCHANGED spawned
    /\ added' = IF Op(s) = "add" THEN added \cup {req[s].pkg} ELSE added
    /\ UNCHANGED <<req, file, state, objects, target, mem, crowded, interrupted>>

------------------------------------------------------------------------------
(* gc, and the end of a process *)

GcLook(s) ==
    /\ pc[s] = "start" /\ Op(s) = "gc"
    /\ todo' = [todo EXCEPT ![s] = index]
    /\ Goto(s, "sweep")
    /\ NoteCompany(s)
    /\ UNCHANGED <<req, disk, target, deps, lock, used, spawned, added, interrupted>>

\* Fault: what the index lists is collected.
Spared_None(s) == {}

Spared(s) == todo[s]

GcSweep(s) ==
    /\ pc[s] = "sweep"
    /\ objects' = objects \cap Spared(s)
    /\ Goto(s, "done")
    /\ UNCHANGED <<req, file, state, index, target, mem, spawned, hist>>

\* The process is killed, or a step of it throws.
Die(s) ==
    /\ s \in Running
    /\ Goto(s, "dead")
    /\ interrupted' = (interrupted \/ pc[s] \in Persisting)
    /\ UNCHANGED <<req, disk, target, mem, spawned, added, crowded>>

Step(s) ==
    \/ Open(s) \/ ReadToml(s) \/ ReadLock(s)
    \/ Add(s) \/ Remove(s) \/ Fetch(s) \/ Fetched(s) \/ Run(s) \/ Import(s) \/ Exit(s)
    \/ Waited(s) \/ Truncate(s) \/ Fill(s) \/ Register(s) \/ GcLook(s) \/ GcSweep(s)

Next == \E s \in Sessions : Step(s) \/ Die(s)

\* A process that has been started goes on; that includes the start of a child.
Started(s) == pc[s] # "start" \/ (Op(s) = "child" /\ MayStart(s))
Fairness == \A s \in Sessions : WF_vars(Started(s) /\ Step(s))

Spec == Init /\ [][Next]_vars /\ Fairness

------------------------------------------------------------------------------
(* Properties *)

Quiet == \A s \in Sessions : pc[s] \notin Persisting
Orderly == crowded = {} /\ ~interrupted

\* What a command has to leave behind: the package it added, all that a snapshot found
\* declared, all that a prefetch resolved.
Due(s) == IF Op(s) = "snapshot" THEN deps[s] ELSE used[s]

\* A command that runs alone and ends well puts the project in order, whatever commands were
\* killed in their writes, lost each other's updates or collected before it: lock and index
\* agree, and what the command is about is in both and in the store.
AloneTakesHold ==
    [][\A s \in Sessions : Register(s) /\ s \notin crowded =>
          /\ index' = file["lock"]
          /\ Due(s) \subseteq index' \cap objects]_vars

\* Commands that run one after the other, and die only outside their writes, leave the lock
\* and the index of the project in agreement, and the index never lists what the store has
\* not, whatever gc, children and killed commands did in between.
LockAndIndexAgree == Orderly => index \subseteq objects /\ (Quiet => index = file["lock"])

\* ... and what add has added is in both manifests, the lock, the index and the store.
AddedIsEverywhere ==
    Orderly /\ Quiet =>
        added \subseteq file["toml"] \cap file["json"] \cap file["lock"] \cap index \cap objects

\* ... and no command fails for an unreadable file.
OpensSucceed == Orderly => \A s \in Sessions : pc[s] # "failed"

\* What these three presuppose of the start: readable files, and an index that is the lock's
\* and stored.
Consistent ==
    \A w \in Worlds :
        /\ \A f \in Files : w.state[f] = "whole" \/ (w.state[f] = "empty" /\ f # "json")
        /\ w.index = w.file["lock"] /\ w.index \subseteq w.objects

\* A command that has been started ends, also when its child is killed.
CommandsEnd == \A s \in Sessions : pc[s] \in {"readToml", "wait"} ~> pc[s] \in Resting

\* README.md:290: "knot add <pkg>            Add a dependency": unless a command is killed in
\* its writes, what has been added stays in the lock until it is removed.
AddsLast == ~interrupted /\ Quiet => added \subseteq file["lock"]

\* ARCHITECTURE.md:72: "Project indexes record reachable objects so GC cannot delete in-use
\* content": what a running program has imported stays in the store.
LiveContentIsKept ==
    \A s \in Sessions : Op(s) = "child" /\ pc[s] = "work" => used[s] \subseteq objects
=============================================================================
