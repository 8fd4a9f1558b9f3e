---------------------------- MODULE ResolverProofs ----------------------------
(***************************************************************************)
(* Theorems about Resolver, for any number of requests, names and versions.*)
(***************************************************************************)
EXTENDS Resolver, TLAPS

\* Highest picks from the set it is given, or says that it cannot.
LEMMA HighestPicks ==
    ASSUME NEW V \in SUBSET Versions
    PROVE  /\ Highest(V) \in V \cup {NoVersion}
           /\ Highest(V) # NoVersion => Highest(V) \in V
<1>1. CASE Maximal(V) = {}
  BY <1>1 DEF Highest
<1>2. CASE Maximal(V) # {}
  <2>1. PICK v \in Maximal(V) : TRUE
    BY <1>2
  <2>2. Highest(V) \in Maximal(V)
    BY <1>2, <2>1 DEF Highest
  <2> QED
    BY <2>2 DEF Maximal
<1> QED
  BY <1>1, <1>2

\* What findLockPackage finds satisfies the range and is in the lock.
LEMMA ReusableFits ==
    ASSUME NEW n \in Names, NEW r \in Ranges, Reusable(n, r) # NoVersion
    PROVE  /\ Reusable(n, r) \in Versions \cap Sat[r]
           /\ lock[<<n, Reusable(n, r)>>] # "absent"
<1>1. LockedVersions(n) \cap Sat[r] \in SUBSET Versions
  BY DEF LockedVersions
<1> QED
  BY <1>1, HighestPicks DEF Reusable, LockedVersions

\* Whatever a packument offers, what is picked from it has the range's consent.
Accepted(r) == IF r = Latest THEN Versions ELSE Sat[r]

LEMMA SelectableFits ==
    ASSUME NEW V \in Packuments, NEW r \in Ranges, NEW x \in Picked(V, r)
    PROVE  /\ x \in Results
           /\ x = Failure \/ (x.from = "registry" /\ x.version \in Accepted(r))
<1>1. Selectable(V, r) \subseteq Versions \cap Accepted(r)
  BY SatAssumption DEF Selectable, Packuments, Maximal, Accepted, Any, Latest
<1>2. CASE Selectable(V, r) = {}
  BY <1>2 DEF Picked, Results
<1>3. CASE Selectable(V, r) # {}
  <2>1. PICK v \in Selectable(V, r) : x = [version |-> v, from |-> "registry"]
    BY <1>3 DEF Picked
  <2> QED
    BY <2>1, <1>1 DEF Results
<1> QED
  BY <1>2, <1>3

LEMMA FailureIsResult == Failure \in Results /\ Failure.from = "nowhere"
  BY DEF Results, Failure

\* The choices of Lead are results.
LEMMA FromLockType ==
    ASSUME NEW n \in Names, NEW v \in Versions
    PROVE  /\ FromLock(n, v) \in Results
           /\ FromLock(n, v).version = v
           /\ FromLock(n, v) # Failure
           /\ FromLock(n, v).from # "registry"
           /\ lock[<<n, v>>] = "object" => FromLock(n, v) = [version |-> v, from |-> "lock"]
<1>1. 0 \notin Versions
  BY VersionsAssumption
<1>2. CASE lock[<<n, v>>] = "object"
  BY <1>1, <1>2 DEF FromLock, Results, Failure, NoVersion
<1>3. CASE lock[<<n, v>>] = "workspace"
  BY <1>1, <1>3 DEF FromLock, Results, Failure, NoVersion
<1>4. CASE lock[<<n, v>>] \notin {"object", "workspace"}
  BY <1>1, <1>4 DEF FromLock, Results, Failure, NoVersion
<1> QED
  BY <1>2, <1>3, <1>4
LEMMA FirstResultsFit ==
    ASSUME TypeOK, NEW n \in Names, NEW r \in Ranges, NEW x \in FirstResults(n, r)
    PROVE  /\ x \in Results
           /\ x = Failure \/ x.version \in Accepted(r)
           /\ x.from = "registry" => Decision(n, r) = "ask"
<1>0. cache[n] \in Packuments
  BY DEF TypeOK
<1>1. CASE Decision(n, r) = "reuse"
  <2>1. Reusable(n, r) # NoVersion
    BY <1>1 DEF Decision
  <2>2. Reusable(n, r) \in Versions \cap Sat[r]
    BY <2>1, ReusableFits
  <2>3. x = FromLock(n, Reusable(n, r))
    BY <1>1 DEF FirstResults
  <2> QED
    BY <2>2, <2>3, FromLockType DEF Accepted
<1>2. CASE Decision(n, r) = "ask" /\ cache[n] # {}
  <2>1. x \in Picked(cache[n], r)
    BY <1>2 DEF FirstResults
  <2> QED
    BY <1>0, <1>2, <2>1, SelectableFits
<1>3. CASE Decision(n, r) # "reuse" /\ ~(Decision(n, r) = "ask" /\ cache[n] # {})
  <2>1. x = Failure
    BY <1>3 DEF FirstResults
  <2> QED
    BY <2>1, FailureIsResult
<1> QED
  BY <1>1, <1>2, <1>3

LEMMA RequestTypes ==
    ASSUME TypeOK, NEW c \in Calls
    PROVE  /\ Name(c) \in Names /\ Range(c) \in Ranges /\ Key(c) \in Keys
           /\ result[c] # Failure => Chosen(c) \in Packages
  BY DEF TypeOK, Requests, Name, Range, Key, Keys, Results, Chosen, Packages

------------------------------------------------------------------------------
(* Type correctness *)

\* Past its resolution, a request has a version.  Needed for the type of the store and of
\* the lock, which learn of that version.
Placed == \A c \in Calls : pc[c] \in {"ensure", "fetch", "unpack", "ingest"} => result[c] # Failure

LEMMA PlacedInit == Init => Placed
  BY DEF Init, Placed

LEMMA PlacedStep ==
    ASSUME TypeOK, Placed, [Next]_vars
    PROVE  Placed'
<1> USE DEF Modes, World, Caches, Goto
<1>1. ASSUME NEW c \in Calls, UseWorkspace(c) PROVE Placed'
  BY <1>1 DEF UseWorkspace, TypeOK, Placed
<1>2. ASSUME NEW c \in Calls, NoSuchMember(c) PROVE Placed'
  BY <1>2 DEF NoSuchMember, TypeOK, Placed
<1>3. ASSUME NEW c \in Calls, Join(c) PROVE Placed'
  BY <1>3 DEF Join, TypeOK, Placed
<1>4. ASSUME NEW c \in Calls, Lead(c) PROVE Placed'
  <2>1. pc' \in [Calls -> PCs] /\ pc'[c] \in {"settle", "readDisk", "packument"}
    BY <1>4 DEF Lead, AskPc, TypeOK, PCs, Leading
  <2>2. \A d \in Calls \ {c} : pc'[d] = pc[d] /\ result'[d] = result[d]
    BY <1>4 DEF Lead, TypeOK
  <2> QED
    BY <2>1, <2>2 DEF Placed
<1>5. ASSUME NEW c \in Calls, ReadDisk(c) PROVE Placed'
  BY <1>5 DEF ReadDisk, TypeOK, Placed
<1>6. ASSUME NEW c \in Calls, Answered(c) PROVE Placed'
  BY <1>6 DEF Answered, TypeOK, Placed
<1>7. ASSUME NEW c \in Calls, WriteDisk(c) PROVE Placed'
  BY <1>7 DEF WriteDisk, TypeOK, Placed
<1>8. ASSUME NEW c \in Calls, AskFails(c) PROVE Placed'
  BY <1>8 DEF AskFails, TypeOK, Placed
<1>9. ASSUME NEW c \in Calls, Settle(c) PROVE Placed'
  BY <1>9 DEF Settle, TypeOK, Placed
<1>10. ASSUME NEW c \in Calls, Ensure(c) PROVE Placed'
  BY <1>10 DEF Ensure, TypeOK, Placed
<1>11. ASSUME NEW c \in Calls, Fetch(c) PROVE Placed'
  BY <1>11 DEF Fetch, TypeOK, Placed
<1>12. ASSUME NEW c \in Calls, Unpack(c) PROVE Placed'
  BY <1>12 DEF Unpack, TypeOK, Placed
<1>13. ASSUME NEW c \in Calls, Ingest(c) PROVE Placed'
  BY <1>13 DEF Ingest, TypeOK, Placed
<1>14. ASSUME NEW c \in Calls, IngestDenied(c) PROVE Placed'
  BY <1>14 DEF IngestDenied, TypeOK, Placed
<1>15. ASSUME NEW c \in Calls, StepFails(c) PROVE Placed'
  BY <1>15 DEF StepFails, TypeOK, Placed
<1>16. ASSUME NEW n \in Names, NEW v \in Versions, Publish(n, v) PROVE Placed'
  BY <1>16 DEF Publish, Placed
<1>17. ASSUME NEW p \in Packages, Collected(p) PROVE Placed'
  BY <1>17 DEF Collected, Placed
<1>18. CASE UNCHANGED vars
  BY <1>18 DEF vars, Placed
<1> QED
  BY <1>1, <1>2, <1>3, <1>4, <1>5, <1>6, <1>7, <1>8, <1>9, <1>10, <1>11, <1>12, <1>13,
     <1>14, <1>15, <1>16, <1>17, <1>18 DEF Next, Step

LEMMA TypeInit == Init => TypeOK
<1> SUFFICES ASSUME Init PROVE TypeOK
  OBVIOUS
<1>1. PICK w \in Worlds : /\ frozen = w.frozen /\ offline = w.offline
                          /\ req = w.req /\ lock = w.lock /\ store = w.store
                          /\ published = w.published /\ disk = w.disk
  BY DEF Init
<1>2. w \in [req : [Calls -> Requests], frozen : BOOLEAN, offline : BOOLEAN,
             lock : [Packages -> Entries], store : SUBSET Packages,
             published : [Names -> Packuments], disk : [Names -> Packuments]]
  BY WorldsAssumption DEF WorldsAssumption
<1>3. /\ req \in [Calls -> Requests] /\ lock \in [Packages -> Entries]
      /\ store \subseteq Packages
      /\ published \in [Names -> Packuments] /\ disk \in [Names -> Packuments]
  BY <1>1, <1>2
<1>4. frozen \in BOOLEAN /\ offline \in BOOLEAN
  BY <1>1, <1>2
<1>5. /\ cache \in [Names -> Packuments] /\ answer \in [Calls -> Packuments]
      /\ inflight \in [Keys -> Calls \cup {NoCall}]
      /\ pc \in [Calls -> PCs]
      /\ held \in [Calls -> [version : Versions \cup {NoVersion}, stored : BOOLEAN]]
      /\ disturbed \in BOOLEAN
  BY DEF Init, Packuments, PCs, Leading
<1>6. result \in [Calls -> Results]
  BY FailureIsResult DEF Init
<1> QED
  BY <1>3, <1>4, <1>5, <1>6 DEF TypeOK

LEMMA TypeStep ==
    ASSUME TypeOK, Placed, [Next]_vars
    PROVE  TypeOK'
<1> USE DEF Modes, World, Caches, Goto
<1>1. ASSUME NEW c \in Calls, UseWorkspace(c) PROVE TypeOK'
  <2>1. [version |-> MemberVersion, from |-> "workspace"] \in Results
    BY MembersAssumption DEF MembersAssumption, Results
  <2> QED
    BY <1>1, <2>1 DEF UseWorkspace, TypeOK, Entries, PCs
<1>2. ASSUME NEW c \in Calls, NoSuchMember(c) PROVE TypeOK'
  BY <1>2 DEF NoSuchMember, TypeOK, PCs
<1>3. ASSUME NEW c \in Calls, Join(c) PROVE TypeOK'
  <2>1. inflight[Key(c)] \in Calls
    BY <1>3, RequestTypes DEF Join, TypeOK
  <2> QED
    BY <1>3, <2>1 DEF Join, TypeOK, PCs
<1>4. ASSUME NEW c \in Calls, Lead(c) PROVE TypeOK'
  <2> DEFINE n == Name(c)  r == Range(c)  v == Reusable(n, r)
             h == [version |-> v,
                   stored |-> v # NoVersion /\ lock[<<n, v>>] = "object" /\ <<n, v>> \in store]
  <2>1. n \in Names /\ r \in Ranges /\ Key(c) \in Keys
    BY RequestTypes
  <2>2. v \in Versions \cup {NoVersion}
    BY <2>1, ReusableFits
  <2>3. PICK x \in FirstResults(n, r) : result' = [result EXCEPT ![c] = x]
    BY <1>4 DEF Lead
  <2>4. x \in Results
    BY <2>1, <2>3, FirstResultsFit
  <2>5. result' \in [Calls -> Results]
    BY <2>3, <2>4 DEF TypeOK
  <2>6. h \in [version : Versions \cup {NoVersion}, stored : BOOLEAN]
    <3> HIDE DEF v, n
    <3> QED
      BY <2>2
  <2>7. held' = [held EXCEPT ![c] = h]
    BY <1>4 DEF Lead
  <2>8. held' \in [Calls -> [version : Versions \cup {NoVersion}, stored : BOOLEAN]]
    BY <2>6, <2>7 DEF TypeOK
  <2>9. pc' \in [Calls -> PCs]
    BY <1>4 DEF Lead, AskPc, TypeOK, PCs, Leading
  <2>10. /\ inflight' \in [Keys -> Calls \cup {NoCall}]
         /\ answer' \in [Calls -> Packuments]
    BY <1>4, <2>1 DEF Lead, TypeOK
  <2> QED
    BY <1>4, <2>5, <2>8, <2>9, <2>10 DEF Lead, TypeOK
<1>5. ASSUME NEW c \in Calls, ReadDisk(c) PROVE TypeOK'
  <2>1. Name(c) \in Names /\ Range(c) \in Ranges
    BY RequestTypes
  <2>2. disk[Name(c)] \in Packuments
    BY <2>1 DEF TypeOK
  <2>3. result' \in [Calls -> Results]
    BY <1>5, <2>1, <2>2, SelectableFits DEF ReadDisk, TypeOK
  <2>4. /\ answer' \in [Calls -> Packuments] /\ cache' \in [Names -> Packuments]
        /\ pc' \in [Calls -> PCs]
    BY <1>5, <2>1, <2>2 DEF ReadDisk, TypeOK, PCs, Leading
  <2> QED
    BY <1>5, <2>3, <2>4 DEF ReadDisk, TypeOK
<1>6. ASSUME NEW c \in Calls, Answered(c) PROVE TypeOK'
  <2>1. published[Name(c)] \in Packuments /\ Name(c) \in Names
    BY RequestTypes DEF TypeOK
  <2> QED
    BY <1>6, <2>1 DEF Answered, TypeOK, PCs, Leading
<1>7. ASSUME NEW c \in Calls, WriteDisk(c) PROVE TypeOK'
  <2>1. Name(c) \in Names /\ Range(c) \in Ranges /\ answer[c] \in Packuments
    BY RequestTypes DEF TypeOK
  <2>2. result' \in [Calls -> Results]
    BY <1>7, <2>1, SelectableFits DEF WriteDisk, TypeOK
  <2> QED
    BY <1>7, <2>1, <2>2 DEF WriteDisk, TypeOK, PCs, Leading
<1>8. ASSUME NEW c \in Calls, AskFails(c) PROVE TypeOK'
  <2>1. disk' \in [Names -> Packuments]
    BY <1>8, RequestTypes DEF AskFails, TypeOK, Packuments
  <2> QED
    BY <1>8, <2>1 DEF AskFails, TypeOK, PCs, Leading
<1>9. ASSUME NEW c \in Calls, Settle(c) PROVE TypeOK'
  <2>1. inflight' \in [Keys -> Calls \cup {NoCall}]
    BY <1>9, RequestTypes DEF Settle, TypeOK
  <2>2. pc' \in [Calls -> PCs]
    BY <1>9 DEF Settle, TypeOK, PCs
  <2>3. result' \in [Calls -> Results] /\ answer' \in [Calls -> Packuments]
    BY <1>9 DEF Settle, TypeOK
  <2> QED
    BY <1>9, <2>1, <2>2, <2>3 DEF Settle, TypeOK
<1>10. ASSUME NEW c \in Calls, Ensure(c) PROVE TypeOK'
  <2>1. EnsurePc(c) \in {"done", "failed", "fetch", "unpack"}
    BY DEF EnsurePc
  <2> QED
    BY <1>10, <2>1 DEF Ensure, TypeOK, PCs
<1>11. ASSUME NEW c \in Calls, Unpack(c) PROVE TypeOK'
  BY <1>11 DEF Unpack, TypeOK, PCs
<1>12. ASSUME NEW c \in Calls, IngestDenied(c) PROVE TypeOK'
  BY <1>12 DEF IngestDenied, TypeOK, PCs
<1>13. ASSUME NEW c \in Calls, StepFails(c) PROVE TypeOK'
  BY <1>13 DEF StepFails, TypeOK, PCs
<1>14. ASSUME NEW n \in Names, NEW v \in Versions, Publish(n, v) PROVE TypeOK'
  BY <1>14 DEF Publish, TypeOK, Packuments
<1>15. ASSUME NEW p \in Packages, Collected(p) PROVE TypeOK'
  BY <1>15 DEF Collected, TypeOK
<1>16. CASE UNCHANGED vars
  BY <1>16 DEF vars, TypeOK
<1>17. ASSUME NEW c \in Calls, Fetch(c) PROVE TypeOK'
  <2>1. Chosen(c) \in Packages
    BY <1>17, RequestTypes DEF Fetch, Placed
  <2> QED
    BY <1>17, <2>1 DEF Fetch, TypeOK, PCs
<1>18. ASSUME NEW c \in Calls, Ingest(c) PROVE TypeOK'
  <2>1. Chosen(c) \in Packages
    BY <1>18, RequestTypes DEF Ingest, Placed
  <2> QED
    BY <1>18, <2>1 DEF Ingest, TypeOK, PCs, Entries
<1> QED
  BY <1>1, <1>2, <1>3, <1>4, <1>5, <1>6, <1>7, <1>8, <1>9, <1>10, <1>11, <1>12, <1>13,
     <1>14, <1>15, <1>16, <1>17, <1>18 DEF Next, Step

LEMMA Typed == Spec => [](TypeOK /\ Placed)
<1>1. TypeOK /\ Placed /\ [Next]_vars => (TypeOK /\ Placed)'
  BY TypeStep, PlacedStep
<1> QED
  BY <1>1, TypeInit, PlacedInit, PTL DEF Spec

\* The declared types hold in every reachable state: versions come from packuments or
\* from the lock, promises are made by requests, locks hold known kinds of entries.
THEOREM TypeCorrect == Spec => []TypeOK
  BY Typed, PTL
------------------------------------------------------------------------------
(* The map of promises *)

\* The map and the requests agree: an entry is led by its request, a request that leads
\* is in the map, and who awaits a promise finds it in the map.
LeadInv ==
    \A c \in Calls :
        /\ \A k \in Keys : inflight[k] = c => pc[c] \in Leading /\ Key(c) = k
        /\ pc[c] \in Leading => inflight[Key(c)] = c /\ ~IsLocal(c)
        /\ pc[c] = "await" => inflight[Key(c)] # NoCall /\ ~IsLocal(c)

LEMMA LeadStep ==
    ASSUME TypeOK, LeadInv, [Next]_vars
    PROVE  LeadInv'
<1> USE DEF Modes, World, Caches, Goto, Leading, LeadInv, Key, Name, Range, IsLocal
<1>k. \A c \in Calls : Key(c) \in Keys
  BY RequestTypes
<1>r. NoCall \notin Calls
  BY CallsAssumption DEF CallsAssumption
<1>1. ASSUME NEW c \in Calls, UseWorkspace(c) PROVE LeadInv'
  BY <1>1 DEF UseWorkspace, TypeOK
<1>2. ASSUME NEW c \in Calls, NoSuchMember(c) PROVE LeadInv'
  BY <1>2 DEF NoSuchMember, TypeOK
<1>3. ASSUME NEW c \in Calls, Join(c) PROVE LeadInv'
  <2>1. /\ pc[c] = "start" /\ inflight[Key(c)] # NoCall /\ UNCHANGED <<inflight, req>>
        /\ ~IsLocal(c)
        /\ pc' = [pc EXCEPT ![c] = "await"]
    BY <1>3 DEF Join, Specified
  <2>2. pc'[c] = "await" /\ \A d \in Calls \ {c} : pc'[d] = pc[d]
    BY <2>1 DEF TypeOK
  <2> QED
    BY <2>1, <2>2
<1>4. ASSUME NEW c \in Calls, Lead(c) PROVE LeadInv'
  <2>1. /\ pc[c] = "start" /\ ~IsLocal(c)
        /\ inflight[Key(c)] = NoCall
        /\ inflight' = [inflight EXCEPT ![Key(c)] = c]
        /\ req' = req
    BY <1>4 DEF Lead, Specified, Vacant
  <2>2. pc' \in [Calls -> PCs] /\ pc'[c] \in Leading /\ \A d \in Calls \ {c} : pc'[d] = pc[d]
    BY <1>4 DEF Lead, AskPc, TypeOK, PCs
  <2> QED
    BY <2>1, <2>2, <1>k, <1>r DEF TypeOK
<1>5. ASSUME NEW c \in Calls, ReadDisk(c) PROVE LeadInv'
  BY <1>5 DEF ReadDisk, TypeOK
<1>6. ASSUME NEW c \in Calls, Answered(c) PROVE LeadInv'
  BY <1>6 DEF Answered, TypeOK
<1>7. ASSUME NEW c \in Calls, WriteDisk(c) PROVE LeadInv'
  BY <1>7 DEF WriteDisk, TypeOK
<1>8. ASSUME NEW c \in Calls, AskFails(c) PROVE LeadInv'
  BY <1>8 DEF AskFails, TypeOK
<1>9. ASSUME NEW c \in Calls, Settle(c) PROVE LeadInv'
  <2>1. /\ pc[c] = "settle" /\ inflight[Key(c)] = c
        /\ inflight' = [inflight EXCEPT ![Key(c)] = NoCall]
        /\ req' = req
    BY <1>9 DEF Settle
  <2>2. \A d \in Calls : IF d = c \/ (pc[d] = "await" /\ Key(d) = Key(c))
                         THEN pc'[d] \in {"failed", "ensure"} ELSE pc'[d] = pc[d]
    BY <1>9 DEF Settle, Waiters
  <2>3. ASSUME NEW d \in Calls
        PROVE  /\ \A k \in Keys : inflight'[k] = d => pc'[d] \in Leading /\ Key(d) = k
               /\ pc'[d] \in Leading => inflight'[Key(d)] = d /\ ~IsLocal(d)
               /\ pc'[d] = "await" => inflight'[Key(d)] # NoCall /\ ~IsLocal(d)
    <3>1. CASE d = c \/ (pc[d] = "await" /\ Key(d) = Key(c))
      <4>1. pc'[d] \notin Leading /\ pc'[d] # "await"
        BY <2>2, <3>1
      <4>2. ASSUME NEW k \in Keys, inflight'[k] = d PROVE FALSE
        <5>1. k # Key(c) /\ inflight[k] = d
          BY <2>1, <4>2, <1>k, <1>r DEF TypeOK
        <5>2. pc[d] \in Leading /\ Key(d) = k
          BY <5>1
        <5> QED
          BY <3>1, <5>1, <5>2
      <4> QED
        BY <4>1, <4>2
    <3>2. CASE ~(d = c \/ (pc[d] = "await" /\ Key(d) = Key(c)))
      <4>1. pc'[d] = pc[d]
        BY <2>2, <3>2
      <4>2. \A k \in Keys : inflight'[k] = d => inflight[k] = d
        BY <2>1, <1>k, <1>r DEF TypeOK
      <4>3. pc[d] \in Leading \/ pc[d] = "await" => Key(d) # Key(c)
        BY <2>1, <3>2
      <4>4. Key(d) # Key(c) => inflight'[Key(d)] = inflight[Key(d)]
        BY <2>1, <1>k DEF TypeOK
      <4> HIDE DEF Key, IsLocal, Name, Range
      <4> QED
        BY <4>1, <4>2, <4>3, <4>4
    <3> QED
      BY <3>1, <3>2
  <2>4. \A d \in Calls : (Key(d))' = Key(d) /\ (IsLocal(d))' = IsLocal(d)
    BY <2>1
  <2> HIDE DEF Key, IsLocal, Name, Range
  <2> QED
    BY <2>3, <2>4
<1>10. ASSUME NEW c \in Calls, Ensure(c) PROVE LeadInv'
  <2>1. EnsurePc(c) \in {"done", "failed", "fetch", "unpack"}
    BY DEF EnsurePc
  <2> QED
    BY <1>10, <2>1 DEF Ensure, TypeOK
<1>11. ASSUME NEW c \in Calls, Fetch(c) PROVE LeadInv'
  BY <1>11 DEF Fetch, TypeOK
<1>12. ASSUME NEW c \in Calls, Unpack(c) PROVE LeadInv'
  BY <1>12 DEF Unpack, TypeOK
<1>13. ASSUME NEW c \in Calls, Ingest(c) PROVE LeadInv'
  BY <1>13 DEF Ingest, TypeOK
<1>14. ASSUME NEW c \in Calls, IngestDenied(c) PROVE LeadInv'
  BY <1>14 DEF IngestDenied, TypeOK
<1>15. ASSUME NEW c \in Calls, StepFails(c) PROVE LeadInv'
  BY <1>15 DEF StepFails, TypeOK
<1>16. ASSUME NEW n \in Names, NEW v \in Versions, Publish(n, v) PROVE LeadInv'
  BY <1>16 DEF Publish
<1>17. ASSUME NEW p \in Packages, Collected(p) PROVE LeadInv'
  BY <1>17 DEF Collected
<1>18. CASE UNCHANGED vars
  BY <1>18 DEF vars
<1> QED
  BY <1>1, <1>2, <1>3, <1>4, <1>5, <1>6, <1>7, <1>8, <1>9, <1>10, <1>11, <1>12, <1>13,
     <1>14, <1>15, <1>16, <1>17, <1>18 DEF Next, Step

LEMMA Led == Spec => [](TypeOK /\ Placed /\ LeadInv)
<1>1. Init => LeadInv
  BY CallsAssumption, RequestTypes, TypeInit DEF Init, LeadInv, Leading, CallsAssumption
<1>2. TypeOK /\ LeadInv /\ [Next]_vars => LeadInv'
  BY LeadStep
<1> QED
  BY <1>1, <1>2, Typed, PTL DEF Spec

\* One resolution per name and range, however many ask at once, and whoever awaits a
\* promise awaits one that is still being resolved.
THEOREM SharedPromises == Spec => []OneResolutionPerKey
<1>1. TypeOK /\ LeadInv => OneResolutionPerKey
  <2> SUFFICES ASSUME TypeOK, LeadInv, NEW c \in Calls, NEW d \in Calls
               PROVE  /\ pc[c] \in Leading /\ pc[d] \in Leading /\ Key(c) = Key(d) => c = d
                      /\ pc[c] = "await" => /\ inflight[Key(c)] # NoCall
                                            /\ pc[inflight[Key(c)]] \in Leading
    BY DEF OneResolutionPerKey
  <2>1. Key(c) \in Keys
    BY RequestTypes
  <2> QED
    BY <2>1 DEF LeadInv, TypeOK
<1> QED
  BY <1>1, Led, PTL
------------------------------------------------------------------------------
(* Frozen and offline sessions *)

\* In a sealed mode nothing that came from the registry is past Ensure.
SealInv ==
    frozen \/ offline =>
        \A c \in Calls : /\ pc[c] \notin {"packument", "writeDisk", "fetch", "ingest"}
                         /\ pc[c] = "unpack" => result[c].from # "registry"

LEMMA SealStep ==
    ASSUME TypeOK, SealInv, [Next]_vars
    PROVE  SealInv'
<1> USE DEF Modes, World, Caches, Goto
<1>s. SUFFICES ASSUME frozen \/ offline
               PROVE  SealInv'
  <2>1. frozen' = frozen /\ offline' = offline
    BY DEF Next, Step, vars, UseWorkspace, NoSuchMember, Join, Lead, ReadDisk, Answered,
           WriteDisk, AskFails, Settle, Ensure, Fetch, Unpack, Ingest, IngestDenied,
           StepFails, Publish, Collected
  <2> QED
    BY <2>1 DEF SealInv
<1>0. \A c \in Calls : /\ pc[c] \notin {"packument", "writeDisk", "fetch", "ingest"}
                       /\ pc[c] = "unpack" => result[c].from # "registry"
  BY <1>s DEF SealInv
<1>1. ASSUME NEW c \in Calls, UseWorkspace(c) PROVE SealInv'
  BY <1>0, <1>1 DEF UseWorkspace, TypeOK, SealInv
<1>2. ASSUME NEW c \in Calls, NoSuchMember(c) PROVE SealInv'
  BY <1>0, <1>2 DEF NoSuchMember, TypeOK, SealInv
<1>3. ASSUME NEW c \in Calls, Join(c) PROVE SealInv'
  BY <1>0, <1>3 DEF Join, TypeOK, SealInv
<1>4. ASSUME NEW c \in Calls, Lead(c) PROVE SealInv'
  <2>1. frozen => Decision(Name(c), Range(c)) # "ask"
    BY DEF Decision
  <2>2. pc' \in [Calls -> PCs] /\ pc'[c] \in {"settle", "readDisk"}
    BY <1>s, <1>4, <2>1 DEF Lead, AskPc, TypeOK, PCs, Leading
  <2>3. \A d \in Calls \ {c} : pc'[d] = pc[d] /\ result'[d] = result[d]
    BY <1>4 DEF Lead, TypeOK
  <2> QED
    BY <1>0, <2>2, <2>3 DEF SealInv
<1>5. ASSUME NEW c \in Calls, ReadDisk(c) PROVE SealInv'
  BY <1>0, <1>5 DEF ReadDisk, TypeOK, SealInv
<1>6. ASSUME NEW c \in Calls, Answered(c) PROVE SealInv'
  BY <1>0, <1>6 DEF Answered, TypeOK, SealInv
<1>7. ASSUME NEW c \in Calls, WriteDisk(c) PROVE SealInv'
  BY <1>0, <1>7 DEF WriteDisk, TypeOK, SealInv
<1>8. ASSUME NEW c \in Calls, AskFails(c) PROVE SealInv'
  BY <1>0, <1>8 DEF AskFails, TypeOK, SealInv
<1>9. ASSUME NEW c \in Calls, Settle(c) PROVE SealInv'
  BY <1>0, <1>9 DEF Settle, Waiters, TypeOK, SealInv
<1>10. ASSUME NEW c \in Calls, Ensure(c) PROVE SealInv'
  <2>1. /\ EnsurePc(c) \in {"done", "failed", "unpack"}
        /\ EnsurePc(c) = "unpack" => result[c].from # "registry"
    BY <1>s DEF EnsurePc
  <2> QED
    BY <1>0, <1>10, <2>1 DEF Ensure, TypeOK, SealInv
<1>11. ASSUME NEW c \in Calls, Fetch(c) PROVE SealInv'
  BY <1>0, <1>11 DEF Fetch
<1>12. ASSUME NEW c \in Calls, Unpack(c) PROVE SealInv'
  BY <1>0, <1>12 DEF Unpack, TypeOK, SealInv
<1>13. ASSUME NEW c \in Calls, Ingest(c) PROVE SealInv'
  BY <1>0, <1>13 DEF Ingest
<1>14. ASSUME NEW c \in Calls, IngestDenied(c) PROVE SealInv'
  BY <1>0, <1>14 DEF IngestDenied
<1>15. ASSUME NEW c \in Calls, StepFails(c) PROVE SealInv'
  BY <1>0, <1>15 DEF StepFails, TypeOK, SealInv
<1>16. ASSUME NEW n \in Names, NEW v \in Versions, Publish(n, v) PROVE SealInv'
  BY <1>0, <1>16 DEF Publish, SealInv
<1>17. ASSUME NEW p \in Packages, Collected(p) PROVE SealInv'
  BY <1>0, <1>17 DEF Collected, SealInv
<1>18. CASE UNCHANGED vars
  BY <1>0, <1>18 DEF vars, SealInv
<1> QED
  BY <1>1, <1>2, <1>3, <1>4, <1>5, <1>6, <1>7, <1>8, <1>9, <1>10, <1>11, <1>12, <1>13,
     <1>14, <1>15, <1>16, <1>17, <1>18 DEF Next, Step

LEMMA Sealing == Spec => [](TypeOK /\ SealInv)
<1>1. Init => SealInv
  BY DEF Init, SealInv
<1>2. TypeOK /\ SealInv /\ [Next]_vars => SealInv'
  BY SealStep
<1> QED
  BY <1>1, <1>2, TypeCorrect, PTL DEF Spec

\* No request of a frozen or offline session is ever talking to the registry, downloading,
\* or about to add a package to the lock.
THEOREM NoNetworkWhenSealed == Spec => []SealedModes
<1>1. SealInv => SealedModes
  BY DEF SealInv, SealedModes
<1> QED
  BY <1>1, Sealing, PTL

\* Whatever a frozen session does, the packages of its lock stay what they were; only
\* workspace members are noted.
THEOREM FrozenLock == Spec => FrozenKeepsLock
<1>1. TypeOK /\ SealInv /\ [Next]_vars =>
        [frozen => \A p \in Packages : lock'[p] = lock[p] \/ lock'[p] = "workspace"]_vars
  <2> SUFFICES ASSUME TypeOK, SealInv, Next, frozen, NEW p \in Packages
               PROVE  lock'[p] = lock[p] \/ lock'[p] = "workspace"
    BY DEF vars
  <2>1. ASSUME NEW c \in Calls, UseWorkspace(c)
        PROVE  lock'[p] = lock[p] \/ lock'[p] = "workspace"
    BY <2>1 DEF UseWorkspace, TypeOK
  <2>2. ASSUME NEW c \in Calls, Ingest(c) PROVE FALSE
    BY <2>2 DEF Ingest, SealInv
  <2>3. CASE lock' = lock
    BY <2>3
  <2> QED
    BY <2>1, <2>2, <2>3
    DEF Next, Step, NoSuchMember, Join, Lead, ReadDisk, Answered, WriteDisk, AskFails,
        Settle, Ensure, Fetch, Unpack, IngestDenied, StepFails, Publish, Collected
<1> QED
  BY <1>1, Sealing, PTL DEF Spec, FrozenKeepsLock
------------------------------------------------------------------------------
(* Ranges *)

\* From its resolution on, what a request has been given is in its range.
Resolved == {"settle", "ensure", "fetch", "unpack", "ingest", "done"}
RangeInv ==
    \A c \in Calls :
        /\ pc[c] \in Resolved /\ ~IsLocal(c) =>
              result[c] = Failure \/ result[c].version \in Accepted(Range(c))
        /\ pc[c] = "done" => result[c] # Failure
        /\ pc[c] \in {"readDisk", "packument", "writeDisk"} => result[c] = Failure

LEMMA RangeStep ==
    ASSUME TypeOK, Placed, LeadInv, RangeInv, [Next]_vars
    PROVE  RangeInv'
<1> USE DEF Modes, World, Caches, Goto, Resolved, IsLocal, Name, Range
<1>1. ASSUME NEW c \in Calls, UseWorkspace(c) PROVE RangeInv'
  <2>1. Failure # [version |-> MemberVersion, from |-> "workspace"]
    BY DEF Failure
  <2> QED
    BY <1>1, <2>1 DEF UseWorkspace, TypeOK, RangeInv
<1>2. ASSUME NEW c \in Calls, NoSuchMember(c) PROVE RangeInv'
  BY <1>2 DEF NoSuchMember, TypeOK, RangeInv
<1>3. ASSUME NEW c \in Calls, Join(c) PROVE RangeInv'
  BY <1>3 DEF Join, TypeOK, RangeInv
<1>4. ASSUME NEW c \in Calls, Lead(c) PROVE RangeInv'
  <2>1. Name(c) \in Names /\ Range(c) \in Ranges
    BY RequestTypes
  <2>2. PICK x \in FirstResults(Name(c), Range(c)) : result' = [result EXCEPT ![c] = x]
    BY <1>4 DEF Lead
  <2>3. x = Failure \/ x.version \in Accepted(Range(c))
    BY <2>1, <2>2, FirstResultsFit
  <2>4. /\ pc'[c] # "done" /\ req' = req
        /\ pc'[c] \in {"readDisk", "packument", "writeDisk"} =>
              Decision(Name(c), Range(c)) = "ask" /\ cache[Name(c)] = {}
        /\ result'[c] = x
        /\ \A d \in Calls \ {c} : pc'[d] = pc[d] /\ result'[d] = result[d]
    BY <1>4, <2>2 DEF Lead, AskPc, TypeOK
  <2>5. Decision(Name(c), Range(c)) = "ask" /\ cache[Name(c)] = {} => x = Failure
    BY <2>2 DEF FirstResults
  <2> QED
    BY <2>3, <2>4, <2>5 DEF RangeInv
<1>5. ASSUME NEW c \in Calls, ReadDisk(c) PROVE RangeInv'
  <2>1. Name(c) \in Names /\ Range(c) \in Ranges
    BY RequestTypes
  <2>2. PICK x \in Picked(disk[Name(c)], Range(c)) : result' = [result EXCEPT ![c] = x]
    BY <1>5 DEF ReadDisk
  <2>3. x = Failure \/ x.version \in Accepted(Range(c))
    BY <2>1, <2>2, SelectableFits DEF TypeOK
  <2> QED
    BY <1>5, <2>2, <2>3 DEF ReadDisk, TypeOK, RangeInv
<1>6. ASSUME NEW c \in Calls, Answered(c) PROVE RangeInv'
  <2>1. result[c] = Failure /\ result' = result /\ req' = req
    BY <1>6 DEF Answered, RangeInv
  <2>2. pc'[c] \in {"settle", "writeDisk"} /\ \A d \in Calls \ {c} : pc'[d] = pc[d]
    BY <1>6 DEF Answered, TypeOK
  <2> QED
    BY <2>1, <2>2 DEF RangeInv
<1>7. ASSUME NEW c \in Calls, WriteDisk(c) PROVE RangeInv'
  <2>1. Name(c) \in Names /\ Range(c) \in Ranges /\ answer[c] \in Packuments
    BY RequestTypes DEF TypeOK
  <2>2. PICK x \in Picked(answer[c], Range(c)) : result' = [result EXCEPT ![c] = x]
    BY <1>7 DEF WriteDisk
  <2>3. x = Failure \/ x.version \in Accepted(Range(c))
    BY <2>1, <2>2, SelectableFits
  <2> QED
    BY <1>7, <2>2, <2>3 DEF WriteDisk, TypeOK, RangeInv
<1>8. ASSUME NEW c \in Calls, AskFails(c) PROVE RangeInv'
  BY <1>8 DEF AskFails, TypeOK, RangeInv
<1>9. ASSUME NEW c \in Calls, Settle(c) PROVE RangeInv'
  <2>1. /\ pc[c] = "settle" /\ ~IsLocal(c) /\ req' = req
        /\ result[c] = Failure \/ result[c].version \in Accepted(Range(c))
    BY <1>9 DEF Settle, LeadInv, Leading, RangeInv
  <2>2. \A d \in Waiters(c) \cup {c} : Range(d) = Range(c) /\ result'[d] = result[c]
                                       /\ pc'[d] \in {"failed", "ensure"}
    BY <1>9 DEF Settle, Waiters, Key
  <2>3. \A d \in Calls : d \notin Waiters(c) \cup {c} =>
           pc'[d] = pc[d] /\ result'[d] = result[d]
    BY <1>9 DEF Settle
  <2>4. ASSUME NEW d \in Calls
        PROVE  /\ pc'[d] \in Resolved /\ ~IsLocal(d) =>
                     result'[d] = Failure \/ result'[d].version \in Accepted(Range(d))
               /\ pc'[d] = "done" => result'[d] # Failure
               /\ pc'[d] \in {"readDisk", "packument", "writeDisk"} => result'[d] = Failure
    <3>1. CASE d \in Waiters(c) \cup {c}
      <4> HIDE DEF Range, IsLocal
      <4> QED
        BY <2>1, <2>2, <3>1
    <3>2. CASE d \notin Waiters(c) \cup {c}
      <4>1. pc'[d] = pc[d] /\ result'[d] = result[d]
        BY <2>3, <3>2
      <4> HIDE DEF Range, IsLocal, Resolved
      <4> QED
        BY <4>1 DEF RangeInv
    <3> QED
      BY <3>1, <3>2
  <2> QED
    BY <2>1, <2>4 DEF RangeInv, Accepted
<1>10. ASSUME NEW c \in Calls, Ensure(c) PROVE RangeInv'
  <2>1. EnsurePc(c) \in {"done", "failed", "fetch", "unpack"}
    BY DEF EnsurePc
  <2> QED
    BY <1>10, <2>1 DEF Ensure, TypeOK, RangeInv, Placed
<1>11. ASSUME NEW c \in Calls, Fetch(c) PROVE RangeInv'
  BY <1>11 DEF Fetch, TypeOK, RangeInv
<1>12. ASSUME NEW c \in Calls, Unpack(c) PROVE RangeInv'
  BY <1>12 DEF Unpack, TypeOK, RangeInv, Placed
<1>13. ASSUME NEW c \in Calls, Ingest(c) PROVE RangeInv'
  BY <1>13 DEF Ingest, TypeOK, RangeInv, Placed
<1>14. ASSUME NEW c \in Calls, IngestDenied(c) PROVE RangeInv'
  BY <1>14 DEF IngestDenied, TypeOK, RangeInv
<1>15. ASSUME NEW c \in Calls, StepFails(c) PROVE RangeInv'
  BY <1>15 DEF StepFails, TypeOK, RangeInv
<1>16. ASSUME NEW n \in Names, NEW v \in Versions, Publish(n, v) PROVE RangeInv'
  BY <1>16 DEF Publish, RangeInv
<1>17. ASSUME NEW p \in Packages, Collected(p) PROVE RangeInv'
  BY <1>17 DEF Collected, RangeInv
<1>18. CASE UNCHANGED vars
  BY <1>18 DEF vars, RangeInv
<1> QED
  BY <1>1, <1>2, <1>3, <1>4, <1>5, <1>6, <1>7, <1>8, <1>9, <1>10, <1>11, <1>12, <1>13,
     <1>14, <1>15, <1>16, <1>17, <1>18 DEF Next, Step

\* The version a request ends with satisfies the range it asked for, also when the promise
\* was another request's, the lock changed meanwhile, or the packument is an old one.
THEOREM VersionsInRange == Spec => []ResultSatisfies
<1>1. Init => RangeInv
  BY DEF Init, RangeInv, Resolved
<1>2. TypeOK /\ Placed /\ LeadInv /\ RangeInv /\ [Next]_vars => RangeInv'
  BY RangeStep
<1>3. RangeInv => ResultSatisfies
  BY DEF RangeInv, Resolved, ResultSatisfies, Accepted
<1> QED
  BY <1>1, <1>2, <1>3, Led, PTL DEF Spec
------------------------------------------------------------------------------
(* Reuse of what is stored *)

\* While nothing fails or leaves the store: a promise that began with a stored package of
\* the lock is resolved to it, and those who share the promise began with the same.
Kept(c) == [version |-> held[c].version, from |-> "lock"]
HeldInv ==
    ~disturbed => \A c \in Calls : held[c].stored =>
        /\ pc[c] \in {"await", "settle", "ensure", "unpack", "done"}
        /\ held[c].version \in Versions /\ <<Name(c), held[c].version>> \in store
        /\ pc[c] # "await" => result[c] = Kept(c)
        /\ pc[c] = "await" => held[inflight[Key(c)]] = held[c]

LEMMA HeldStep ==
    ASSUME TypeOK, LeadInv, HeldInv, [Next]_vars
    PROVE  HeldInv'
<1> USE DEF Modes, World, Caches, Goto, Kept
<1>k. \A c \in Calls : Key(c) \in Keys /\ Name(c) \in Names /\ Range(c) \in Ranges
  BY RequestTypes
<1>r. \A c \in Calls : req'[c] = req[c] => Key(c)' = Key(c) /\ Name(c)' = Name(c)
  BY DEF Key, Name, Range
<1>1. ASSUME NEW c \in Calls, UseWorkspace(c) PROVE HeldInv'
  BY <1>1 DEF UseWorkspace, TypeOK, HeldInv, Key, Name, Range
<1>2. ASSUME NEW c \in Calls, NoSuchMember(c) PROVE HeldInv'
  BY <1>2 DEF NoSuchMember, TypeOK, HeldInv, Key, Name, Range
<1>3. ASSUME NEW c \in Calls, Join(c) PROVE HeldInv'
  <2> DEFINE e == inflight[Key(c)]
  <2>1. /\ e \in Calls /\ pc[c] = "start"
        /\ held' = [held EXCEPT ![c] = held[e]]
        /\ pc' = [pc EXCEPT ![c] = "await"]
        /\ UNCHANGED <<store, disturbed, inflight, result, req>>
    BY <1>3, <1>k DEF Join, Specified, TypeOK
  <2>2. pc[e] \in Leading /\ Key(e) = Key(c) /\ e # c
    BY <2>1, <1>k DEF LeadInv, Leading
  <2>3. Name(e) = Name(c)
    BY <2>2 DEF Key
  <2>4. \A d \in Calls : pc[d] = "await" => inflight[Key(d)] # c
    BY <2>1, <1>k DEF LeadInv, Leading
  <2>5. ASSUME ~disturbed, NEW d \in Calls, held'[d].stored
        PROVE  /\ pc'[d] \in {"await", "settle", "ensure", "unpack", "done"}
               /\ held'[d].version \in Versions /\ <<Name(d), held'[d].version>> \in store
               /\ pc'[d] # "await" =>
                     result[d] = [version |-> held'[d].version, from |-> "lock"]
               /\ pc'[d] = "await" => held'[inflight[Key(d)]] = held'[d]
    <3>1. CASE d = c
      BY <2>1, <2>2, <2>3, <2>5, <3>1 DEF HeldInv, TypeOK
    <3>2. CASE d # c
      BY <2>1, <2>4, <2>5, <3>2 DEF HeldInv, TypeOK
    <3> QED
      BY <3>1, <3>2
  <2> QED
    BY <2>1, <2>5, <1>r DEF HeldInv
<1>4. ASSUME NEW c \in Calls, Lead(c) PROVE HeldInv'
  <2> DEFINE n == Name(c)  r == Range(c)  v == Reusable(n, r)
             s == v # NoVersion /\ lock[<<n, v>>] = "object" /\ <<n, v>> \in store
  <2>1. /\ pc[c] = "start" /\ inflight[Key(c)] = NoCall
        /\ inflight' = [inflight EXCEPT ![Key(c)] = c]
        /\ held' = [held EXCEPT ![c] = [version |-> v, stored |-> s]]
        /\ UNCHANGED <<store, disturbed, req>>
    BY <1>4 DEF Lead, Specified, Vacant
  <2>2. PICK x \in FirstResults(n, r) : result' = [result EXCEPT ![c] = x]
    BY <1>4 DEF Lead
  <2>3. ASSUME s PROVE /\ v \in Versions /\ x = [version |-> v, from |-> "lock"]
                       /\ pc' = [pc EXCEPT ![c] = "settle"]
    <3>1. v \in Versions
      BY <2>3, <1>k, ReusableFits
    <3>2. Decision(n, r) = "reuse"
      BY <2>3 DEF Decision
    <3>3. x = FromLock(n, v)
      BY <2>2, <3>2 DEF FirstResults
    <3>4. x = [version |-> v, from |-> "lock"]
      BY <2>3, <3>1, <3>3, <1>k, FromLockType
    <3>5. pc' = [pc EXCEPT ![c] = "settle"]
      BY <1>4, <3>2 DEF Lead
    <3> QED
      BY <3>1, <3>4, <3>5
  <2>4. \A d \in Calls \ {c} : pc'[d] = pc[d] /\ result'[d] = result[d] /\ held'[d] = held[d]
    BY <1>4, <2>1, <2>2 DEF Lead, TypeOK
  <2>5. /\ held'[c] = [version |-> v, stored |-> s] /\ result'[c] = x
        /\ s => pc'[c] = "settle"
    <3> HIDE DEF v, s
    <3> QED
      BY <2>1, <2>2, <2>3 DEF TypeOK
  <2>8. held'[c].version = v /\ held'[c].stored = s /\ s \in BOOLEAN
    BY <2>5
  <2>6. \A d \in Calls : pc[d] = "await" =>
           inflight'[Key(d)] = inflight[Key(d)] /\ inflight[Key(d)] \in Calls \ {c}
    BY <2>1, <1>k DEF LeadInv, Leading, TypeOK
  <2>7. ASSUME ~disturbed, NEW d \in Calls, held'[d].stored
        PROVE  /\ pc'[d] \in {"await", "settle", "ensure", "unpack", "done"}
               /\ held'[d].version \in Versions /\ <<Name(d), held'[d].version>> \in store
               /\ pc'[d] # "await" =>
                     result'[d] = [version |-> held'[d].version, from |-> "lock"]
               /\ pc'[d] = "await" => held'[inflight'[Key(d)]] = held'[d]
    <3>1. CASE d = c
      <4>1. held'[c].stored
        BY <2>7, <3>1
      <4>2. s
        <5> HIDE DEF s
        <5> QED
          BY <2>8, <4>1
      <4> QED
        BY <2>3, <2>5, <2>8, <3>1, <4>2
    <3>2. CASE d # c
      BY <2>4, <2>6, <2>7, <3>2 DEF HeldInv
    <3> QED
      BY <3>1, <3>2
  <2> QED
    BY <2>1, <2>7, <1>r DEF HeldInv
<1>5. ASSUME NEW c \in Calls, ReadDisk(c) PROVE HeldInv'
  BY <1>5 DEF ReadDisk, TypeOK, HeldInv, Key, Name, Range
<1>6. ASSUME NEW c \in Calls, Answered(c) PROVE HeldInv'
  BY <1>6 DEF Answered, TypeOK, HeldInv, Key, Name, Range
<1>7. ASSUME NEW c \in Calls, WriteDisk(c) PROVE HeldInv'
  BY <1>7 DEF WriteDisk, TypeOK, HeldInv, Key, Name, Range
<1>8. ASSUME NEW c \in Calls, AskFails(c) PROVE HeldInv'
  BY <1>8 DEF AskFails, HeldInv
<1>9. ASSUME NEW c \in Calls, Settle(c) PROVE HeldInv'
  <2>1. /\ pc[c] = "settle" /\ inflight[Key(c)] = c
        /\ inflight' = [inflight EXCEPT ![Key(c)] = NoCall]
        /\ UNCHANGED <<store, disturbed, held, req>>
    BY <1>9 DEF Settle, LeadInv, Leading
  <2>2. \A d \in Waiters(c) \cup {c} :
           result'[d] = result[c] /\ pc'[d] = IF result[c] = Failure THEN "failed" ELSE "ensure"
    BY <1>9 DEF Settle, Waiters
  <2>3. \A d \in Calls : d \notin Waiters(c) \cup {c} =>
           pc'[d] = pc[d] /\ result'[d] = result[d]
    BY <1>9 DEF Settle
  <2>4. ASSUME ~disturbed, NEW d \in Calls, held[d].stored
        PROVE  /\ pc'[d] \in {"await", "settle", "ensure", "unpack", "done"}
               /\ held[d].version \in Versions /\ <<Name(d), held[d].version>> \in store
               /\ pc'[d] # "await" =>
                     result'[d] = [version |-> held[d].version, from |-> "lock"]
               /\ pc'[d] = "await" => held[inflight'[Key(d)]] = held[d]
    <3>1. CASE d \in Waiters(c) \cup {c}
      <4>1. held[d] = held[c]
        <5>1. CASE d = c
          BY <5>1
        <5>2. CASE pc[d] = "await" /\ Key(d) = Key(c)
          <6>1. held[inflight[Key(d)]] = held[d]
            BY <2>4, <5>2 DEF HeldInv
          <6> QED
            BY <2>1, <5>2, <6>1
        <5> QED
          BY <3>1, <5>1, <5>2 DEF Waiters
      <4>2. result[c] = [version |-> held[c].version, from |-> "lock"]
        BY <2>1, <2>4, <4>1 DEF HeldInv
      <4>3. result[c] # Failure
        BY <4>2 DEF Failure
      <4> QED
        BY <2>2, <2>4, <3>1, <4>1, <4>2, <4>3 DEF HeldInv
    <3>2. CASE d \notin Waiters(c) \cup {c}
      <4>1. pc[d] = "await" => inflight'[Key(d)] = inflight[Key(d)]
        BY <2>1, <3>2, <1>k DEF Waiters, TypeOK
      <4> QED
        BY <2>3, <2>4, <3>2, <4>1 DEF HeldInv
    <3> QED
      BY <3>1, <3>2
  <2> QED
    BY <2>1, <2>4, <1>r DEF HeldInv
<1>10. ASSUME NEW c \in Calls, Ensure(c) PROVE HeldInv'
  <2>1. ASSUME ~disturbed, held[c].stored PROVE EnsurePc(c) = "unpack"
    <3>1. pc[c] = "ensure"
      BY <1>10 DEF Ensure
    <3>2. /\ result[c] = [version |-> held[c].version, from |-> "lock"]
          /\ <<Name(c), held[c].version>> \in store
      BY <2>1, <3>1 DEF HeldInv
    <3>3. result[c].from = "lock" /\ Chosen(c) \in store
      BY <3>2 DEF Chosen
    <3> QED
      BY <3>3 DEF EnsurePc
  <2> QED
    BY <1>10, <2>1 DEF Ensure, TypeOK, HeldInv, Key, Name, Range
<1>11. ASSUME NEW c \in Calls, Fetch(c) PROVE HeldInv'
  BY <1>11 DEF Fetch, TypeOK, HeldInv, Key, Name, Range
<1>12. ASSUME NEW c \in Calls, Unpack(c) PROVE HeldInv'
  BY <1>12 DEF Unpack, TypeOK, HeldInv, Key, Name, Range
<1>13. ASSUME NEW c \in Calls, Ingest(c) PROVE HeldInv'
  BY <1>13 DEF Ingest, TypeOK, HeldInv, Key, Name, Range
<1>14. ASSUME NEW c \in Calls, IngestDenied(c) PROVE HeldInv'
  BY <1>14 DEF IngestDenied, TypeOK, HeldInv, Key, Name, Range
<1>15. ASSUME NEW c \in Calls, StepFails(c) PROVE HeldInv'
  BY <1>15 DEF StepFails, HeldInv
<1>16. ASSUME NEW n \in Names, NEW v \in Versions, Publish(n, v) PROVE HeldInv'
  BY <1>16 DEF Publish, HeldInv, Key, Name, Range
<1>17. ASSUME NEW p \in Packages, Collected(p) PROVE HeldInv'
  BY <1>17 DEF Collected, HeldInv
<1>18. CASE UNCHANGED vars
  BY <1>18 DEF vars, HeldInv, Key, Name, Range
<1> QED
  BY <1>1, <1>2, <1>3, <1>4, <1>5, <1>6, <1>7, <1>8, <1>9, <1>10, <1>11, <1>12, <1>13,
     <1>14, <1>15, <1>16, <1>17, <1>18 DEF Next, Step

\* A request whose package is locked and stored when its promise is made is met with that
\* version, in every mode, unless something fails or another process collects an object.
THEOREM StoredIsReused == Spec => []ReusesStored
<1>1. Init => HeldInv
  BY DEF Init, HeldInv
<1>2. TypeOK /\ LeadInv /\ HeldInv /\ [Next]_vars => HeldInv'
  BY HeldStep
<1>3. HeldInv => ReusesStored
  <2> SUFFICES ASSUME HeldInv, ~disturbed, NEW c \in Calls, held[c].stored
               PROVE  /\ pc[c] # "failed"
                      /\ pc[c] = "done" => result[c].version = held[c].version
    BY DEF ReusesStored
  <2>1. /\ pc[c] \in {"await", "settle", "ensure", "unpack", "done"}
        /\ pc[c] # "await" => result[c] = Kept(c)
    BY DEF HeldInv
  <2> QED
    BY <2>1 DEF Kept
<1> QED
  BY <1>1, <1>2, <1>3, Led, PTL DEF Spec

------------------------------------------------------------------------------
(* Failures *)

\* What an online session resolves to can be had: it comes from the registry, or its object
\* is in the store.
Found(c) ==
    result[c].from = "registry" \/ (result[c].from = "lock" /\ Chosen(c) \in store)

Reasoned(c) ==
    \/ Name(c) \notin Members /\ Range(c) = Work
    \/ Selectable(answer[c], Range(c)) = {}
    \/ Chosen(c) \in Denied

ReasonOK(c) ==
    /\ pc[c] # "readDisk"
    /\ pc[c] = "packument" => result[c] = Failure
    /\ pc[c] = "settle" => IF result[c] = Failure THEN Selectable(answer[c], Range(c)) = {}
                           ELSE Found(c)
    /\ pc[c] = "ensure" => Found(c)
    /\ pc[c] = "failed" => Reasoned(c)

ReasonInv == Online /\ ~disturbed => \A c \in Calls : ReasonOK(c)

\* A request whose place, packument and result stay is as well off with a larger store.
LEMMA ReasonKept ==
    ASSUME NEW d \in Calls, ReasonOK(d), req' = req, store \subseteq store', pc'[d] = pc[d],
           result'[d] = result[d], answer'[d] = answer[d]
    PROVE  ReasonOK(d)'
BY DEF ReasonOK, Found, Reasoned, Chosen, Name, Range

\* So is one that goes on to a place of which nothing is said.
LEMMA ReasonMoves ==
    ASSUME NEW c \in Calls, pc'[c] \notin {"readDisk", "packument", "settle", "ensure", "failed"}
    PROVE  ReasonOK(c)'
BY DEF ReasonOK

\* Picking fails only if nothing can be selected.
LEMMA PickedReasoned ==
    ASSUME NEW V \in Packuments, NEW r \in Ranges, NEW x \in Picked(V, r)
    PROVE  IF x = Failure THEN Selectable(V, r) = {} ELSE x.from = "registry"
<1>1. CASE Selectable(V, r) = {}
  BY <1>1 DEF Picked
<1>2. CASE Selectable(V, r) # {}
  <2>1. PICK v \in Selectable(V, r) : x = [version |-> v, from |-> "registry"]
    BY <1>2 DEF Picked
  <2>2. x.from = "registry"
    BY <2>1
  <2> QED BY <2>2, FailureIsResult
<1> QED BY <1>1, <1>2

LEMMA EmptyOffersNothing == ASSUME NEW r \in Ranges PROVE Selectable({}, r) = {}
BY DEF Selectable, Maximal

\* An online request settles at once on a stored package of the lock, or on a packument.
LEMMA LeadReasoned ==
    ASSUME TypeOK, Online, NEW c \in Calls, Lead(c)
    PROVE  ReasonOK(c)'
<1> DEFINE n == Name(c)  r == Range(c)  v == Reusable(n, r)
<1>1. n \in Names /\ r \in Ranges
  BY RequestTypes
<1>2. PICK x \in FirstResults(n, r) : result' = [result EXCEPT ![c] = x]
  BY DEF Lead
<1>3. /\ pc' = [pc EXCEPT ![c] = IF Decision(n, r) = "ask" THEN AskPc(n) ELSE "settle"]
      /\ answer' = [answer EXCEPT ![c] = cache[n]] /\ req' = req /\ store' = store
  BY DEF Lead, Goto, Modes, World
<1>4. /\ result'[c] = x /\ answer'[c] = cache[n] /\ Range(c)' = r /\ Name(c)' = n
      /\ pc'[c] = IF Decision(n, r) = "ask" THEN AskPc(n) ELSE "settle"
  <2> HIDE DEF n, r, v
  <2>1. result'[c] = x /\ answer'[c] = cache[n]
    BY <1>2, <1>3 DEF TypeOK
  <2>2. pc'[c] = IF Decision(n, r) = "ask" THEN AskPc(n) ELSE "settle"
    BY <1>3 DEF TypeOK
  <2>3. Range(c)' = r /\ Name(c)' = n
    BY <1>3 DEF Range, Name, n, r
  <2> QED BY <2>1, <2>2, <2>3
<1>5. Decision(n, r) \in {"reuse", "ask"}
  BY DEF Decision, Online
<1>6. CASE Decision(n, r) = "reuse"
  <2>1. v # NoVersion /\ lock[<<n, v>>] = "object" /\ <<n, v>> \in store
    BY <1>6 DEF Decision, Online
  <2>2. v \in Versions
    BY <1>1, <2>1, ReusableFits
  <2>3. x = [version |-> v, from |-> "lock"] /\ x # Failure
    BY <1>1, <1>2, <1>6, <2>1, <2>2, FromLockType DEF FirstResults
  <2>4. Found(c)'
    BY <1>3, <1>4, <2>1, <2>3 DEF Found, Chosen
  <2> QED BY <1>4, <1>6, <2>3, <2>4 DEF ReasonOK
<1>7. CASE Decision(n, r) = "ask" /\ cache[n] # {}
  <2>1. x \in Picked(cache[n], r)
    BY <1>2, <1>7 DEF FirstResults
  <2>2. IF x = Failure THEN Selectable(cache[n], r) = {} ELSE x.from = "registry"
    BY <1>1, <2>1, PickedReasoned DEF TypeOK
  <2>3. pc'[c] = "settle"
    BY <1>4, <1>7 DEF AskPc
  <2>4. (x # Failure => Found(c)') /\ Selectable(answer'[c], Range(c)') = Selectable(cache[n], r)
    BY <1>4, <2>2 DEF Found
  <2> QED BY <1>4, <2>2, <2>3, <2>4 DEF ReasonOK, Selectable, Maximal
<1>8. CASE Decision(n, r) = "ask" /\ cache[n] = {}
  <2>1. pc'[c] = "packument"
    BY <1>4, <1>8 DEF AskPc, Online
  <2>2. x = Failure
    BY <1>2, <1>8 DEF FirstResults
  <2> QED BY <1>4, <2>1, <2>2 DEF ReasonOK
<1> QED BY <1>5, <1>6, <1>7, <1>8

LEMMA ReasonStep ==
    ASSUME TypeOK, ReasonInv, [Next]_vars
    PROVE  ReasonInv'
<1> SUFFICES ASSUME Online', ~disturbed' PROVE \A d \in Calls : ReasonOK(d)'
  BY DEF ReasonInv
<1> USE DEF Modes, World, Caches, Goto
<1>k. \A c \in Calls : Key(c) \in Keys /\ Name(c) \in Names /\ Range(c) \in Ranges
  BY RequestTypes
<1>0. Online /\ req' = req /\ ~disturbed /\ store \subseteq store' /\ \A c \in Calls : ReasonOK(c)
  <2>1. CASE \E c \in Calls : Step(c)
    <3>1. PICK c \in Calls : Step(c)
      BY <2>1
    <3>2. frozen' = frozen /\ offline' = offline /\ req' = req
      BY <3>1 DEF Step, UseWorkspace, NoSuchMember, Join, Lead, ReadDisk, Answered, WriteDisk,
                  AskFails, Settle, Ensure, Fetch, Unpack, Ingest, IngestDenied, StepFails
    <3>3. (disturbed => disturbed') /\ store \subseteq store'
      BY <3>1 DEF Step, UseWorkspace, NoSuchMember, Join, Lead, ReadDisk, Answered, WriteDisk,
                  AskFails, Settle, Ensure, Fetch, Unpack, Ingest, IngestDenied, StepFails
    <3> QED BY <3>2, <3>3 DEF Online, ReasonInv
  <2>2. CASE \E n \in Names, v \in Versions : Publish(n, v)
    BY <2>2 DEF Publish, Online, ReasonInv
  <2>3. CASE \E p \in Packages : Collected(p)
    BY <2>3 DEF Collected
  <2>4. CASE UNCHANGED vars
    BY <2>4 DEF vars, Online, ReasonInv
  <2> QED BY <2>1, <2>2, <2>3, <2>4 DEF Next
<1>s. ASSUME NEW c \in Calls, ReasonOK(c)',
             \A d \in Calls \ {c} :
                 pc'[d] = pc[d] /\ result'[d] = result[d] /\ answer'[d] = answer[d]
      PROVE  \A d \in Calls : ReasonOK(d)'
  BY <1>0, <1>s, ReasonKept
<1>1. ASSUME NEW c \in Calls, UseWorkspace(c) PROVE \A d \in Calls : ReasonOK(d)'
  <2>1. pc'[c] = "done"
    BY <1>1 DEF UseWorkspace, TypeOK
  <2> QED BY <1>1, <2>1, <1>s, ReasonMoves DEF UseWorkspace, TypeOK
<1>2. ASSUME NEW c \in Calls, NoSuchMember(c) PROVE \A d \in Calls : ReasonOK(d)'
  <2>1. pc'[c] = "failed" /\ Name(c)' \notin Members /\ Range(c)' = Work
    BY <1>0, <1>2 DEF NoSuchMember, TypeOK, Name, Range
  <2>2. ReasonOK(c)'
    BY <2>1 DEF ReasonOK, Reasoned
  <2> QED BY <1>2, <2>2, <1>s DEF NoSuchMember, TypeOK
<1>3. ASSUME NEW c \in Calls, Join(c) PROVE \A d \in Calls : ReasonOK(d)'
  <2>1. pc'[c] = "await"
    BY <1>3 DEF Join, TypeOK
  <2> QED BY <1>3, <2>1, <1>s, ReasonMoves DEF Join, TypeOK
<1>4. ASSUME NEW c \in Calls, Lead(c) PROVE \A d \in Calls : ReasonOK(d)'
  <2>1. ReasonOK(c)'
    BY <1>0, <1>4, LeadReasoned
  <2> QED BY <1>4, <2>1, <1>s DEF Lead, TypeOK
<1>5. ASSUME NEW c \in Calls, ReadDisk(c) PROVE \A d \in Calls : ReasonOK(d)'
  BY <1>0, <1>5 DEF ReadDisk, ReasonOK
<1>6. ASSUME NEW c \in Calls, Answered(c) PROVE \A d \in Calls : ReasonOK(d)'
  <2>1. CASE published[Name(c)] # {}
    <3>1. pc'[c] = "writeDisk"
      BY <1>6, <2>1 DEF Answered, TypeOK
    <3> QED BY <1>6, <3>1, <1>s, ReasonMoves DEF Answered, TypeOK
  <2>2. CASE published[Name(c)] = {}
    <3>1. pc'[c] = "settle" /\ answer'[c] = {} /\ result'[c] = Failure /\ Range(c)' \in Ranges
      BY <1>6, <2>2, <1>0, <1>k DEF Answered, TypeOK, Range, ReasonOK
    <3>2. Selectable(answer'[c], Range(c)') = {}
      BY <3>1, EmptyOffersNothing
    <3>3. ReasonOK(c)'
      BY <3>1, <3>2 DEF ReasonOK
    <3> QED BY <1>6, <3>3, <1>s DEF Answered, TypeOK
  <2> QED BY <2>1, <2>2
<1>7. ASSUME NEW c \in Calls, WriteDisk(c) PROVE \A d \in Calls : ReasonOK(d)'
  <2>1. PICK x \in Picked(answer[c], Range(c)) : result' = [result EXCEPT ![c] = x]
    BY <1>7 DEF WriteDisk
  <2>2. IF x = Failure THEN Selectable(answer[c], Range(c)) = {} ELSE x.from = "registry"
    BY <2>1, <1>k, PickedReasoned DEF TypeOK
  <2>3. /\ pc'[c] = "settle" /\ answer' = answer /\ result'[c] = x
        /\ Range(c)' = Range(c)
    BY <1>7, <2>1, <1>0 DEF WriteDisk, TypeOK, Range
  <2>4. ReasonOK(c)'
    <3>1. CASE x = Failure
      <4>1. Selectable(answer'[c], Range(c)') = {}
        BY <2>2, <2>3, <3>1
      <4> QED BY <2>3, <3>1, <4>1 DEF ReasonOK
    <3>2. CASE x # Failure
      BY <2>2, <2>3, <3>2 DEF ReasonOK, Found
    <3> QED BY <3>1, <3>2
  <2> QED BY <1>7, <2>1, <2>4, <1>s DEF WriteDisk, TypeOK
<1>8. ASSUME NEW c \in Calls, AskFails(c) PROVE \A d \in Calls : ReasonOK(d)'
  BY <1>8 DEF AskFails
<1>9. ASSUME NEW c \in Calls, Settle(c) PROVE \A d \in Calls : ReasonOK(d)'
  <2>1. ReasonOK(c) /\ pc[c] = "settle" /\ store' = store
    BY <1>0, <1>9 DEF Settle
  <2>2. ASSUME NEW d \in Calls PROVE ReasonOK(d)'
    <3>1. CASE d \in Waiters(c) \cup {c}
      <4>1. /\ result'[d] = result[c] /\ answer'[d] = answer[c]
            /\ pc'[d] = IF result[c] = Failure THEN "failed" ELSE "ensure"
        BY <1>9, <3>1 DEF Settle, Waiters
      <4>2. Name(d)' = Name(c) /\ Range(d)' = Range(c)
        BY <1>0, <3>1 DEF Waiters, Key, Name, Range
      <4>3. CASE result[c] = Failure
        <5>1. Selectable(answer'[d], Range(d)') = {}
          BY <2>1, <4>1, <4>2, <4>3 DEF ReasonOK
        <5> QED BY <4>1, <4>3, <5>1 DEF ReasonOK, Reasoned
      <4>4. CASE result[c] # Failure
        <5>1. Found(c)
          BY <2>1, <4>4 DEF ReasonOK
        <5>2. Found(d)'
          BY <2>1, <4>1, <4>2, <5>1 DEF Found, Chosen
        <5> QED BY <4>1, <4>4, <5>2 DEF ReasonOK
      <4> QED BY <4>3, <4>4
    <3>2. CASE d \notin Waiters(c) \cup {c}
      BY <1>0, <1>9, <3>2, ReasonKept DEF Settle
    <3> QED BY <3>1, <3>2
  <2> QED BY <2>2
<1>10. ASSUME NEW c \in Calls, Ensure(c) PROVE \A d \in Calls : ReasonOK(d)'
  <2>1. Found(c)
    BY <1>0, <1>10 DEF Ensure, ReasonOK
  <2>2. EnsurePc(c) \in {"fetch", "unpack"}
    BY <1>0, <2>1 DEF Found, EnsurePc, Online
  <2>3. pc'[c] \in {"fetch", "unpack"}
    BY <1>10, <2>2 DEF Ensure, TypeOK
  <2> QED BY <1>10, <2>3, <1>s, ReasonMoves DEF Ensure, TypeOK
<1>11. ASSUME NEW c \in Calls, Fetch(c) PROVE \A d \in Calls : ReasonOK(d)'
  <2>1. pc'[c] = "unpack"
    BY <1>11 DEF Fetch, TypeOK
  <2> QED BY <1>11, <2>1, <1>s, ReasonMoves DEF Fetch, TypeOK
<1>12. ASSUME NEW c \in Calls, Unpack(c) PROVE \A d \in Calls : ReasonOK(d)'
  <2>1. pc'[c] \in {"ingest", "done"}
    BY <1>12 DEF Unpack, TypeOK
  <2> QED BY <1>12, <2>1, <1>s, ReasonMoves DEF Unpack, TypeOK
<1>13. ASSUME NEW c \in Calls, Ingest(c) PROVE \A d \in Calls : ReasonOK(d)'
  <2>1. pc'[c] = "done"
    BY <1>13 DEF Ingest, TypeOK
  <2> QED BY <1>13, <2>1, <1>s, ReasonMoves DEF Ingest, TypeOK
<1>14. ASSUME NEW c \in Calls, IngestDenied(c) PROVE \A d \in Calls : ReasonOK(d)'
  <2>1. pc'[c] = "failed" /\ Chosen(c)' = Chosen(c) /\ Chosen(c) \in Denied
    BY <1>0, <1>14 DEF IngestDenied, TypeOK, Chosen, Name
  <2>2. ReasonOK(c)'
    BY <2>1 DEF ReasonOK, Reasoned
  <2> QED BY <1>14, <2>2, <1>s DEF IngestDenied, TypeOK
<1>15. ASSUME NEW c \in Calls, StepFails(c) PROVE \A d \in Calls : ReasonOK(d)'
  BY <1>15 DEF StepFails
<1>16. ASSUME NEW n \in Names, NEW v \in Versions, Publish(n, v)
       PROVE  \A d \in Calls : ReasonOK(d)'
  BY <1>0, <1>16, ReasonKept DEF Publish
<1>17. ASSUME NEW p \in Packages, Collected(p) PROVE \A d \in Calls : ReasonOK(d)'
  BY <1>17 DEF Collected
<1>18. CASE UNCHANGED vars
  BY <1>0, <1>18, ReasonKept DEF vars
<1> QED
  BY <1>1, <1>2, <1>3, <1>4, <1>5, <1>6, <1>7, <1>8, <1>9, <1>10, <1>11, <1>12, <1>13,
     <1>14, <1>15, <1>16, <1>17, <1>18 DEF Next, Step

\* An online request fails, while network, disk and store are intact, only for a reason of
\* its own, whatever its rivals and the state of the lock.
THEOREM FailuresHaveReasons == Spec => []FailuresAreExplained
<1>1. Init => ReasonInv
  BY DEF Init, ReasonInv, ReasonOK
<1>2. TypeOK /\ ReasonInv /\ [Next]_vars => ReasonInv'
  BY ReasonStep
<1>3. ReasonInv => FailuresAreExplained
  BY DEF ReasonInv, ReasonOK, Reasoned, FailuresAreExplained
<1> QED
  BY <1>1, <1>2, <1>3, Typed, PTL DEF Spec
==============================================================================
