------------------------------ MODULE LockTrust ------------------------------
(***************************************************************************)
(* lockfile/digest.ts, lockfile/sign.ts, security/verify.ts and the        *)
(* commands that write knot.lock or judge it: who signed which list of     *)
(* packages, with which key, and what that is worth to a frozen run.       *)
(* Checkouts of projects share the private key of their machine; one       *)
(* checkout may be a clone of another.  Digests are the lists they are     *)
(* computed from, signatures the key and the digest.                       *)
(***************************************************************************)
EXTENDS Naturals, Attestations

CONSTANTS Checkouts,  \* working copies of projects
          Machine,    \* the machine of each
          Clones,     \* pairs: a checkout, and another of the same project
          Members,    \* the checkouts whose program imports a member of their workspace
          Packages,   \* packages from the registry
          Processes,  \* processes, each running one command after the other
          MaxKeys,    \* bound on the key pairs generated
          Responses,  \* what the registry may have as attestations of a version
          RootLists,  \* trusted roots, as a caller may pass them
          Worlds      \* what the checkouts start with, and which commands are given

Machines == {Machine[c] : c \in Checkouts}
NoKey == 0
Keys == 1 .. MaxKeys
AnyKey == Keys \cup {NoKey}

\* A member's entry has the absolute path of its directory and what its manifest said; the
\* manifest is edited at most once.
NoMember == <<"nowhere", 0>>
Entries == (Checkouts \X {0, 1}) \cup {NoMember}
Lists == [npm : SUBSET Packages, member : Entries]
NoList == [npm |-> {}, member |-> NoMember]
Unknown == [npm |-> {}, member |-> <<"unknown", 0>>]
Unsigned == [key |-> NoKey, list |-> Unknown]
Signatures == [key : Keys, list : Lists] \cup {Unsigned}
Locks == [list : Lists, digest : Lists \cup {Unknown}, signature : Signatures]
NoLock == [list |-> NoList, digest |-> Unknown, signature |-> Unsigned]

\* A command may find a private key in its environment.
Ops == {"run", "ci", "snapshot", "add", "remove", "sign", "keygen", "inspect"}
Commands == [op : Ops, at : Checkouts, frozen : BOOLEAN, prefetch : BOOLEAN, env : AnyKey,
             out : {"home", "project"}]

ASSUME KeysAssumption == MaxKeys \in Nat
ASSUME WorldsAssumption ==
    Worlds \subseteq [commands : SUBSET Commands, budget : Nat, edits : Nat,
                      lock : [Checkouts -> Locks], inline : [Checkouts -> AnyKey],
                      pub : [Checkouts -> AnyKey], home : [Machines -> AnyKey], made : AnyKey]
\* Knot writes no signature without a digest.
ASSUME SignaturesAssumption ==
    \A w \in Worlds : \A c \in Checkouts :
        w.lock[c].signature # Unsigned =>
            /\ w.lock[c].digest # Unknown
            /\ w.lock[c].signature.list = w.lock[c].digest
\* The names that stand for no checkout are the name of none.
ASSUME CheckoutsAssumption ==
    /\ Clones \subseteq Checkouts \X Checkouts
    /\ "nowhere" \notin Checkouts /\ "unknown" \notin Checkouts

VARIABLES
  commands, budget,  \* the commands that are given, and how many more of them
  edits,             \* bound: how many more files are edited or pulled
  lock,              \* knot.lock
  inline, listed,    \* of knot.toml: the public key in it; does it name .knot/lock.pub?
  pub, own,          \* .knot/lock.pub and .knot/lock.ed25519
  home,              \* the private key in the store directory of a machine
  rev,               \* what the manifest of a checkout's member says
  made,              \* the last key pair generated; a private key goes by its pair
  proc,              \* processes
  disturbed,         \* history: the processes beside which something else was written
  signed,            \* history: the signatures ever made
  asked, report      \* the last attestations asked for, and the answer

config == <<inline, listed, pub>>
keys == <<own, home, made>>
source == <<commands, budget, edits>>
provenance == <<asked, report>>
vars == <<source, lock, config, keys, rev, proc, disturbed, signed, provenance>>

Idle == [pc |-> "idle", cmd |-> [op |-> "none"], key |-> NoKey, filed |-> FALSE,
         lock |-> NoLock, checked |-> NoList, ran |-> NoList, fresh |-> NoKey]
NotAsked == [response |-> << >>, digest |-> NoDigest, roots |-> << >>]
NoReport == ProvenanceFromAttestation(VerifyNpmAttestations(<< >>, NoDigest, << >>), NoDigest)

Init ==
    /\ \E w \in Worlds : /\ commands = w.commands /\ budget = w.budget /\ edits = w.edits
                         /\ lock = w.lock /\ inline = w.inline /\ pub = w.pub
                         /\ home = w.home /\ made = w.made
    /\ listed = [c \in Checkouts |-> FALSE]
    /\ own = [c \in Checkouts |-> NoKey]
    /\ rev = [c \in Checkouts |-> 0]
    /\ proc = [p \in Processes |-> Idle]
    /\ disturbed = {}
    /\ signed = {lock[c].signature : c \in Checkouts}
    /\ asked = NotAsked /\ report = NoReport

------------------------------------------------------------------------------
(* Keys, digests and signatures *)

\* The key in knot.toml comes before the one in .knot/lock.pub.
PublicKey(c) == IF inline[c] # NoKey THEN inline[c] ELSE pub[c]
Filed(c) == listed[c] \/ pub[c] # NoKey

\* loadLockPrivateKey: the environment, the project, the home directory.
LoadLockPrivateKey(c, env) ==
    CASE env # NoKey -> env
      [] env = NoKey /\ own[c] # NoKey -> own[c]
      [] OTHER -> home[Machine[c]]

SignLockDigest(list, k) == [key |-> k, list |-> list]

DigestOk(l) == l.digest = l.list

\* lockSignatureStatus, without a digest too.
SignatureOk(l, k) ==
    k = NoKey \/ (l.digest \in {l.list, Unknown} /\ l.signature = SignLockDigest(l.list, k))

\* assertLockDigest and assertLockSignature of a frozen run, which an empty lock is spared.
FrozenAccepts(l, k) == l.list = NoList \/ (DigestOk(l) /\ SignatureOk(l, k))

\* verifyLock, the objects aside: an empty lock without a digest passes.
VerifyLock(l, k) == (l.list = NoList /\ l.digest = Unknown) \/ (DigestOk(l) /\ SignatureOk(l, k))

\* Fault: the signature stays when the list changes.
WriteLockfile_Keep(l, list, k) ==
    [list |-> list, digest |-> list,
     signature |-> IF k # NoKey THEN SignLockDigest(list, k) ELSE l.signature]

\* writeLockfile: what a session that read l writes.
WriteLockfile(l, list, k) ==
    [list |-> list, digest |-> list,
     signature |-> CASE k # NoKey -> SignLockDigest(list, k)
                     [] k = NoKey /\ l.digest \notin {list, Unknown} -> Unsigned
                     [] OTHER -> l.signature]

------------------------------------------------------------------------------
(* Sessions *)

At(p) == proc[p].cmd.at
Op(p) == proc[p].cmd.op
Active == {p \in Processes : proc[p].pc # "idle"}
Sealed(p) == Op(p) = "ci" \/ proc[p].cmd.frozen
Prefetches(p) == Op(p) = "ci" \/ proc[p].cmd.prefetch

\* Everyone else who works is disturbed.
Disturbs(p) == disturbed' = disturbed \cup (Active \ {p})

\* The command replaces knot.lock.
Writes(p, l) ==
    /\ lock' = [lock EXCEPT ![At(p)] = l]
    /\ signed' = signed \cup {l.signature}
    /\ Disturbs(p)

Ends(p) == proc' = [proc EXCEPT ![p] = Idle]

First(op) == CASE op \in {"run", "ci"} -> "check" [] op = "keygen" -> "private" [] OTHER -> "work"

\* RuntimeSession.open.
Open(p, cmd) ==
    /\ proc[p].pc = "idle" /\ budget > 0
    /\ cmd.env <= made
    /\ budget' = budget - 1
    /\ proc' = [proc EXCEPT ![p] = [Idle EXCEPT !.pc = First(cmd.op), !.cmd = cmd,
                  !.key = PublicKey(cmd.at), !.filed = Filed(cmd.at), !.lock = lock[cmd.at]]]
    /\ disturbed' = disturbed \ {p}
    /\ UNCHANGED <<commands, edits, lock, config, keys, rev, signed, provenance>>

\* knot ci verifies first.
Accepted(p) ==
    /\ Op(p) = "ci" => VerifyLock(proc[p].lock, proc[p].key)
    /\ Sealed(p) => FrozenAccepts(proc[p].lock, proc[p].key)

Check(p) ==
    /\ proc[p].pc = "check"
    /\ IF Accepted(p)
       THEN proc' = [proc EXCEPT ![p].pc = IF Prefetches(p) THEN "prefetch" ELSE "spawn",
                                 ![p].checked = proc[p].lock.list]
       ELSE Ends(p)
    /\ UNCHANGED <<source, lock, config, keys, rev, disturbed, signed, provenance>>

\* Fault: the member is noted without what its manifest says.
Remembered_Place(p) == IF At(p) \in Members THEN <<At(p)>> ELSE proc[p].lock.list.member

\* rememberWorkspace replaces the member's entry.
Remembered(p) == IF At(p) \in Members THEN <<At(p), rev[At(p)]>> ELSE proc[p].lock.list.member

\* persistSession: only a project with a public key is signed, with any private key found.
SessionKey(p) == IF proc[p].key = NoKey THEN NoKey
                 ELSE LoadLockPrivateKey(At(p), proc[p].cmd.env)

Written(p, list) == WriteLockfile(proc[p].lock, list, SessionKey(p))

\* Fault: a frozen session takes what its program asks for.
Taken_Any(p) == SUBSET Packages

Taken(p) == IF Sealed(p) THEN {{}} ELSE SUBSET Packages

\* The packages and the member that the program imports, then persistSession.
Prefetch(p) ==
    /\ proc[p].pc = "prefetch"
    /\ \E S \in Taken(p) :
         LET w == Written(p, [npm |-> proc[p].lock.list.npm \cup S, member |-> Remembered(p)])
         IN  /\ Writes(p, w)
             /\ proc' = [proc EXCEPT ![p].lock = w, ![p].pc = "spawn"]
    /\ UNCHANGED <<source, config, keys, rev, provenance>>

\* The loader in the child opens a session of its own.
Spawn(p) ==
    /\ proc[p].pc = "spawn"
    /\ proc' = [proc EXCEPT ![p].pc = "wait", ![p].ran = lock[At(p)].list]
    /\ UNCHANGED <<source, lock, config, keys, rev, disturbed, signed, provenance>>

RunEnds(p) ==
    /\ proc[p].pc = "wait"
    /\ Writes(p, Written(p, proc[p].lock.list))
    /\ Ends(p)
    /\ UNCHANGED <<source, config, keys, rev, provenance>>

\* knot snapshot.
Snapshot(p) ==
    /\ proc[p].pc = "work" /\ Op(p) = "snapshot"
    /\ \E S \in SUBSET Packages :
         Writes(p, Written(p, [npm |-> proc[p].lock.list.npm \cup S, member |-> Remembered(p)]))
    /\ Ends(p)
    /\ UNCHANGED <<source, config, keys, rev, provenance>>

\* Fault: the public key of the session is not written back.
Toml_NoKey(p) == [inline |-> NoKey, listed |-> listed[At(p)]]

\* writeKnotToml: the name of the key's file comes in place of the key.
Toml(p) == [inline |-> IF proc[p].filed THEN NoKey ELSE proc[p].key, listed |-> proc[p].filed]

\* knot add and knot remove: the manifests, then persistSession.
AddOrRemove(p) ==
    /\ proc[p].pc = "work" /\ Op(p) \in {"add", "remove"}
    /\ inline' = [inline EXCEPT ![At(p)] = Toml(p).inline]
    /\ listed' = [listed EXCEPT ![At(p)] = Toml(p).listed]
    /\ \E n \in Packages :
         LET npm == proc[p].lock.list.npm
             list == [proc[p].lock.list EXCEPT !.npm = IF Op(p) = "add" THEN npm \cup {n}
                                                       ELSE npm \ {n}]
         IN  Writes(p, Written(p, list))
    /\ Ends(p)
    /\ UNCHANGED <<source, pub, keys, rev, provenance>>

\* knot lock sign: what the session read is signed, whatever the public key.
Sign(p) ==
    LET k == LoadLockPrivateKey(At(p), proc[p].cmd.env) IN
    /\ proc[p].pc = "work" /\ Op(p) = "sign"
    /\ IF k = NoKey THEN UNCHANGED <<lock, signed, disturbed>>
       ELSE Writes(p, WriteLockfile(proc[p].lock, proc[p].lock.list, k))
    /\ Ends(p)
    /\ UNCHANGED <<source, config, keys, rev, provenance>>

\* knot keygen: the private key takes the place of the one before it; outside of a project
\* nothing else is written.
WritePrivate(p) ==
    /\ proc[p].pc = "private" /\ made < MaxKeys
    /\ made' = made + 1
    /\ IF proc[p].cmd.out = "home"
       THEN home' = [home EXCEPT ![Machine[At(p)]] = made'] /\ UNCHANGED own
       ELSE own' = [own EXCEPT ![At(p)] = made'] /\ UNCHANGED home
    /\ proc' = [proc EXCEPT ![p].pc = "public", ![p].fresh = made']
    /\ Disturbs(p)
    /\ UNCHANGED <<source, lock, config, rev, signed, provenance>>

\* Then .knot/lock.pub and knot.toml.  knot.lock stays as it is.
WritePublic(p) ==
    /\ proc[p].pc = "public"
    /\ pub' = [pub EXCEPT ![At(p)] = proc[p].fresh]
    /\ inline' = [inline EXCEPT ![At(p)] = NoKey]
    /\ listed' = [listed EXCEPT ![At(p)] = TRUE]
    /\ Ends(p)
    /\ Disturbs(p)
    /\ UNCHANGED <<source, lock, keys, rev, signed, provenance>>

\* Interrupted, or ended early: a private key without its public key.
Dies(p) ==
    /\ proc[p].pc \notin {"idle", "check", "work"}
    /\ Ends(p)
    /\ UNCHANGED <<source, lock, config, keys, rev, disturbed, signed, provenance>>

------------------------------------------------------------------------------
(* Editors, git and the registry *)

\* A merge or an editor changes the list and nothing else.
Edit(c) ==
    /\ edits > 0 /\ edits' = edits - 1
    /\ \E n \in Packages : lock' = [lock EXCEPT ![c].list.npm = IF n \in @ THEN @ \ {n} ELSE @ \cup {n}]
    /\ disturbed' = disturbed \cup Active
    /\ UNCHANGED <<commands, budget, config, keys, rev, proc, signed, provenance>>

EditMember(c) ==
    /\ edits > 0 /\ edits' = edits - 1
    /\ c \in Members /\ rev[c] = 0
    /\ rev' = [rev EXCEPT ![c] = 1]
    /\ disturbed' = disturbed \cup Active
    /\ UNCHANGED <<commands, budget, lock, config, keys, proc, signed, provenance>>

\* .knot is in the repository or it is not.
Pull(from, to) ==
    /\ edits > 0 /\ edits' = edits - 1
    /\ lock' = [lock EXCEPT ![to] = lock[from]]
    /\ inline' = [inline EXCEPT ![to] = inline[from]]
    /\ listed' = [listed EXCEPT ![to] = listed[from]]
    /\ \E k \in {pub[from], pub[to]} : pub' = [pub EXCEPT ![to] = k]
    /\ rev' = [rev EXCEPT ![to] = rev[from]]
    /\ disturbed' = disturbed \cup Active
    /\ UNCHANGED <<commands, budget, keys, proc, signed, provenance>>

\* knot inspect, or verifyAttestations of a caller with roots of its own: what the registry
\* says of a locked package, whose entry may have an integrity.
VerifyAttestations(p) ==
    /\ proc[p].pc = "work" /\ Op(p) = "inspect"
    /\ proc[p].lock.list.npm # {}
    /\ \E response \in Responses, roots \in RootLists, digest \in Digests \cup {NoDigest} :
         /\ asked' = [response |-> response, digest |-> digest, roots |-> roots]
         /\ report' = IF Throws(response) THEN NoReport
                      ELSE ProvenanceFromAttestation(
                             VerifyNpmAttestations(response, digest, roots), digest)
    /\ Ends(p)
    /\ UNCHANGED <<source, lock, config, keys, rev, disturbed, signed>>

Step(p) == \/ Check(p) \/ Prefetch(p) \/ Spawn(p) \/ RunEnds(p) \/ Snapshot(p) \/ AddOrRemove(p)
           \/ Sign(p) \/ WritePrivate(p) \/ WritePublic(p) \/ Dies(p) \/ VerifyAttestations(p)

Over == Active = {} /\ budget = 0 /\ UNCHANGED vars

Next == \/ \E p \in Processes : Step(p) \/ \E cmd \in commands : Open(p, cmd)
        \/ \E c \in Checkouts : Edit(c) \/ EditMember(c)
        \/ \E pair \in Clones : Pull(pair[1], pair[2])
        \/ Over

Spec == Init /\ [][Next]_vars

------------------------------------------------------------------------------
(* Properties *)

PCs == {"idle", "check", "prefetch", "spawn", "wait", "work", "private", "public"}
ProcessTypes == [pc : PCs, cmd : Commands \cup {Idle.cmd}, key : AnyKey, filed : BOOLEAN,
                 lock : Locks, checked : Lists, ran : Lists, fresh : AnyKey]

TypeOK ==
    /\ commands \subseteq Commands /\ budget \in Nat /\ edits \in Nat
    /\ lock \in [Checkouts -> Locks]
    /\ inline \in [Checkouts -> AnyKey] /\ listed \in [Checkouts -> BOOLEAN]
    /\ pub \in [Checkouts -> AnyKey] /\ own \in [Checkouts -> AnyKey]
    /\ home \in [Machines -> AnyKey] /\ rev \in [Checkouts -> {0, 1}] /\ made \in AnyKey
    /\ proc \in [Processes -> ProcessTypes]
    /\ disturbed \subseteq Processes /\ signed \subseteq Signatures

\* What is trusted has been signed.  A signature in a knot.lock whose digest is right covers
\* that list and no earlier one.  A sealed run that passes its check has a list that a holder
\* of the project's key signed, if the project has a key and the list has entries, and its
\* child finds the same packages unless somebody else wrote meanwhile.  knot verify and a
\* frozen run agree about every lock with entries; an empty one they may disagree about only
\* in that the run is more lenient.
TrustMeansSigned ==
    /\ \A c \in Checkouts :
          LET l == lock[c]  k == PublicKey(c) IN
          /\ DigestOk(l) /\ l.signature # Unsigned => l.signature.list = l.list
          /\ VerifyLock(l, k) => FrozenAccepts(l, k)
          /\ l.list # NoList /\ FrozenAccepts(l, k) => VerifyLock(l, k)
    /\ \A p \in Active :
          Sealed(p) /\ proc[p].pc \in {"prefetch", "spawn", "wait"} =>
              /\ proc[p].checked = NoList \/ proc[p].key = NoKey
                    \/ SignLockDigest(proc[p].checked, proc[p].key) \in signed
              /\ proc[p].pc = "wait" /\ p \notin disturbed
                    => proc[p].ran.npm = proc[p].checked.npm

Signed(c) ==
    /\ PublicKey(c) # NoKey /\ DigestOk(lock[c])
    /\ lock[c].signature = SignLockDigest(lock[c].list, PublicKey(c))

\* What a command other than keygen may do to a project's trust, if nobody writes beside it:
\* with the private key that fits, it leaves no lock unsigned that it writes; with none, it
\* takes a signature only from a list that it changes; and it leaves the public key alone,
\* unless knot.toml has a key that hides the one in .knot/lock.pub.
TrustIsKept ==
    [][\A p \in Active \ disturbed : \A c \in {At(p)} :
         LET k == LoadLockPrivateKey(c, proc[p].cmd.env)
         IN  proc'[p] # proc[p] /\ Op(p) # "keygen" =>
               /\ lock' # lock /\ k # NoKey /\ k = PublicKey(c)' => Signed(c)'
               /\ k = NoKey /\ Signed(c) => Signed(c)' \/ lock'[c].list # lock[c].list
                                          \/ PublicKey(c)' # PublicKey(c)
               /\ PublicKey(c)' = PublicKey(c) \/ (Filed(c) /\ inline[c] # NoKey)]_vars

\* A publisher is verified only if one and the same attestation was signed with the key of
\* its certificate, is about the archive, and has a current certificate that a current root
\* of the caller vouches for; content is verified if the lock or an attestation names it.
PublisherIsVouched ==
    /\ report.publisherVerified =>
             \E i \in DOMAIN asked.response :
                LET b == asked.response[i] IN
                /\ b.envelope = "sealed" /\ b.certificate # NoCertificate
                /\ b.certificate.key \in b.signers /\ asked.digest \in b.subjects
                /\ b.certificate.current
                /\ \E j \in DOMAIN asked.roots : /\ asked.roots[j].current
                                                 /\ b.certificate.issuer = asked.roots[j].key
    /\ asked.digest = NoDigest => ~report.publisherVerified /\ ~report.contentVerified
==============================================================================
