----------------------------- MODULE Attestations -----------------------------
(***************************************************************************)
(* packages/core/src/security/attestations.ts: what npm's attestations of  *)
(* a package version say about its publisher.  A response is a sequence of *)
(* entries; a bundle is its DSSE envelope, the keys that signed it, the    *)
(* digests its statement is about and the certificate it carries.          *)
(***************************************************************************)
EXTENDS Naturals, Sequences

CONSTANTS Signers,  \* keys of certificates
          Digests   \* digests of archives

NoBundle == [envelope |-> "absent"]
NoCertificate == [key |-> "none"]
NoDigest == "none"
Nobody == "nobody"

\* A certificate binds a key to an identity, by the word of the key that issued it.
Certificates ==
    [key : Signers, issuer : Signers, current : BOOLEAN, identity : Signers \cup {Nobody}]

\* "empty" has no payload or no signature; the payload of "garbled" is no statement.
Bundles == [envelope : {"empty", "garbled", "sealed"}, signers : SUBSET Signers,
            subjects : SUBSET Digests, certificate : Certificates \cup {NoCertificate}]

VerifyDsseEnvelope(bundle, key) == key \in bundle.signers

SubjectMatchesArtifact(bundle, digest) == digest # NoDigest /\ digest \in bundle.subjects

\* Roots are tried in turn until one decides; a leaf that is itself a root must have signed
\* itself.
Decides(leaf, root) == root.current /\ (leaf = root \/ leaf.issuer = root.key)

VerifyCertificateChain(leaf, roots) ==
    /\ leaf.current
    /\ \E i \in DOMAIN roots : /\ Decides(leaf, roots[i])
                               /\ \A j \in 1 .. i - 1 : ~Decides(leaf, roots[j])
                               /\ leaf = roots[i] => leaf.issuer = leaf.key

\* What one bundle establishes.
VerifyAttestationBundle(bundle, digest, roots) ==
    LET cert == bundle.certificate
        certified == bundle.envelope = "sealed" /\ cert # NoCertificate
        signed == certified /\ VerifyDsseEnvelope(bundle, cert.key)
        subject == bundle.envelope = "sealed" /\ SubjectMatchesArtifact(bundle, digest)
        chained == certified /\ VerifyCertificateChain(cert, roots)
    IN  [signatureValid |-> signed, subjectMatches |-> subject, certificateChainValid |-> chained,
         publisherVerified |-> signed /\ subject /\ chained,
         signerIdentity |-> IF certified THEN cert.identity ELSE Nobody]

\* A payload that is no statement is an error for the whole response.
Throws(response) == \E i \in DOMAIN response : response[i].envelope = "garbled"

Answers(response) == {i \in DOMAIN response : response[i] # NoBundle}

\* Fault: the publisher is verified if each check succeeded for some bundle.
VerifyNpmAttestations_Merged(response, digest, roots) ==
    LET results == {VerifyAttestationBundle(response[i], digest, roots) : i \in Answers(response)}
        signed == \E r \in results : r.signatureValid
        subject == \E r \in results : r.subjectMatches
        chained == \E r \in results : r.certificateChainValid
    IN  [signatureValid |-> signed, subjectMatches |-> subject, certificateChainValid |-> chained,
         publisherVerified |-> signed /\ subject /\ chained, signerIdentity |-> Nobody]

\* The results of the bundles are merged, each check for itself; the first identity counts.
VerifyNpmAttestations(response, digest, roots) ==
    LET result == [i \in Answers(response) |-> VerifyAttestationBundle(response[i], digest, roots)]
        named == {i \in Answers(response) : result[i].signerIdentity # Nobody}
    IN  [signatureValid |-> \E i \in Answers(response) : result[i].signatureValid,
         subjectMatches |-> \E i \in Answers(response) : result[i].subjectMatches,
         certificateChainValid |-> \E i \in Answers(response) : result[i].certificateChainValid,
         publisherVerified |-> \E i \in Answers(response) : result[i].publisherVerified,
         signerIdentity |-> IF named = {} THEN Nobody
                            ELSE result[CHOOSE i \in named : \A j \in named : i <= j].signerIdentity]

\* The record also counts content as verified whose integrity the lock has.
ProvenanceFromAttestation(result, digest) ==
    [publisherVerified |-> result.publisherVerified,
     attestationSignatureValid |-> result.signatureValid,
     attestationSubjectMatches |-> result.subjectMatches,
     certificateChainValid |-> result.certificateChainValid,
     signerIdentity |-> result.signerIdentity,
     contentVerified |-> digest # NoDigest \/ result.subjectMatches]
==============================================================================
