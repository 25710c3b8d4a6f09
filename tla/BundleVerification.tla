-------------------------- MODULE BundleVerification --------------------------
(***************************************************************************)
(* verify_artifact and verify_bundles (verification.py): one sidecar of     *)
(* Sigstore bundles is checked against one package archive, a bundle per    *)
(* step, while the archive may be rewritten and while trust material may    *)
(* still be missing for the first bundles that need it.                     *)
(*                                                                         *)
(* A bundle is a record: whether it parses, whether its signature verifies, *)
(* the signer its certificate names, and the payload, which is a statement  *)
(* (module Statements), Malformed, or NotInToto.                            *)
(***************************************************************************)
EXTENDS Statements, FiniteSets

CONSTANTS
    Bundle,             \* the bundles a sidecar may contain
    MaxBundles,         \* the most bundles in a sidecar
    Signer,             \* certificate identities with their issuers
    Sha256,             \* archive contents, each by its digest
    Name,               \* archive filenames
    SuppliedChannel,    \* channels a caller may supply, valid or not, or None
    NotInToto,          \* a payload of some other DSSE payload type
    MaxRewrites         \* how often the archive is rewritten during a call

ASSUME BundleAssumption ==
    /\ MaxBundles \in Nat \ {0} /\ MaxRewrites \in Nat
    /\ None \notin Signer \cup Sha256 \cup {Publish} \cup Nat
    /\ Uncomparable \notin Sha256
    /\ \A b \in Bundle : b.signer \in Signer

Sidecars == UNION {[1..n -> Bundle] : n \in 1..MaxBundles}

VARIABLES
    pc,
    args,           \* what the caller passed
    archive,        \* the digest of what the archive file holds now
    hashed,         \* artifact_sha256
    rehashed,       \* history: what the archive held when hashed again
    index,          \* the bundle verify_bundles has come to
    trustReady,     \* the SigstoreVerifier has built its verifier
    undecided,      \* history: the bundles trust material was missing for
    evidence, failures,
    packageVerified, sawUnavailable, sawUntrustedPublish,
    status,
    rewrites

flags == <<packageVerified, sawUnavailable, sawUntrustedPublish>>
found == <<evidence, failures>>
vars  == <<pc, args, archive, hashed, rehashed, index, trustReady, undecided,
           found, flags, status, rewrites>>

\* verify_bundles is also called on its own, with a digest that conda or the
\* auditor has computed: then the archive is not read at all.
Arguments ==
    [sidecar : Sidecars, name : Name, channel : SuppliedChannel,
     expected : Signer \cup {None}, rehash : BOOLEAN]

NoResult ==
    /\ index = 1 /\ undecided = {} /\ evidence = {} /\ failures = {}
    /\ packageVerified = FALSE /\ sawUnavailable = FALSE
    /\ sawUntrustedPublish = FALSE /\ status = "none"

Init ==
    /\ pc = "hash"
    /\ args \in Arguments
    /\ archive \in Sha256
    /\ hashed = None /\ rehashed = None
    /\ trustReady \in BOOLEAN
    /\ rewrites = 0
    /\ NoResult

HashArchive ==
    /\ pc = "hash"
    /\ hashed' = archive
    /\ pc' = "bundles"
    /\ UNCHANGED <<args, archive, rehashed, index, trustReady, undecided, found,
                   flags, status, rewrites>>

\* The archive is missing or unreadable, either time: the OSError of compute_sum
\* leaves verify_artifact, and there is no result.
HashFails ==
    /\ pc \in {"hash", "rehash"}
    /\ pc' = "failed" /\ status' = "none"
    /\ UNCHANGED <<args, archive, hashed, rehashed, index, trustReady, undecided,
                   found, flags, rewrites>>

-----------------------------------------------------------------------------
(* One bundle.  Just before some definitions stands a faulty variant of them,
   a slip the code could have made; the properties are tried against it. *)

Current == args.sidecar[index]

Failure(code)    == [code |-> code, index |-> index]
EvidenceFromZero(kind, ok) ==
    [index |-> index - 1, signer |-> Current.signer, predicate |-> kind,
     verified |-> ok]
Evidence(kind, ok) ==
    [index |-> index, signer |-> Current.signer, predicate |-> kind,
     verified |-> ok]

SkipsLast == IF index + 1 >= Len(args.sidecar) THEN "conclude" ELSE "bundles"
NextBundle == IF index = Len(args.sidecar) THEN "conclude" ELSE "bundles"

Advance ==
    /\ pc' = NextBundle
    /\ index' = index + 1
    /\ UNCHANGED <<args, archive, hashed, rehashed, status, rewrites>>

AtBundle == pc = "bundles"

\* A bundle that does not parse, or that names no single signer, is rejected
\* before any trust material is looked for.
RejectMalformedBundle ==
    /\ AtBundle /\ ~Current.parses
    /\ failures' = failures \cup {Failure("invalid-bundle")}
    /\ Advance
    /\ UNCHANGED <<trustReady, undecided, evidence, flags>>

LackTrust ==
    /\ AtBundle /\ Current.parses /\ ~trustReady
    /\ sawUnavailable' = TRUE
    /\ failures' = failures \cup {Failure("evidence-unavailable")}
    /\ undecided' = undecided \cup {index}
    /\ Advance
    /\ UNCHANGED <<trustReady, evidence, packageVerified, sawUntrustedPublish>>

\* A verifier that has been built stays (SigstoreVerifier!TrustIsFixed).
Decide == AtBundle /\ Current.parses /\ trustReady' = TRUE

\* The verifier of one process was built before this call reached it.
RejectSignature ==
    /\ Decide /\ ~Current.signed
    /\ failures' = failures \cup {Failure("invalid-bundle")}
    /\ Advance
    /\ UNCHANGED <<undecided, evidence, flags>>

AnySignerMatches(s) == TRUE
SignerMatches(s) == args.expected \in {None, s}

IdentityFailure ==
    IF SignerMatches(Current.signer) THEN {}
    ELSE {Failure("untrusted-identity")}

Authenticated == Decide /\ Current.signed

\* The kind of evidence is the predicate type, or None for a payload that is
\* no statement; a code names why the evidence is not accepted.
Record(kind, codes) ==
    /\ evidence' = evidence \cup {Evidence(kind, codes = {})}
    /\ failures' = failures \cup IdentityFailure
                            \cup {Failure(c) : c \in codes}
    /\ Advance
    /\ UNCHANGED undecided

NoStatement ==
    /\ Authenticated /\ Current.payload \in {NotInToto, Malformed}
    /\ Record(None, {IF Current.payload = NotInToto
                     THEN "unsupported-payload-type" ELSE "invalid-statement"})
    /\ UNCHANGED flags

HasStatement(kinds) ==
    /\ Authenticated /\ Current.payload \notin {NotInToto, Malformed}
    /\ Current.payload.predicateType \in kinds

PublishAttestation ==
    /\ HasStatement({Publish})
    /\ LET ok == PublishesPackage(Current.payload, args.name, hashed, args.channel)
           trusted == SignerMatches(Current.signer)
       IN  /\ Record(Publish, IF ok THEN {} ELSE {"invalid-cep27"})
           /\ packageVerified' = (packageVerified \/ (ok /\ trusted))
           /\ sawUntrustedPublish' = (sawUntrustedPublish \/ (ok /\ ~trusted))
           /\ UNCHANGED sawUnavailable

Provenance ==
    /\ HasStatement({Slsa}) /\ ~ComparisonRaises(Current.payload, hashed)
    /\ Record(Slsa, IF ProvenanceOf(Current.payload, hashed) THEN {}
                    ELSE {"invalid-provenance"})
    /\ UNCHANGED flags

\* Only StatementError is caught around the comparison of the subjects: the
\* TypeError of compare_digest leaves verify_bundles with no result at all.
ProvenanceRaises ==
    /\ HasStatement({Slsa}) /\ ComparisonRaises(Current.payload, hashed)
    /\ pc' = "raised"
    /\ UNCHANGED <<args, archive, hashed, rehashed, index, undecided, found,
                   flags, status, rewrites>>

OtherStatement ==
    /\ HasStatement({Other})
    /\ Record(Other, {"unsupported-predicate"})
    /\ UNCHANGED flags

-----------------------------------------------------------------------------
(* The result *)

UnavailableFirst ==
    IF sawUnavailable THEN "evidence-unavailable"
    ELSE IF packageVerified THEN "verified"
    ELSE IF sawUntrustedPublish THEN "untrusted-identity" ELSE "invalid"

Status ==
    IF packageVerified THEN "verified"
    ELSE IF sawUnavailable THEN "evidence-unavailable"
    ELSE IF sawUntrustedPublish THEN "untrusted-identity" ELSE "invalid"

Conclude ==
    /\ pc = "conclude"
    /\ status' = Status
    /\ failures' = failures \cup
          IF ~packageVerified /\ evidence # {}
                /\ \A e \in evidence : e.predicate # Publish
          THEN {[code |-> "missing-publish-attestation", index |-> None]} ELSE {}
    /\ pc' = IF args.rehash THEN "rehash" ELSE "done"
    /\ UNCHANGED <<args, archive, hashed, rehashed, index, trustReady, undecided,
                   evidence, flags, rewrites>>

\* verify_artifact hashes the archive again before it returns the result.
HashedOnce == FALSE
ArchiveChanged == archive # hashed

RehashArchive ==
    /\ pc = "rehash"
    /\ status' = IF ArchiveChanged THEN "invalid" ELSE status
    /\ failures' = failures \cup
          IF ArchiveChanged THEN {[code |-> "artifact-changed", index |-> None]}
          ELSE {}
    /\ rehashed' = archive
    /\ pc' = "done"
    /\ UNCHANGED <<args, archive, hashed, index, trustReady, undecided, evidence,
                   flags, rewrites>>

\* The file is rewritten under the verifier's feet.
Rewrite ==
    /\ rewrites < MaxRewrites /\ pc \notin {"done", "raised", "failed"}
    /\ \E content \in Sha256 : archive' = content
    /\ rewrites' = rewrites + 1
    /\ UNCHANGED <<pc, args, hashed, rehashed, index, trustReady, undecided,
                   found, flags, status>>

Bundles ==
    \/ RejectMalformedBundle \/ LackTrust \/ RejectSignature \/ NoStatement
    \/ PublishAttestation \/ Provenance \/ OtherStatement

Next ==
    \/ HashArchive \/ HashFails \/ Bundles \/ ProvenanceRaises \/ Conclude
    \/ RehashArchive \/ Rewrite

Spec == Init /\ [][Next]_vars

-----------------------------------------------------------------------------
(* Properties *)

Positions == 1..Len(args.sidecar)

BundleCodes == {"invalid-bundle", "evidence-unavailable", "untrusted-identity",
                "unsupported-payload-type", "invalid-statement",
                "invalid-cep27", "invalid-provenance", "unsupported-predicate"}

TypeOK ==
    /\ pc \in {"hash", "bundles", "conclude", "rehash", "done", "raised",
              "failed"}
    /\ args \in Arguments
    /\ archive \in Sha256
    /\ hashed \in Sha256 \cup {None} /\ rehashed \in Sha256 \cup {None}
    /\ index \in 1..MaxBundles + 1
    /\ trustReady \in BOOLEAN
    /\ undecided \subseteq Positions
    /\ evidence \subseteq [index : Positions, signer : Signer,
                           predicate : {Publish, Slsa, Other, None},
                           verified : BOOLEAN]
    /\ failures \subseteq [code : BundleCodes, index : Positions]
                        \cup [code : {"missing-publish-attestation",
                                     "artifact-changed"}, index : {None}]
    /\ flags \in BOOLEAN \X BOOLEAN \X BOOLEAN
    /\ status \in {"none", "verified", "evidence-unavailable",
                   "untrusted-identity", "invalid"}
    /\ rewrites \in 0..MaxRewrites

\* What the bundle at a position is worth, whatever its neighbours are.
Genuine(b) == b.parses /\ b.signed

Publishes(i) ==
    LET b == args.sidecar[i] IN
    /\ i \notin undecided /\ Genuine(b)
    /\ b.payload \notin {NotInToto, Malformed}
    /\ b.payload.predicateType = Publish
    /\ PublishesPackage(b.payload, args.name, hashed, args.channel)

BySigner(i) == args.expected \in {None, args.sidecar[i].signer}

\* The status table of docs/reference/json-output.md, over the bundles as a
\* set: neither their order nor a rejected, unrelated or unavailable sibling
\* has any part in whether an acceptable statement is accepted.
DocumentedStatus ==
    CASE \E i \in Positions : Publishes(i) /\ BySigner(i) -> "verified"
      [] /\ undecided # {}
         /\ \A i \in Positions : ~(Publishes(i) /\ BySigner(i))
           -> "evidence-unavailable"
      [] OTHER -> IF \E i \in Positions : Publishes(i)
                  THEN "untrusted-identity" ELSE "invalid"

StatusAsDocumented ==
    status # "none" =>
        \/ status = DocumentedStatus
        \/ pc = "done" /\ status = "invalid" /\ rehashed \notin {None, hashed}

\* A verified archive is one whose very bytes, as last read, a genuine bundle
\* of the required signer publishes under this name: an archive rewritten
\* while its bundles were checked is not verified, unless it is back to what
\* was checked.
VerifiedIsPublished ==
    pc = "done" /\ status = "verified" =>
        /\ args.rehash => rehashed = hashed
        /\ \E i \in Positions :
              LET st == args.sidecar[i].payload IN
              /\ Genuine(args.sidecar[i]) /\ BySigner(i)
              /\ st \notin {NotInToto, Malformed} /\ st.predicateType = Publish
              /\ Len(st.subjects) = 1
              /\ st.subjects[1].name = args.name
              /\ DOMAIN st.subjects[1].digest = {"sha256"}
              /\ st.subjects[1].digest["sha256"] = hashed

EntriesOf(i) == {e \in evidence : e.index = i}
CodesOf(i)   == {f.code : f \in {g \in failures : g.index = i}}

Reported(i) ==
    IF Genuine(args.sidecar[i]) /\ i \notin undecided
    THEN \E e \in EntriesOf(i) :
            /\ EntriesOf(i) = {e}
            /\ e.signer = args.sidecar[i].signer
            /\ e.verified <=> CodesOf(i) \subseteq {"untrusted-identity"}
            /\ "untrusted-identity" \in CodesOf(i) <=> ~BySigner(i)
    ELSE EntriesOf(i) = {} /\ Cardinality(CodesOf(i)) = 1

\* Every bundle of the sidecar is accounted for in the result, once: as
\* evidence when it is genuine, as a failure otherwise; and evidence that is
\* not accepted has a failure that says why.
EveryBundleReported == status # "none" => \A i \in Positions : Reported(i)

\* docs/explanation/design.md: an invalid or unrelated sibling "remains visible
\* without overturning a valid artifact-bound statement".  Here: the call of a
\* sidecar that holds an acceptable publish attestation does not end in an
\* exception, by which that attestation would count for nothing.
ValidSiblingSuffices ==
    pc = "raised" => ~\E i \in Positions : Publishes(i) /\ BySigner(i)

\* Nothing a result calls evidence comes from a bundle whose signature did
\* not verify, at any time while the loop runs.
EvidenceIsGenuine ==
    \A e \in evidence :
        /\ e.index \in Positions \ undecided
        /\ Genuine(args.sidecar[e.index])
        /\ e.verified /\ e.predicate = Publish => Publishes(e.index)
=============================================================================
