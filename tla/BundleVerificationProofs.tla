---------------------- MODULE BundleVerificationProofs ----------------------
(***************************************************************************)
(* Proofs about BundleVerification: for sidecars of any length, whatever    *)
(* their bundles say and however often the archive is rewritten.  The       *)
(* invariant reads the three flags of verify_bundles as statements about    *)
(* the bundles behind the index; at the end of the loop these are all       *)
(* bundles, and the flags give the documented status.                       *)
(***************************************************************************)
EXTENDS BundleVerification, FiniteSetTheorems, TLAPS

\* Where the loop is, and which bundles may have gone undecided.
LoopInv ==
    /\ pc = "hash" => NoResult /\ rehashed = None
    /\ pc \notin {"hash", "failed"} => hashed \in Sha256
    /\ pc = "bundles" => index \in Positions
    /\ pc \in {"conclude", "rehash", "done"} => index = Len(args.sidecar) + 1
    /\ \A i \in undecided : i < index
    /\ \A e \in evidence : e.index < index

\* The bundles behind the index that publish the package, by the signer the
\* caller requires and by others.
Accepted   == {i \in Positions : i < index /\ Publishes(i) /\ BySigner(i)}
Unaccepted == {i \in Positions : i < index /\ Publishes(i) /\ ~BySigner(i)}

\* What the flags say about the bundles behind the index.
FlagInv ==
    /\ packageVerified <=> Accepted # {}
    /\ sawUnavailable <=> undecided # {}
    /\ sawUntrustedPublish <=> Unaccepted # {}

\* What the status rests on once there is one.
StatusInv ==
    /\ pc \in {"hash", "bundles", "conclude", "raised", "failed"} => status = "none"
    /\ pc = "rehash" => status = Status /\ args.rehash
    /\ pc = "done" =>
          IF args.rehash /\ rehashed # hashed
          THEN status = "invalid" /\ rehashed # None
          ELSE status = Status

\* What the result will say of the bundles behind the index is there, and of
\* the others there is nothing yet.
ReportInv ==
    /\ \A f \in failures : f.index = None \/ f.index < index
    /\ \A i \in Positions : i < index => Reported(i)

IInv ==
    TypeOK /\ LoopInv /\ FlagInv /\ StatusInv /\ EvidenceIsGenuine /\ ReportInv

-----------------------------------------------------------------------------
(* About sidecars, and about one turn of the loop *)

\* A sidecar is a nonempty sequence of bundles.
LEMMA SidecarIsSequence ==
  ASSUME NEW s \in Sidecars
  PROVE  /\ Len(s) \in 1..MaxBundles
         /\ \A i \in 1..Len(s) : s[i] \in Bundle
  <1>1. PICK n \in 1..MaxBundles : s \in [1..n -> Bundle]
    BY DEF Sidecars
  <1>2. n \in Nat
    BY <1>1, BundleAssumption
  <1>3. s \in Seq(Bundle) /\ Len(s) = n
    BY <1>1, <1>2
  <1> QED
    BY <1>1, <1>3

\* What every action on a bundle does.
LEMMA BundleSteps ==
  ASSUME Bundles
  PROVE  /\ pc = "bundles" /\ Advance
         /\ undecided' \in {undecided, undecided \cup {index}}
  BY DEF Bundles, RejectMalformedBundle, LackTrust, RejectSignature,
         NoStatement, PublishAttestation, Provenance, OtherStatement, Record,
         HasStatement, Authenticated, Decide, AtBundle

\* The bundle at the index is one of the sidecar's, and the loop goes on to
\* the next, or ends behind the last.
LEMMA Turns ==
  ASSUME TypeOK, LoopInv, Bundles
  PROVE  /\ index \in Positions /\ Current \in Bundle /\ Current.signer \in Signer
         /\ Len(args.sidecar) \in 1..MaxBundles
         /\ index' = index + 1 /\ index' \in 2..MaxBundles + 1
         /\ Positions' = Positions /\ args' = args /\ hashed' = hashed
         /\ \/ pc' = "bundles" /\ index' \in Positions
            \/ pc' = "conclude" /\ index' = Len(args.sidecar) + 1
  <1>1. pc = "bundles" /\ Advance /\ index \in Positions
    BY BundleSteps DEF LoopInv
  <1>2. args.sidecar \in Sidecars
    BY DEF TypeOK, Arguments
  <1>3. /\ Len(args.sidecar) \in 1..MaxBundles
        /\ Current \in Bundle
    BY <1>1, <1>2, SidecarIsSequence DEF Positions, Current
  <1> QED
    BY <1>1, <1>3, BundleAssumption DEF Positions, Advance, NextBundle

\* What was said of the bundles behind the index stays true.
LEMMA SaidIsSaid ==
  ASSUME TypeOK, LoopInv, Bundles, NEW i \in Positions, i < index
  PROVE  (Publishes(i)' <=> Publishes(i)) /\ (BySigner(i)' <=> BySigner(i))
  <1>1. i \in undecided' <=> i \in undecided
    BY BundleSteps, Turns DEF Positions
  <1> QED
    BY <1>1, Turns DEF Publishes, BySigner, Genuine

\* The bundle at the index adds itself, if anything, to what is accepted.
LEMMA AcceptedGrows ==
  ASSUME TypeOK, LoopInv, Bundles
  PROVE  /\ Accepted' = Accepted \cup
                {i \in {index} : Publishes(i)' /\ BySigner(i)}
         /\ Unaccepted' = Unaccepted \cup
                {i \in {index} : Publishes(i)' /\ ~BySigner(i)}
  <1>1. /\ index \in Positions /\ Positions' = Positions
        /\ \A i \in Positions : i < index' <=> (i < index \/ i = index)
    BY Turns DEF Positions
  <1>2. \A i \in Positions : BySigner(i)' <=> BySigner(i)
    BY Turns DEF BySigner
  <1>3. \A i \in Positions : i < index => (Publishes(i)' <=> Publishes(i))
    BY SaidIsSaid
  <1> QED
    BY <1>1, <1>2, <1>3 DEF Accepted, Unaccepted

\* A bundle that is no publish attestation for this archive publishes nothing.
LEMMA NotPublished ==
  ASSUME TypeOK, LoopInv,
         \/ RejectMalformedBundle \/ LackTrust \/ RejectSignature
         \/ NoStatement \/ Provenance \/ OtherStatement,
         NEW i \in Positions, i = index
  PROVE  ~Publishes(i)'
  <1> USE DEF Publishes, Genuine, Current
  <1>0. Bundles
    BY DEF Bundles
  <1>1. index \in Positions /\ args' = args /\ hashed' = hashed
    BY <1>0, Turns
  <1>2. CASE RejectMalformedBundle
    BY <1>1, <1>2 DEF RejectMalformedBundle
  <1>3. CASE LackTrust
    BY <1>1, <1>3 DEF LackTrust
  <1>4. CASE RejectSignature
    BY <1>1, <1>4 DEF RejectSignature, Decide
  <1>5. CASE NoStatement
    BY <1>1, <1>5 DEF NoStatement, Authenticated, Decide
  <1>6. CASE Provenance \/ OtherStatement
    BY <1>1, <1>6 DEF Provenance, OtherStatement, HasStatement, Publish, Slsa,
       Other
  <1> QED
    BY <1>2, <1>3, <1>4, <1>5, <1>6

\* A genuine statement publishes the archive exactly when verify_bundles
\* takes it for a publish attestation.
LEMMA PublishedWhenTaken ==
  ASSUME TypeOK, LoopInv, PublishAttestation, NEW i \in Positions, i = index
  PROVE  /\ Publishes(i)' <=>
               PublishesPackage(Current.payload, args.name, hashed, args.channel)
         /\ BySigner(i) <=> SignerMatches(Current.signer)
  <1>1. Bundles /\ undecided' = undecided
    BY DEF Bundles, PublishAttestation, Record
  <1>2. /\ index \in Positions /\ args' = args /\ hashed' = hashed
        /\ i \notin undecided'
    BY <1>1, Turns DEF LoopInv, Positions
  <1>3. /\ Current.parses /\ Current.signed
        /\ Current.payload \notin {NotInToto, Malformed}
        /\ Current.payload.predicateType = Publish
    BY DEF PublishAttestation, HasStatement, Authenticated, Decide
  <1>4. (args.sidecar[i])' = Current
    BY <1>2 DEF Current
  <1>5. Publishes(i)' <=>
            PublishesPackage(Current.payload, args.name, hashed, args.channel)
    BY <1>2, <1>3, <1>4 DEF Publishes, Genuine
  <1>6. BySigner(i) <=> SignerMatches(Current.signer)
    BY DEF BySigner, SignerMatches, Current
  <1> QED
    BY <1>5, <1>6

-----------------------------------------------------------------------------
(* Each part of the invariant is preserved *)

\* The types.
LEMMA NextTypeOK ==
  ASSUME TypeOK, LoopInv, [Next]_vars
  PROVE  TypeOK'
  <1>1. CASE HashArchive
    BY <1>1 DEF TypeOK, HashArchive, found, flags, Positions
  <1>2. CASE Bundles
    <2>1. /\ index \in Positions /\ Current.signer \in Signer
          /\ index' \in 1..MaxBundles + 1
          /\ Positions' = Positions /\ args' = args
          /\ pc' \in {"bundles", "conclude"}
          /\ undecided' \subseteq Positions
      BY <1>2, Turns, BundleSteps, BundleAssumption DEF TypeOK
    <2>2. /\ trustReady' \in BOOLEAN /\ flags' \in BOOLEAN \X BOOLEAN \X BOOLEAN
      BY <1>2 DEF TypeOK, flags, Bundles, RejectMalformedBundle, LackTrust,
         RejectSignature, NoStatement, PublishAttestation, Provenance,
         OtherStatement, HasStatement, Authenticated, Decide
    <2>3. \A c \in BundleCodes :
             Failure(c) \in [code : BundleCodes, index : Positions]
      BY <2>1 DEF Failure
    <2>4. IdentityFailure \subseteq [code : BundleCodes, index : Positions]
      BY <2>3 DEF IdentityFailure, BundleCodes
    <2>5. \A kind \in {Publish, Slsa, Other, None}, ok \in BOOLEAN :
             Evidence(kind, ok) \in [index : Positions, signer : Signer,
                 predicate : {Publish, Slsa, Other, None}, verified : BOOLEAN]
      BY <2>1 DEF Evidence
    <2>6. CASE RejectMalformedBundle \/ LackTrust \/ RejectSignature
      <3>1. /\ evidence' = evidence
            /\ \E c \in BundleCodes : failures' = failures \cup {Failure(c)}
        BY <2>6 DEF RejectMalformedBundle, LackTrust, RejectSignature, BundleCodes
      <3> QED
        BY <2>1, <2>2, <2>3, <3>1, <1>2, BundleSteps DEF TypeOK, Advance
    <2>7. CASE NoStatement \/ PublishAttestation \/ Provenance \/ OtherStatement
      <3>1. \E kind \in {Publish, Slsa, Other, None}, codes \in SUBSET BundleCodes :
               Record(kind, codes)
        BY <2>7 DEF NoStatement, PublishAttestation, Provenance, OtherStatement,
           BundleCodes
      <3>2. PICK kind \in {Publish, Slsa, Other, None},
                 codes \in SUBSET BundleCodes : Record(kind, codes)
        BY <3>1
      <3>3. {Failure(c) : c \in codes} \subseteq
               [code : BundleCodes, index : Positions]
        BY <2>3, <3>2
      <3>4. /\ evidence' = evidence \cup {Evidence(kind, codes = {})}
            /\ failures' = failures \cup IdentityFailure
                                    \cup {Failure(c) : c \in codes}
        BY <3>2 DEF Record
      <3>0. PICK ok \in BOOLEAN : Evidence(kind, codes = {}) = Evidence(kind, ok)
        <4>1. CASE codes = {}
          BY <4>1, Zenon DEF Evidence
        <4>2. CASE codes # {}
          BY <4>2, Zenon DEF Evidence
        <4> QED
          BY <4>1, <4>2
      <3>5. evidence' \subseteq [index : Positions, signer : Signer,
                 predicate : {Publish, Slsa, Other, None}, verified : BOOLEAN]
        BY <2>5, <3>0, <3>4 DEF TypeOK
      <3>6. failures' \subseteq [code : BundleCodes, index : Positions]
                \cup [code : {"missing-publish-attestation",
                             "artifact-changed"}, index : {None}]
        BY <2>4, <3>3, <3>4 DEF TypeOK
      <3> QED
        BY <2>1, <2>2, <3>5, <3>6, <1>2, BundleSteps DEF TypeOK, Advance
    <2> QED
      BY <1>2, <2>6, <2>7 DEF Bundles
  <1>3. CASE Conclude
    BY <1>3 DEF TypeOK, Conclude, flags, Positions, Status
  <1>4. CASE RehashArchive
    BY <1>4 DEF TypeOK, RehashArchive, flags, Positions
  <1>5. CASE Rewrite
    BY <1>5, BundleAssumption DEF TypeOK, Rewrite, found, flags, Positions
  <1>7. CASE ProvenanceRaises
    BY <1>7 DEF TypeOK, ProvenanceRaises, HasStatement, Authenticated, Decide,
       found, flags, Positions
  <1>8. CASE HashFails
    BY <1>8 DEF TypeOK, HashFails, found, flags, Positions
  <1>6. CASE UNCHANGED vars
    BY <1>6 DEF TypeOK, vars, found, flags, Positions
  <1> QED
    BY <1>1, <1>2, <1>3, <1>4, <1>5, <1>6, <1>7, <1>8 DEF Next

\* The place in the loop.
LEMMA NextLoop ==
  ASSUME TypeOK, LoopInv, [Next]_vars
  PROVE  LoopInv'
  <1>1. CASE HashArchive
    <2>1. args.sidecar \in Sidecars
      BY DEF TypeOK, Arguments
    <2>2. 1 \in Positions
      BY <2>1, SidecarIsSequence, BundleAssumption DEF Positions
    <2> QED
      BY <1>1, <2>2 DEF TypeOK, LoopInv, HashArchive, NoResult, found, Positions
  <1>2. CASE Bundles
    <2>1. hashed' \in Sha256
      BY <1>2, Turns, BundleSteps DEF LoopInv
    <2>2. ASSUME NEW i \in undecided' PROVE i < index'
      <3>1. i \in Nat /\ index \in Nat /\ index' = index + 1
        <4>1. index \in Nat /\ Positions \subseteq Nat /\ index \in Positions
          BY <1>2, Turns, BundleAssumption DEF Positions
        <4>2. i \in Positions
          BY <1>2, <2>2, <4>1, BundleSteps DEF TypeOK
        <4> QED
          BY <1>2, <4>1, <4>2, Turns
      <3>2. i < index \/ i = index
        BY <1>2, <2>2, BundleSteps DEF LoopInv
      <3> QED
        BY <3>1, <3>2
    <2>3. ASSUME NEW e \in evidence' PROVE e.index < index'
      <3>1. index \in Nat /\ index' = index + 1 /\ Positions \subseteq Nat
        BY <1>2, Turns, BundleAssumption DEF Positions
      <3>2. e \in evidence \/ e.index = index
        BY <1>2 DEF Bundles, RejectMalformedBundle, LackTrust, RejectSignature,
           NoStatement, PublishAttestation, Provenance, OtherStatement, Record,
           Evidence
      <3>3. e \in evidence => e.index \in Nat /\ e.index < index
        BY <3>1 DEF TypeOK, LoopInv
      <3> QED
        BY <3>1, <3>2, <3>3
    <2> QED
      BY <1>2, <2>1, <2>2, <2>3, Turns DEF LoopInv
  <1>3. CASE Conclude
    BY <1>3 DEF LoopInv, Conclude
  <1>4. CASE RehashArchive
    BY <1>4 DEF LoopInv, RehashArchive
  <1>5. CASE Rewrite
    BY <1>5 DEF LoopInv, Rewrite, NoResult, found, flags, Positions
  <1>7. CASE ProvenanceRaises
    BY <1>7 DEF LoopInv, ProvenanceRaises, HasStatement, Authenticated, Decide,
       AtBundle, found
  <1>8. CASE HashFails
    BY <1>8 DEF LoopInv, HashFails, found, Positions
  <1>6. CASE UNCHANGED vars
    BY <1>6 DEF LoopInv, vars, NoResult, found, flags, Positions
  <1> QED
    BY <1>1, <1>2, <1>3, <1>4, <1>5, <1>6, <1>7, <1>8 DEF Next

\* The flags.
LEMMA NextFlags ==
  ASSUME TypeOK, LoopInv, FlagInv, [Next]_vars
  PROVE  FlagInv'
  <1>1. CASE HashArchive
    <2>1. index = 1 /\ index' = 1 /\ Positions' = Positions /\ undecided' = undecided
      BY <1>1 DEF LoopInv, HashArchive, NoResult, found, Positions
    <2>2. \A i \in Positions : ~(i < 1)
      BY DEF Positions
    <2>3. Accepted = {} /\ Unaccepted = {} /\ Accepted' = {} /\ Unaccepted' = {}
      BY <2>1, <2>2 DEF Accepted, Unaccepted
    <2> QED
      BY <1>1, <2>1, <2>3 DEF FlagInv, HashArchive, flags
  <1>2. ASSUME \/ RejectMalformedBundle \/ LackTrust \/ RejectSignature
               \/ NoStatement \/ Provenance \/ OtherStatement
         PROVE  FlagInv'
    <2>1. Bundles
      BY <1>2 DEF Bundles
    <2>2. Accepted' = Accepted /\ Unaccepted' = Unaccepted
      BY <1>2, <2>1, AcceptedGrows, NotPublished, Turns
    <2>3. packageVerified' = packageVerified /\ sawUntrustedPublish' = sawUntrustedPublish
      BY <1>2 DEF RejectMalformedBundle, LackTrust, RejectSignature, NoStatement,
         Provenance, OtherStatement, flags
    <2>4. sawUnavailable' <=> undecided' # {}
      BY <1>2 DEF FlagInv, RejectMalformedBundle, LackTrust, RejectSignature,
         NoStatement, Provenance, OtherStatement, Record, flags
    <2> QED
      BY <2>2, <2>3, <2>4 DEF FlagInv
  <1>3. CASE PublishAttestation
    <2> DEFINE ok == PublishesPackage(Current.payload, args.name, hashed, args.channel)
               trusted == SignerMatches(Current.signer)
    <2>1. Bundles /\ index \in Positions
      BY <1>3, Turns DEF Bundles
    <2>2. /\ packageVerified' = (packageVerified \/ (ok /\ trusted))
          /\ sawUntrustedPublish' = (sawUntrustedPublish \/ (ok /\ ~trusted))
          /\ sawUnavailable' = sawUnavailable /\ undecided' = undecided
      BY <1>3 DEF PublishAttestation, Record
    <2>3. /\ Accepted' = Accepted \cup {i \in {index} : ok /\ trusted}
          /\ Unaccepted' = Unaccepted \cup {i \in {index} : ok /\ ~trusted}
      BY <1>3, <2>1, AcceptedGrows, PublishedWhenTaken
    <2> HIDE DEF ok, trusted
    <2>4. packageVerified' <=> Accepted' # {}
      BY <2>2, <2>3 DEF FlagInv
    <2>5. sawUntrustedPublish' <=> Unaccepted' # {}
      BY <2>2, <2>3 DEF FlagInv
    <2> QED
      BY <2>2, <2>4, <2>5 DEF FlagInv
  <1>4. CASE \/ HashFails \/ ProvenanceRaises \/ Conclude \/ RehashArchive \/ Rewrite
             \/ UNCHANGED vars
    <2>1. UNCHANGED <<args, hashed, index, undecided, packageVerified,
                      sawUnavailable, sawUntrustedPublish>>
      BY <1>4 DEF HashFails, ProvenanceRaises, Conclude, RehashArchive, Rewrite, vars, flags
    <2>2. Accepted' = Accepted /\ Unaccepted' = Unaccepted
      BY <2>1 DEF Accepted, Unaccepted, Positions, Publishes, Genuine, BySigner
    <2> QED
      BY <2>1, <2>2 DEF FlagInv
  <1> QED
    BY <1>1, <1>2, <1>3, <1>4 DEF Next, Bundles

\* The status.
LEMMA NextStatus ==
  ASSUME TypeOK, LoopInv, StatusInv, [Next]_vars
  PROVE  StatusInv'
  <1>1. CASE HashArchive
    BY <1>1 DEF StatusInv, HashArchive
  <1>2. CASE Bundles
    <2>1. pc = "bundles" /\ status' = status /\ pc' \in {"bundles", "conclude"}
      BY <1>2, BundleSteps, Turns DEF Advance
    <2> QED
      BY <2>1 DEF StatusInv
  <1>3. CASE Conclude
    <2>1. status' = Status /\ Status' = Status
      BY <1>3 DEF Conclude, Status, flags
    <2> QED
      BY <1>3, <2>1 DEF StatusInv, Conclude
  <1>4. CASE RehashArchive
    <2>1. Status' = Status /\ rehashed' = archive /\ hashed' = hashed /\ archive # None
      BY <1>4, BundleAssumption DEF RehashArchive, Status, flags, TypeOK
    <2> QED
      BY <1>4, <2>1 DEF StatusInv, RehashArchive, ArchiveChanged
  <1>5. CASE Rewrite \/ UNCHANGED vars
    <2>1. UNCHANGED <<pc, args, hashed, rehashed, status, flags>>
      BY <1>5 DEF Rewrite, vars
    <2> QED
      BY <2>1 DEF StatusInv, Status, flags
  <1>6. CASE ProvenanceRaises
    BY <1>6 DEF StatusInv, ProvenanceRaises, HasStatement, Authenticated, Decide,
       AtBundle
  <1>7. CASE HashFails
    BY <1>7 DEF StatusInv, HashFails
  <1> QED
    BY <1>1, <1>2, <1>3, <1>4, <1>5, <1>6, <1>7 DEF Next

\* The evidence.
LEMMA NextEvidence ==
  ASSUME TypeOK, LoopInv, EvidenceIsGenuine, [Next]_vars
  PROVE  EvidenceIsGenuine'
  <1>1. CASE HashArchive
    BY <1>1 DEF LoopInv, NoResult, HashArchive, found, EvidenceIsGenuine
  <1>2. CASE Bundles
    <2> DEFINE Good(e) == /\ e.index \in Positions \ undecided
                          /\ Genuine(args.sidecar[e.index])
                          /\ e.verified /\ e.predicate = Publish =>
                                Publishes(e.index)
    <2>1. ASSUME NEW e \in evidence PROVE Good(e)'
      <3>1. Good(e) /\ e.index < index
        BY DEF EvidenceIsGenuine, LoopInv
      <3>2. index \in Nat /\ e.index \in Nat
        BY <1>2, <3>1, Turns, BundleAssumption DEF Positions
      <3>3. e.index \notin undecided'
        BY <1>2, <3>1, <3>2, BundleSteps
      <3>4. Publishes(e.index)' <=> Publishes(e.index)
        BY <1>2, <3>1, SaidIsSaid
      <3> QED
        BY <1>2, <3>1, <3>3, <3>4, Turns DEF Genuine
    <2>2. ASSUME NEW e \in evidence', e \notin evidence PROVE Good(e)'
      <3>1. CASE PublishAttestation
        <4> DEFINE ok == PublishesPackage(Current.payload, args.name, hashed,
                                          args.channel)
        <4>1. /\ Authenticated /\ undecided' = undecided
              /\ e = Evidence(Publish, (IF ok THEN {} ELSE {"invalid-cep27"}) = {})
          BY <2>2, <3>1 DEF PublishAttestation, HasStatement, Record
        <4>2. e.index = index /\ index \in Positions /\ index \notin undecided
          BY <1>2, <4>1, Turns DEF Evidence, LoopInv, Positions
        <4>3. e.verified => ok
          BY <4>1 DEF Evidence
        <4>4. Publishes(e.index)' <=> ok
          BY <3>1, <4>2, PublishedWhenTaken
        <4>5. Genuine(args.sidecar[e.index])
          BY <4>1, <4>2 DEF Authenticated, Decide, Current, Genuine
        <4> QED
          BY <1>2, <4>1, <4>2, <4>3, <4>4, <4>5, Turns DEF Genuine
      <3>2. CASE NoStatement \/ Provenance \/ OtherStatement
        <4>1. /\ Authenticated /\ undecided' = undecided
              /\ \E kind \in {None, Slsa, Other}, codes \in SUBSET BundleCodes :
                    e = Evidence(kind, codes = {})
          BY <2>2, <3>2 DEF NoStatement, Provenance, OtherStatement, HasStatement,
             Record, BundleCodes
        <4>2. e.index = index /\ e.predicate \in {None, Slsa, Other}
          BY <4>1 DEF Evidence
        <4>3. index \in Positions /\ index \notin undecided
          BY <1>2, Turns DEF LoopInv, Positions
        <4>4. e.predicate # Publish
          BY <4>2, BundleAssumption DEF Publish, Slsa, Other
        <4>5. Genuine(args.sidecar[e.index])
          BY <4>1, <4>2 DEF Authenticated, Decide, Current, Genuine
        <4> QED
          BY <1>2, <4>1, <4>2, <4>3, <4>4, <4>5, Turns DEF Genuine
      <3> QED
        BY <1>2, <2>2, <3>1, <3>2 DEF Bundles, RejectMalformedBundle, LackTrust,
           RejectSignature
    <2> QED
      BY <2>1, <2>2 DEF EvidenceIsGenuine
  <1>3. CASE \/ HashFails \/ ProvenanceRaises \/ Conclude \/ RehashArchive \/ Rewrite
             \/ UNCHANGED vars
    <2>1. UNCHANGED <<args, hashed, undecided, evidence>>
      BY <1>3 DEF HashFails, ProvenanceRaises, Conclude, RehashArchive, Rewrite, vars, found
    <2> QED
      BY <2>1 DEF EvidenceIsGenuine, Positions, Publishes, Genuine
  <1> QED
    BY <1>1, <1>2, <1>3 DEF Next

\* What one turn of the loop adds to the result is about the bundle at the
\* index, of which nothing was said before.
LEMMA ResultGrows ==
  ASSUME TypeOK, LoopInv, ReportInv, Bundles, NEW E, NEW C,
         evidence' = evidence \cup E, \A e \in E : e.index = index,
         failures' = failures \cup {Failure(c) : c \in C},
         NEW i \in Positions, i < index \/ i = index
  PROVE  /\ i = index => EntriesOf(i)' = E /\ CodesOf(i)' = C
         /\ i # index => EntriesOf(i)' = EntriesOf(i) /\ CodesOf(i)' = CodesOf(i)
  <1>1. i \in Nat /\ index \in Nat
    BY Turns, BundleAssumption DEF Positions
  <1>2. \A c : Failure(c).index = index /\ Failure(c).code = c
    BY DEF Failure
  <1>3. CASE i = index
    <2>1. \A e \in evidence : e.index # i
      BY <1>1, <1>3 DEF LoopInv
    <2>2. \A f \in failures : f.index # i
      BY <1>1, <1>3, BundleAssumption DEF ReportInv
    <2>3. EntriesOf(i)' = E
      BY <1>3, <2>1 DEF EntriesOf
    <2>4. {g \in failures' : g.index = i} = {Failure(c) : c \in C}
      BY <1>2, <1>3, <2>2
    <2>5. CodesOf(i)' = C
      BY <1>2, <2>4 DEF CodesOf
    <2> QED
      BY <1>3, <2>3, <2>5
  <1>4. CASE i # index
    <2>1. EntriesOf(i)' = EntriesOf(i)
      BY <1>4 DEF EntriesOf
    <2>2. {g \in failures' : g.index = i} = {g \in failures : g.index = i}
      BY <1>2, <1>4
    <2>3. CodesOf(i)' = CodesOf(i)
      BY <2>2 DEF CodesOf
    <2> QED
      BY <1>4, <2>1, <2>3
  <1> QED
    BY <1>3, <1>4

\* A bundle that is turned down before its signature is known to be good has
\* one failure and no evidence.
LEMMA TurnedDown ==
  ASSUME TypeOK, LoopInv, ReportInv,
         RejectMalformedBundle \/ LackTrust \/ RejectSignature,
         NEW i \in Positions, i < index \/ i = index
  PROVE  /\ i = index => Reported(i)'
         /\ i # index => EntriesOf(i)' = EntriesOf(i) /\ CodesOf(i)' = CodesOf(i)
  <1>1. Bundles /\ evidence' = evidence
    BY DEF Bundles, RejectMalformedBundle, LackTrust, RejectSignature
  <1>2. PICK c : failures' = failures \cup {Failure(c)}
    BY DEF RejectMalformedBundle, LackTrust, RejectSignature
  <1> DEFINE E == {}
             C == {c}
  <1>a. /\ evidence' = evidence \cup E /\ \A e \in E : e.index = index
        /\ failures' = failures \cup {Failure(d) : d \in C}
    BY <1>1, <1>2
  <1>b. E = {} /\ C = {c}
    OBVIOUS
  <1> HIDE DEF E, C
  <1>3. /\ i = index => EntriesOf(i)' = E /\ CodesOf(i)' = C
        /\ i # index => EntriesOf(i)' = EntriesOf(i) /\ CodesOf(i)' = CodesOf(i)
    BY <1>1, <1>a, ResultGrows
  <1>4. ASSUME i = index PROVE ~(Genuine(args.sidecar[i])' /\ i \notin undecided')
    <2>1. (args.sidecar[i])' = Current
      BY <1>1, <1>4, Turns DEF Current
    <2> QED
      BY <1>4, <2>1 DEF Genuine, RejectMalformedBundle, LackTrust,
         RejectSignature, Decide
  <1>5. Cardinality({c}) = 1
    BY FS_Singleton
  <1> QED
    BY <1>3, <1>4, <1>5, <1>b DEF Reported

\* A bundle whose signature is good has one piece of evidence, and the codes
\* say why it is not accepted.
LEMMA Authentic ==
  ASSUME TypeOK, LoopInv, ReportInv,
         NoStatement \/ PublishAttestation \/ Provenance \/ OtherStatement,
         NEW i \in Positions, i < index \/ i = index
  PROVE  /\ i = index => Reported(i)'
         /\ i # index => EntriesOf(i)' = EntriesOf(i) /\ CodesOf(i)' = CodesOf(i)
  <1>1. Bundles /\ Authenticated /\ undecided' = undecided
    BY DEF Bundles, NoStatement, PublishAttestation, Provenance, OtherStatement,
       HasStatement, Record
  <1>2. \E kind \in {Publish, Slsa, Other, None}, codes \in SUBSET BundleCodes :
           Record(kind, codes) /\ "untrusted-identity" \notin codes
    BY DEF NoStatement, PublishAttestation, Provenance, OtherStatement, BundleCodes
  <1>3. PICK kind \in {Publish, Slsa, Other, None},
             codes \in SUBSET BundleCodes :
                Record(kind, codes) /\ "untrusted-identity" \notin codes
    BY <1>2
  <1> DEFINE e  == Evidence(kind, codes = {})
             by == IF SignerMatches(Current.signer) THEN {} ELSE {"untrusted-identity"}
  <1>4. /\ evidence' = evidence \cup {e}
        /\ failures' = failures \cup {Failure(c) : c \in codes \cup by}
    BY <1>3 DEF Record, IdentityFailure
  <1>5. e.index = index /\ e.signer = Current.signer
    BY DEF Evidence
  <1>6. e.verified <=> codes = {}
    BY Zenon DEF Evidence
  <1>7. "untrusted-identity" \in codes \cup by <=> ~SignerMatches(Current.signer)
    BY <1>3
  <1>8. codes \cup by \subseteq {"untrusted-identity"} <=> codes = {}
    BY <1>3
  <1> HIDE DEF e, by
  <1> DEFINE E == {e}
             C == codes \cup by
  <1>a. /\ evidence' = evidence \cup E /\ \A d \in E : d.index = index
        /\ failures' = failures \cup {Failure(c) : c \in C}
    BY <1>4, <1>5
  <1>b. E = {e} /\ C = codes \cup by
    OBVIOUS
  <1> HIDE DEF E, C
  <1>9. /\ i = index => EntriesOf(i)' = E /\ CodesOf(i)' = C
        /\ i # index => EntriesOf(i)' = EntriesOf(i) /\ CodesOf(i)' = CodesOf(i)
    BY <1>1, <1>a, ResultGrows
  <1>10. ASSUME i = index PROVE Reported(i)'
    <2>1. (args.sidecar[i])' = Current /\ i \notin undecided'
      BY <1>1, <1>10, Turns DEF Current, LoopInv, Positions
    <2>2. Genuine((args.sidecar[i])')
      BY <1>1, <2>1 DEF Genuine, Authenticated, Decide
    <2>3. BySigner(i)' <=> SignerMatches(Current.signer)
      BY <1>1, <2>1, Turns DEF BySigner, SignerMatches
    <2>4. EntriesOf(i)' = {e} /\ CodesOf(i)' = codes \cup by
      BY <1>9, <1>10, <1>b
    <2> QED
      BY <1>5, <1>6, <1>7, <1>8, <2>1, <2>2, <2>3, <2>4 DEF Reported, Genuine
  <1> QED
    BY <1>9, <1>10

\* The report.
LEMMA NextReport ==
  ASSUME TypeOK, LoopInv, ReportInv, [Next]_vars
  PROVE  ReportInv'
  <1>1. CASE HashArchive
    BY <1>1 DEF LoopInv, NoResult, HashArchive, found, ReportInv, Positions
  <1>2. CASE Bundles
    <2>1. ASSUME NEW f \in failures' PROVE f.index = None \/ f.index < index'
      <3>1. index \in Nat /\ index' = index + 1
        BY <1>2, Turns, BundleAssumption DEF Positions
      <3>2. CASE f \notin failures
        <4>1. f.index = index
          BY <1>2, <2>1, <3>2 DEF Bundles, RejectMalformedBundle, LackTrust,
             RejectSignature, NoStatement, PublishAttestation, Provenance,
             OtherStatement, Record, IdentityFailure, Failure
        <4> QED
          BY <3>1, <4>1
      <3>3. CASE f \in failures
        <4>1. f.index = None \/ (f.index < index /\ f.index \in Nat)
          <5>1. f.index \in Positions \cup {None}
            BY <3>3 DEF TypeOK
          <5> QED
            BY <3>3, <5>1 DEF ReportInv, Positions
        <4> QED
          BY <3>1, <4>1
      <3> QED
        BY <3>2, <3>3
    <2>2. ASSUME NEW i \in Positions, i < index' PROVE Reported(i)'
      <3>1. /\ i < index \/ i = index
            /\ args' = args /\ (i < index => Reported(i) /\ i # index)
        BY <1>2, <2>2, Turns, BundleAssumption DEF Positions, ReportInv
      <3>2. CASE RejectMalformedBundle \/ LackTrust \/ RejectSignature
        <4>1. i = index => Reported(i)'
          BY <3>1, <3>2, TurnedDown
        <4>2. i # index => EntriesOf(i)' = EntriesOf(i) /\ CodesOf(i)' = CodesOf(i)
          BY <3>1, <3>2, TurnedDown
        <4>3. i # index => (i \in undecided' <=> i \in undecided)
          BY <1>2, BundleSteps
        <4> QED
          BY <3>1, <4>1, <4>2, <4>3 DEF Reported, Genuine, BySigner
      <3>3. CASE NoStatement \/ PublishAttestation \/ Provenance \/ OtherStatement
        <4>1. i = index => Reported(i)'
          BY <3>1, <3>3, Authentic
        <4>2. i # index => EntriesOf(i)' = EntriesOf(i) /\ CodesOf(i)' = CodesOf(i)
          BY <3>1, <3>3, Authentic
        <4>3. i # index => (i \in undecided' <=> i \in undecided)
          BY <1>2, BundleSteps
        <4> QED
          BY <3>1, <4>1, <4>2, <4>3 DEF Reported, Genuine, BySigner
      <3> QED
        BY <1>2, <3>2, <3>3 DEF Bundles
    <2> QED
      BY <1>2, <2>1, <2>2, Turns DEF ReportInv
  <1>3. CASE \/ HashFails \/ ProvenanceRaises \/ Conclude \/ RehashArchive \/ Rewrite
             \/ UNCHANGED vars
    <2>1. UNCHANGED <<args, index, undecided, evidence>>
      BY <1>3 DEF HashFails, ProvenanceRaises, Conclude, RehashArchive, Rewrite, vars, found
    <2>2. /\ failures \subseteq failures'
          /\ \A f \in failures' \ failures : f.index = None
      BY <1>3 DEF HashFails, ProvenanceRaises, Conclude, RehashArchive, Rewrite, vars, found
    <2>3. ASSUME NEW i \in Positions PROVE EntriesOf(i)' = EntriesOf(i) /\ CodesOf(i)' = CodesOf(i)
      <3>1. i # None
        BY BundleAssumption DEF Positions
      <3>2. {g \in failures' : g.index = i} = {g \in failures : g.index = i}
        BY <2>2, <3>1
      <3> QED
        BY <2>1, <3>2 DEF EntriesOf, CodesOf
    <2>4. \A i \in Positions : Reported(i) => Reported(i)'
      BY <2>1, <2>3 DEF Reported, Genuine, BySigner
    <2>5. Positions' = Positions
      BY <2>1 DEF Positions
    <2> QED
      BY <2>1, <2>2, <2>4, <2>5 DEF ReportInv
  <1> QED
    BY <1>1, <1>2, <1>3 DEF Next

-----------------------------------------------------------------------------
(* The invariant, and what follows from it *)

\* The invariant holds before the archive is hashed.
LEMMA InitIInv == Init => IInv
  <1> SUFFICES ASSUME Init PROVE IInv
    OBVIOUS
  <1> USE DEF Init, NoResult
  <1>1. TypeOK
    <2>1. undecided \subseteq Positions /\ index \in 1..MaxBundles + 1
      BY BundleAssumption
    <2>2. rewrites \in 0..MaxRewrites
      BY BundleAssumption
    <2>3. flags = <<FALSE, FALSE, FALSE>>
      BY DEF flags
    <2>4. flags \in BOOLEAN \X BOOLEAN \X BOOLEAN
      BY <2>3
    <2> QED
      BY <2>1, <2>2, <2>4 DEF TypeOK
  <1>2. LoopInv /\ StatusInv /\ EvidenceIsGenuine
    BY DEF LoopInv, StatusInv, EvidenceIsGenuine, NoResult
  <1>3. Accepted = {} /\ Unaccepted = {}
    BY DEF Accepted, Unaccepted, Positions
  <1>4. ReportInv
    BY DEF ReportInv, Positions
  <1> QED
    BY <1>1, <1>2, <1>3, <1>4 DEF IInv, FlagInv

\* No step breaks it.
LEMMA NextIInv == IInv /\ [Next]_vars => IInv'
  <1> SUFFICES ASSUME IInv, [Next]_vars PROVE IInv'
    OBVIOUS
  <1>1. TypeOK /\ LoopInv /\ FlagInv /\ StatusInv /\ EvidenceIsGenuine /\ ReportInv
    BY DEF IInv
  <1>2. TypeOK' /\ LoopInv'
    BY <1>1, NextTypeOK, NextLoop
  <1>3. FlagInv' /\ StatusInv' /\ EvidenceIsGenuine' /\ ReportInv'
    BY <1>1, NextFlags, NextStatus, NextEvidence, NextReport
  <1> QED
    BY <1>2, <1>3 DEF IInv

\* So it holds throughout.
LEMMA AlwaysIInv == Spec => []IInv
  BY InitIInv, NextIInv, PTL DEF Spec

\* Behind the last bundle is behind every bundle.
LEMMA AllBehind ==
  ASSUME TypeOK, LoopInv, pc \in {"conclude", "rehash", "done"}
  PROVE  \A i \in Positions : i < index
  <1>1. args.sidecar \in Sidecars
    BY DEF TypeOK, Arguments
  <1>2. Len(args.sidecar) \in Nat
    BY <1>1, SidecarIsSequence, BundleAssumption
  <1> QED
    BY <1>2 DEF LoopInv, Positions

\* Behind the last bundle the flags speak of all of them, and the precedence
\* of verify_bundles is the documented one.
LEMMA FlagsGiveStatus ==
  ASSUME TypeOK, LoopInv, FlagInv, pc \in {"conclude", "rehash", "done"}
  PROVE  Status = DocumentedStatus
  <1>1. \A i \in Positions : i < index
    BY AllBehind
  <1>2. packageVerified <=> \E i \in Positions : Publishes(i) /\ BySigner(i)
    BY <1>1 DEF FlagInv, Accepted
  <1>3. sawUntrustedPublish <=> \E i \in Positions : Publishes(i) /\ ~BySigner(i)
    BY <1>1 DEF FlagInv, Unaccepted
  <1>4. sawUnavailable <=> undecided # {}
    BY DEF FlagInv
  <1>5. CASE packageVerified
    BY <1>2, <1>5 DEF Status, DocumentedStatus
  <1>6. CASE ~packageVerified /\ undecided # {}
    BY <1>2, <1>4, <1>6 DEF Status, DocumentedStatus
  <1>7. CASE ~packageVerified /\ undecided = {}
    BY <1>2, <1>3, <1>4, <1>7 DEF Status, DocumentedStatus
  <1> QED
    BY <1>5, <1>6, <1>7

\* The types of the state hold.
THEOREM TypesAreRight == Spec => []TypeOK
  BY AlwaysIInv, PTL DEF IInv

\* Evidence comes from genuine bundles only.
THEOREM NoEvidenceUnsigned == Spec => []EvidenceIsGenuine
  BY AlwaysIInv, PTL DEF IInv

\* The status is the documented one, in whatever order the bundles stand.
THEOREM StatusIsDocumented == Spec => []StatusAsDocumented
  <1>1. IInv => StatusAsDocumented
    <2> SUFFICES ASSUME IInv, status # "none" PROVE StatusAsDocumented
      BY DEF StatusAsDocumented
    <2>1. pc \in {"rehash", "done"}
      BY DEF IInv, StatusInv, TypeOK
    <2>2. Status = DocumentedStatus
      BY <2>1, FlagsGiveStatus DEF IInv
    <2> QED
      BY <2>1, <2>2 DEF IInv, StatusInv, StatusAsDocumented
  <1> QED
    BY AlwaysIInv, <1>1, PTL

\* Nothing is verified but what a genuine bundle publishes.
THEOREM VerifiedWasPublished == Spec => []VerifiedIsPublished
  <1>1. IInv => VerifiedIsPublished
    <2> SUFFICES ASSUME IInv, pc = "done", status = "verified"
                 PROVE  VerifiedIsPublished
      BY DEF VerifiedIsPublished
    <2>1. status = Status /\ (args.rehash => rehashed = hashed)
      BY DEF IInv, StatusInv
    <2>2. packageVerified
      BY <2>1 DEF Status
    <2>3. PICK i \in Positions : Publishes(i) /\ BySigner(i)
      BY <2>2 DEF IInv, FlagInv, Accepted
    <2> QED
      BY <2>1, <2>3 DEF VerifiedIsPublished, Publishes, PublishesPackage,
         IsPublishStatement, Binds
  <1> QED
    BY AlwaysIInv, <1>1, PTL

\* A result says of every bundle of the sidecar what became of it.
THEOREM BundlesAreReported == Spec => []EveryBundleReported
  <1>1. IInv => EveryBundleReported
    <2> SUFFICES ASSUME IInv, status # "none" PROVE EveryBundleReported
      BY DEF EveryBundleReported
    <2>1. pc \in {"rehash", "done"}
      BY DEF IInv, StatusInv, TypeOK
    <2> QED
      BY <2>1, AllBehind DEF IInv, ReportInv, EveryBundleReported
  <1> QED
    BY AlwaysIInv, <1>1, PTL
=============================================================================
