------------------------------ MODULE Statements ------------------------------
(***************************************************************************)
(* statements.py and provenance.py: what an authenticated in-toto statement *)
(* must say to be accepted as the CEP 27 publish attestation, or as the     *)
(* SLSA provenance, of one package archive.                                 *)
(*                                                                         *)
(* A statement is a record: its predicateType, its subjects (a sequence of  *)
(* a name and a digest map), and its predicate, which is None, Malformed,   *)
(* the targetChannel it declares, or some other object.  A statement that   *)
(* is not unambiguous in-toto Statement v1 JSON is Malformed as a whole.    *)
(***************************************************************************)
EXTENDS Naturals, Sequences

CONSTANTS
    PackageName,    \* filenames that name a conda package
    Channel,        \* target channels that are valid, credential-free URLs
    Malformed,      \* a value that does not have the form required of it
    Uncomparable,   \* a text that compare_digest raises at: it is not ASCII
    None

Publish == "publish"
Slsa    == "slsa"
Other   == "other"    \* any other predicateType

\* InTotoStatement.subjects: a nonempty list of well-formed subjects.
HasSubjects(st) ==
    Len(st.subjects) > 0 /\ \A i \in DOMAIN st.subjects : st.subjects[i] # Malformed

\* PublishStatement.from_statement and __post_init__: exactly one subject,
\* named like a package and digested by sha256 alone, and a predicate that is
\* null or declares a target channel.
IsPublishStatement(st) ==
    /\ HasSubjects(st)
    /\ Len(st.subjects) = 1
    /\ st.subjects[1].name \in PackageName
    /\ DOMAIN st.subjects[1].digest = {"sha256"}
    /\ st.predicate \in Channel \cup {None}

\* PublishStatement.bind: the statement is about this filename and digest,
\* and any channel it declares is the one supplied, if one was.  A supplied
\* channel that is not a valid target channel fails a statement that declares
\* one, and is not looked at otherwise.
Binds(st, name, sha256, channel) ==
    /\ name \in PackageName
    /\ st.subjects[1].name = name
    /\ st.subjects[1].digest["sha256"] = sha256
    /\ st.predicate # None => channel \in {None, st.predicate}

PublishesPackage(st, name, sha256, channel) ==
    IsPublishStatement(st) /\ Binds(st, name, sha256, channel)

\* subject.digest.get("sha256", ""), compared with a digest.
HasSha256(subject, sha256) ==
    "sha256" \in DOMAIN subject.digest /\ subject.digest["sha256"] = sha256

\* any() over the subjects of a statement: some subject has the digest,
\* whatever its name.  Subjects are compared in their order until one has it;
\* a text that cannot be compared ends the comparison with a TypeError.
BindsSha256(st, sha256) ==
    HasSubjects(st) /\ \E i \in DOMAIN st.subjects : HasSha256(st.subjects[i], sha256)

ComparisonRaises(st, sha256) ==
    /\ HasSubjects(st)
    /\ \E i \in DOMAIN st.subjects :
          /\ HasSha256(st.subjects[i], Uncomparable)
          /\ \A j \in 1..i - 1 : ~HasSha256(st.subjects[j], sha256)

\* verify_bundles and SlsaProvenance.from_statement: some subject has the
\* archive's digest, and the predicate is well formed.
ProvenanceOf(st, sha256) ==
    BindsSha256(st, sha256) /\ st.predicate \notin {None, Malformed}
=============================================================================
