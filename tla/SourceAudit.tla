------------------------------ MODULE SourceAudit ------------------------------
(***************************************************************************)
(* audit_environment and audit_sources (audit.py): one installed package    *)
(* after another, its publication is verified against the archive that is   *)
(* retained in the package cache, and the source evidence inside that       *)
(* archive is audited from a private snapshot of it, while others overwrite *)
(* the archive in place, replace it or remove it at any step.               *)
(*                                                                         *)
(* An archive is the sequence of its blocks, which also stands for its      *)
(* SHA-256.  What is inside is read once the snapshot has been compared     *)
(* with the verified digest: Malformed for whatever extract_recipe (module  *)
(* SourceArchive) or the parsing of YAML rejects, None without a rendered   *)
(* recipe, or the recipe's sources and the files beside it.                 *)
(***************************************************************************)
EXTENDS SourceRequirements

CONSTANTS
    Block,
    Content,        \* the contents that archives are given
    Inside,         \* what there is in each content
    Replacement,    \* the contents that others put in an archive's place
    Published,      \* the contents that a sidecar can prove to be published
    Environments,   \* the records of a prefix, by name: digest and archive
    MaxArchive,     \* MAX_PACKAGE_ARCHIVE_BYTES, in blocks
    MaxChanges,     \* how often others change an archive
    Empty           \* a digest of no characters

\* A record may have no digest, an empty one, one that is malformed, or one that
\* moreover is not ASCII.
Recorded == Content \cup {None, Empty, Malformed, Uncomparable}

ASSUME AuditAssumption ==
    /\ Content \subseteq Seq(Block)
    /\ Published \subseteq Content /\ Replacement \subseteq Content
    /\ Environments \subseteq
          Seq([sha256 : Recorded, archive : Content \cup {Absent}])
    /\ \A c \in Content : Inside[c] \notin {Malformed, None} => IsRecipe(Inside[c])
    /\ {None, Empty, Malformed, Uncomparable, Absent} \cap Seq(Block) = {}
    /\ None \notin {Empty, Malformed, Uncomparable}
    /\ MaxArchive \in Nat /\ MaxChanges \in Nat

VARIABLES
    pc,
    records,        \* the digest that each record holds, if any
    includeSources,
    index,          \* the record audit_environment has come to
    archive,        \* what is at the path of each record's archive
    changes,
    hashed,         \* artifact_sha256 of the result
    status,         \* its status
    inode,          \* what the file that is open for the snapshot holds
    linked,         \* whether the archive's path still leads to that file
    snapshot,       \* the blocks copied from it
    extracted,      \* the bytes that recipe files were extracted from
    position,       \* the source from_recipe has come to
    declarations,   \* the running count of declarations, after each source
    parsed,         \* history: the declarations that were parsed
    requirements,   \* the sources that requirements were parsed from
    outcomes,       \* how the bundles of the current requirement came out
    results,        \* source_evidence of the current record
    report,         \* packages: the reports of the records so far
    escaped         \* what an exception that ended the audit was about

environment == <<records, includeSources>>
disk        == <<archive, changes>>
result      == <<hashed, status>>
copying     == <<inode, linked, snapshot>>
counting    == <<position, declarations, parsed>>
checking    == <<requirements, outcomes>>
vars == <<pc, environment, index, disk, result, copying, extracted, counting,
          checking, results, report, escaped>>

Init ==
    /\ \E installed \in Environments :
          /\ records = [i \in DOMAIN installed |-> installed[i].sha256]
          /\ archive = [i \in DOMAIN installed |-> installed[i].archive]
    /\ includeSources \in BOOLEAN
    /\ pc = IF records = <<>> THEN "done" ELSE "find"
    /\ index = 1
    /\ changes = 0
    /\ hashed = None /\ status = "none"
    /\ inode = <<>> /\ linked = FALSE /\ snapshot = <<>> /\ extracted = None
    /\ position = 1 /\ declarations = <<>> /\ parsed = 0
    /\ requirements = <<>> /\ outcomes = <<>> /\ results = <<>>
    /\ report = <<>> /\ escaped = "none"

Goto(label)  == pc' = label /\ UNCHANGED escaped
Escape(what) == pc' = "aborted" /\ escaped' = what

-----------------------------------------------------------------------------
(* audit_record.  Just before some definitions stands a faulty variant of
   them, a slip the code could have made; the properties are tried against it. *)

inSources == <<copying, extracted, counting, checking, results>>

Conclude(s) == status' = s /\ Goto("sources")

\* VerificationResult accepts no digest but a well-formed one, or none.
HasUsableDigest == records[index] \notin {Empty, Malformed, Uncomparable}

\* retained_archive asks conda's list of the package cache, which may be out of
\* date either way.
FindArchive ==
    /\ pc = "find" /\ Goto("hash")
    /\ UNCHANGED <<environment, index, disk, result, inSources, report>>

FindNoArchive ==
    /\ pc = "find"
    /\ IF HasUsableDigest
       THEN hashed' = records[index] /\ Conclude("record-digest-only")
       ELSE Escape("digest") /\ UNCHANGED result
    /\ UNCHANGED <<environment, index, disk, inSources, report>>

\* An empty digest is as good as none here.
HashArchive ==
    /\ pc = "hash" /\ archive[index] # Absent
    /\ IF records[index] = Uncomparable THEN Escape("digest") /\ UNCHANGED result
       ELSE /\ hashed' = archive[index]
            /\ IF records[index] \notin {None, Empty, archive[index]}
               THEN Conclude("invalid")
               ELSE Goto("verify") /\ UNCHANGED status
    /\ UNCHANGED <<environment, index, disk, inSources, report>>

\* verify_record_evidence, as RecordEvidence specifies it: verified by a sidecar
\* that proves this digest, some other status, or an exception.
VerifyEvidence ==
    /\ pc = "verify"
    /\ \/ hashed \in Published /\ Conclude("verified")
       \/ Conclude("unverified")
       \/ Escape("comparison") /\ UNCHANGED status
    /\ UNCHANGED <<environment, index, disk, hashed, inSources, report>>

\* A CondaError or an OSError of one record, such as an archive that is listed
\* but gone, becomes the record's result.
RecordFails ==
    /\ pc \in {"find", "hash", "verify"}
    /\ IF HasUsableDigest
       THEN hashed' = records[index] /\ Conclude("evidence-unavailable")
       ELSE Escape("digest") /\ UNCHANGED result
    /\ UNCHANGED <<environment, index, disk, inSources, report>>

-----------------------------------------------------------------------------
(* audit_sources: from the publication to the snapshot *)

NoSources == <<environment, index, disk, result, report>>

\* An early return, or an exception that becomes one result without a source.
SourceFailure(s) ==
    /\ results' = <<[index |-> 0, status |-> s, outcomes |-> <<>>]>>
    /\ Goto("report")

CheckPublication ==
    /\ pc = "sources"
    /\ IF ~includeSources THEN Goto("report") /\ UNCHANGED results
       ELSE IF status # "verified" THEN SourceFailure("evidence-unavailable")
       ELSE Goto("locate") /\ UNCHANGED results
    /\ UNCHANGED <<NoSources, copying, extracted, counting, checking>>

\* The archive is looked up again, which may raise, and is_file asks for it.
Locate ==
    /\ pc = "locate"
    /\ \/ SourceFailure("evidence-unavailable")
       \/ archive[index] # Absent /\ Goto("stat") /\ UNCHANGED results
       \/ Escape("lookup") /\ UNCHANGED results
    /\ UNCHANGED <<NoSources, copying, extracted, counting, checking>>

\* Its size is asked outside of the try statement.
StatArchive ==
    /\ pc = "stat"
    /\ IF archive[index] = Absent THEN Escape("archive") /\ UNCHANGED results
       ELSE IF Len(archive[index]) > MaxArchive
       THEN SourceFailure("evidence-unavailable")
       ELSE Goto("open") /\ UNCHANGED results
    /\ UNCHANGED <<NoSources, copying, extracted, counting, checking>>

OpenArchive ==
    /\ pc = "open" /\ archive[index] # Absent
    /\ inode' = archive[index] /\ linked' = TRUE
    /\ Goto("copy")
    /\ UNCHANGED <<NoSources, snapshot, extracted, counting, checking, results>>

\* One block at a time is read from what the file holds then.
Unlimited == FALSE
TooLarge  == Len(snapshot) + 1 > MaxArchive

CopyBlock ==
    /\ pc = "copy" /\ Len(snapshot) < Len(inode)
    /\ IF TooLarge
       THEN SourceFailure("evidence-unavailable") /\ UNCHANGED snapshot
       ELSE /\ snapshot' = Append(snapshot, inode[Len(snapshot) + 1])
            /\ UNCHANGED <<pc, results, escaped>>
    /\ UNCHANGED <<NoSources, inode, linked, extracted, counting, checking>>

\* At the end of the file the digest of the blocks that were copied must be
\* the one whose publication has been verified.
DigestOfArchive == archive[index]
Digest == snapshot

EndCopy ==
    /\ pc = "copy" /\ Len(snapshot) >= Len(inode)
    /\ IF Digest # hashed THEN SourceFailure("invalid")
       ELSE Goto("extract") /\ UNCHANGED results
    /\ UNCHANGED <<NoSources, copying, extracted, counting, checking>>

\* What a snapshot has inside: one that mixes two contents is malformed.
InsideOf(content) == IF content \in Content THEN Inside[content] ELSE Malformed

ExtractRecipe ==
    /\ pc = "extract"
    /\ LET inside == InsideOf(snapshot) IN
          IF inside \in {Malformed, None}
          THEN /\ SourceFailure(IF inside = None THEN "evidence-unavailable"
                                ELSE "invalid")
               /\ UNCHANGED extracted
          ELSE /\ extracted' = snapshot
               /\ IF Len(inside.sources) > MaxSources THEN SourceFailure("invalid")
                  ELSE Goto("count") /\ UNCHANGED results
    /\ UNCHANGED <<NoSources, copying, counting, checking>>

\* An OSError while the snapshot is made, inspected or read.
SnapshotFails ==
    /\ pc \in {"open", "copy", "extract"}
    /\ SourceFailure("evidence-unavailable")
    /\ UNCHANGED <<NoSources, copying, extracted, counting, checking>>

-----------------------------------------------------------------------------
(* audit_sources: the recipe and the embedded bundles *)

Sources == Inside[extracted].sources
Files   == Inside[extracted].files

InRecipe == <<NoSources, copying, extracted>>

\* from_recipe counts all declarations before it parses the first.
CountOf(source) == Counted(source)
CountSource ==
    /\ pc = "count" /\ position <= Len(Sources)
    /\ LET before == IF position = 1 THEN 0 ELSE declarations[position - 1]
           count  == before + CountOf(Sources[position])
       IN  /\ declarations' = Append(declarations, count)
           /\ IF count > MaxDeclarations
              THEN SourceFailure("invalid") /\ UNCHANGED position
              ELSE position' = position + 1 /\ UNCHANGED <<pc, results, escaped>>
    /\ UNCHANGED <<InRecipe, parsed, checking>>

EndCount ==
    /\ pc = "count" /\ position > Len(Sources)
    /\ position' = 1 /\ Goto("parse")
    /\ UNCHANGED <<InRecipe, declarations, parsed, checking, results>>

\* from_source, one source after another.
ParseSource ==
    /\ pc = "parse" /\ position <= Len(Sources)
    /\ LET requirement == Requirement(Sources[position]) IN
          IF requirement = Malformed
          THEN SourceFailure("invalid") /\ UNCHANGED <<position, requirements>>
          ELSE /\ requirements' =
                     IF requirement = None THEN requirements
                     ELSE Append(requirements, position)
               /\ position' = position + 1
               /\ UNCHANGED <<pc, results, escaped>>
    /\ parsed' = parsed + ParsedItems(Sources[position])
    /\ UNCHANGED <<InRecipe, declarations, outcomes>>

EndParse ==
    /\ pc = "parse" /\ position > Len(Sources)
    /\ Goto("bundles")
    /\ UNCHANGED <<InRecipe, counting, checking, results>>

\* The requirement that is being audited, while there is one.
AtRequirement == pc = "bundles" /\ Len(results) < Len(requirements)
Current       == Requirement(Sources[requirements[Len(results) + 1]])
AtBundle      == AtRequirement /\ Len(outcomes) < Len(Current.bundles)

AuditBundle ==
    /\ AtBundle
    /\ LET verdict == BundleVerdict(Current, Current.bundles[Len(outcomes) + 1],
                                    Files)
       IN  IF verdict = "raised" THEN Escape("comparison") /\ UNCHANGED outcomes
           ELSE outcomes' = Append(outcomes, verdict) /\ UNCHANGED <<pc, escaped>>
    /\ UNCHANGED <<InRecipe, counting, requirements, results>>

\* Trust material is missing, or a file that is there cannot be read.
BundleUnavailable ==
    /\ AtBundle
    /\ Current.bundles[Len(outcomes) + 1].path \in DOMAIN Files
    /\ outcomes' = Append(outcomes, "evidence-unavailable")
    /\ UNCHANGED <<pc, escaped, InRecipe, counting, requirements, results>>

ConcludeRequirement ==
    /\ AtRequirement /\ Len(outcomes) = Len(Current.bundles)
    /\ results' = Append(results,
          [index    |-> requirements[Len(results) + 1],
           status   |-> SourceStatus(Current, outcomes,
                                     Signers(Current, outcomes, Files)),
           outcomes |-> outcomes])
    /\ outcomes' = <<>>
    /\ UNCHANGED <<pc, escaped, InRecipe, counting, requirements>>

EndRequirements ==
    /\ pc = "bundles" /\ Len(results) = Len(requirements)
    /\ Goto("report")
    /\ UNCHANGED <<InRecipe, counting, checking, results>>

-----------------------------------------------------------------------------
(* The loop over the records, and those who change archives meanwhile *)

Entry == [record |-> index, status |-> status, sha256 |-> hashed,
          from |-> extracted, asked |-> includeSources, sources |-> results]

ReportsUnlessFailed ==
    IF status = "evidence-unavailable" THEN report ELSE Append(report, Entry)
Reports == Append(report, Entry)

Report ==
    /\ pc = "report"
    /\ report' = Reports
    /\ index' = index + 1
    /\ Goto(IF index = Len(records) THEN "done" ELSE "find")
    /\ hashed' = None /\ status' = "none"
    /\ inode' = <<>> /\ linked' = FALSE /\ snapshot' = <<>> /\ extracted' = None
    /\ position' = 1 /\ declarations' = <<>> /\ parsed' = 0
    /\ requirements' = <<>> /\ outcomes' = <<>> /\ results' = <<>>
    /\ UNCHANGED <<environment, disk>>

\* An archive that is still to be looked at is overwritten in place, which a
\* file that is open shows, or replaced or removed, which it does not.
ChangeArchive ==
    /\ changes < MaxChanges /\ pc \notin {"done", "aborted"}
    /\ changes' = changes + 1
    /\ \E r \in index..Len(records) :
          \/ \E content \in Replacement :
                /\ archive' = [archive EXCEPT ![r] = content]
                /\ \/ /\ archive[r] # Absent
                      /\ inode' = IF r = index /\ linked THEN content ELSE inode
                      /\ UNCHANGED linked
                   \/ linked' = (linked /\ r # index) /\ UNCHANGED inode
          \/ /\ archive' = [archive EXCEPT ![r] = Absent]
             /\ linked' = (linked /\ r # index) /\ UNCHANGED inode
    /\ UNCHANGED <<pc, environment, index, result, snapshot, extracted, counting,
                   checking, results, report, escaped>>

AuditRecord ==
    \/ FindArchive \/ FindNoArchive \/ HashArchive \/ VerifyEvidence
    \/ RecordFails
AuditSources ==
    \/ CheckPublication \/ Locate \/ StatArchive \/ OpenArchive \/ CopyBlock
    \/ EndCopy \/ ExtractRecipe \/ SnapshotFails
    \/ CountSource \/ EndCount \/ ParseSource \/ EndParse
    \/ AuditBundle \/ BundleUnavailable \/ ConcludeRequirement \/ EndRequirements

Next == AuditRecord \/ AuditSources \/ Report \/ ChangeArchive

Spec == Init /\ [][Next]_vars

-----------------------------------------------------------------------------
(* Properties *)

Labels == {"find", "hash", "verify", "sources", "locate", "stat", "open", "copy",
           "extract", "count", "parse", "bundles", "report", "done", "aborted"}
Statuses == {"verified", "unverified", "invalid", "record-digest-only",
             "evidence-unavailable"}
Verdicts == {"verified", "missing", "invalid", "evidence-unavailable"}
SourceResults == [index : Nat, status : Verdicts \cup {"untrusted-identity"},
                  outcomes : Seq(Verdicts)]
PackageReports == [record : Nat, status : Statuses, sha256 : Content \cup {None},
                   from : Content \cup {None}, asked : BOOLEAN,
                   sources : Seq(SourceResults)]

TypeOK ==
    /\ pc \in Labels
    /\ records \in Seq(Recorded) /\ includeSources \in BOOLEAN
    /\ index \in 1..Len(records) + 1
    /\ archive \in [DOMAIN records -> Content \cup {Absent}]
    /\ changes \in 0..MaxChanges
    /\ hashed \in Content \cup {None} /\ status \in Statuses \cup {"none"}
    /\ inode \in Content \cup {<<>>} /\ linked \in BOOLEAN
    /\ snapshot \in Seq(Block) /\ Len(snapshot) <= MaxArchive
    /\ extracted \in Content \cup {None}
    /\ position \in Nat \ {0} /\ declarations \in Seq(Nat) /\ parsed \in Nat
    /\ requirements \in Seq(Nat) /\ outcomes \in Seq(Verdicts)
    /\ results \in Seq(SourceResults)
    /\ report \in Seq(PackageReports)
    /\ escaped \in {"none", "digest", "comparison", "lookup", "archive"}

\* Source evidence never substitutes for the verification of the publication
\* (docs/reference/source-attestations.md): whatever others do to the archive
\* between its two lookups, and while it is copied, the recipe and bundles in a
\* report come from exactly the bytes that the same report says are verified.
SourcesOfVerifiedBytes ==
    \A i \in DOMAIN report :
        LET entry == report[i] IN
        \/ entry.from = None /\ \A k \in DOMAIN entry.sources : entry.sources[k].index = 0
        \/ /\ entry.status = "verified" /\ entry.from = entry.sha256
           /\ entry.from \in Published /\ records[i] \in {None, Empty, entry.from}

\* What docs/reference/source-attestations.md requires of an embedded bundle
\* that is there, and of a signer that a publisher stands for.
Acceptable(requirement, descriptor, file) ==
    /\ file.sha256 = descriptor.sha256 /\ file.parses /\ file.signed
    /\ file.payload \notin {NotInToto, Malformed}
    /\ requirement.predicateType # None =>
          file.payload.predicateType = requirement.predicateType
    /\ BindsSha256(file.payload, requirement.sha256)

StandsFor(publisher, signer) ==
    LET known == Len(publisher.identity) IN
    /\ publisher.issuer = signer.issuer
    /\ \/ publisher.identity = signer.identity
       \/ /\ publisher.identity[1] = Https /\ known <= Len(signer.identity)
          /\ \A i \in 1..known :
                CaseFold[publisher.identity[i]] = CaseFold[signer.identity[i]]
          /\ \/ known = Len(signer.identity)
             \/ CaseFold[signer.identity[known + 1]] \in {"/", "@"}

\* The status table of docs/reference/json-output.md, over the bundles of a
\* source as a set; some of them could not be decided.
DocumentedStatus(requirement, files, undecided) ==
    LET listed    == DOMAIN requirement.bundles
        path(i)   == requirement.bundles[i].path
        signer(i) == files[path(i)].signer
    IN  IF listed = {} \/ \E i \in listed : path(i) \notin DOMAIN files THEN "missing"
        ELSE IF \E i \in listed \ undecided :
                   ~Acceptable(requirement, requirement.bundles[i], files[path(i)])
        THEN "invalid"
        ELSE IF undecided # {} THEN "evidence-unavailable"
        ELSE IF \E p \in DOMAIN requirement.publishers :
                   \A i \in listed : ~StandsFor(requirement.publishers[p], signer(i))
        THEN "untrusted-identity"
        ELSE "verified"

\* A recipe is reported as one failure, or source by source: then every source
\* with an attestation has its result, in order, with the documented status.
SourceStatusAsDocumented ==
    \A i \in DOMAIN report :
        LET entry   == report[i]
            sources == Inside[entry.from].sources
        IN  (entry.from # None /\ \A k \in DOMAIN entry.sources : entry.sources[k].index # 0)
            => /\ {entry.sources[k].index : k \in DOMAIN entry.sources}
                    = {j \in DOMAIN sources : Requirement(sources[j]) # None}
               /\ \A k \in DOMAIN entry.sources :
                     LET source == entry.sources[k] IN
                     /\ \A l \in 1..k - 1 : entry.sources[l].index < source.index
                     /\ source.status = DocumentedStatus(
                            Requirement(sources[source.index]),
                            Inside[entry.from].files,
                            {j \in DOMAIN source.outcomes :
                                source.outcomes[j] = "evidence-unavailable"})

\* However often a recipe repeats its sources, and whatever in it is malformed,
\* no more declarations than MAX_RECIPE_DECLARATIONS are parsed, and no more
\* bundles than that are verified, for one package.
DeclarationsAreBounded ==
    parsed <= MaxDeclarations

\* The report says something of every package, in order, and something of the
\* sources of each if it was asked for them.  An audit that ends without a
\* report does so for what cannot be reported, and for nothing else that is
\* missing, unreadable, malformed or different.
ReportIsComplete ==
    /\ pc = "done" => Len(report) = Len(records)
    /\ \A i \in DOMAIN report :
          LET entry == report[i] IN
          /\ entry.record = i
          /\ IF entry.asked /\ entry.from = None THEN Len(entry.sources) = 1
             ELSE ~entry.asked => entry.sources = <<>>
    /\ pc = "aborted" =>
          CASE escaped = "digest" -> records[index] \in {Empty, Malformed, Uncomparable}
            [] escaped = "comparison" -> hashed \in Content
            [] escaped \in {"lookup", "archive"} ->
                  includeSources /\ status = "verified" /\ extracted = None

\* docs/reference/source-attestations.md: "A missing or unreadable archive
\* produces `evidence-unavailable`", as the result of the package it is missing
\* for; here: it does not end the audit of all packages.
MissingArchiveIsUnavailable == escaped # "archive"
=============================================================================
