--------------------------- MODULE SourceAuditProofs ---------------------------
(* Theorems about SourceAudit, for prefixes of any size, archives and recipes of
   any form, and any number of changes to the archives. *)
EXTENDS SourceAudit, TLAPS

-----------------------------------------------------------------------------
(* Lemmas about recipes *)

\* No more declarations are parsed of a source than are counted for it.
LEMMA ParsedAtMostCounted ==
    ASSUME NEW recipe, IsRecipe(recipe), NEW i \in DOMAIN recipe.sources
    PROVE  /\ Counted(recipe.sources[i]) \in Nat
           /\ ParsedItems(recipe.sources[i]) \in 0..Counted(recipe.sources[i])
<1> DEFINE source == recipe.sources[i]
<1>1. CASE source = Malformed \/ source.attestation \in {None, Malformed}
    BY <1>1 DEF Counted, ParsedItems
<1>2. CASE ~(source = Malformed \/ source.attestation \in {None, Malformed})
    <2> DEFINE publishers == ListLength(source.attestation.publishers)
               bundles    == ListLength(source.attestation.verified)
    <2>1. publishers \in Nat /\ bundles \in Nat
        BY <1>2 DEF IsRecipe, IsAttestation, IsList, ListLength
    <2>2. Counted(source) = publishers + bundles
        BY <1>2 DEF Counted
    <2>3. ParsedItems(source) = IF publishers > MaxPublishers THEN 0
                                ELSE publishers + IF bundles > MaxBundles THEN 0 ELSE bundles
        BY <1>2 DEF ParsedItems
    <2> HIDE DEF publishers, bundles
    <2>4. ParsedItems(source) \in {0, publishers, publishers + bundles}
        BY <2>1, <2>3
    <2> QED
        BY <2>1, <2>2, <2>4
<1> QED
    BY <1>1, <1>2

\* A bundle has one of the verdicts, unless a comparison raises.
LEMMA VerdictIsVerdict ==
    ASSUME NEW requirement, NEW descriptor, NEW recipeFiles
    PROVE  BundleVerdict(requirement, descriptor, recipeFiles) \in Verdicts \cup {"raised"}
BY DEF BundleVerdict, Verdicts

LEMMA StatusIsStatus ==
    ASSUME NEW requirement, NEW found, NEW signers
    PROVE  SourceStatus(requirement, found, signers) \in Verdicts \cup {"untrusted-identity"}
BY DEF SourceStatus, Verdicts

-----------------------------------------------------------------------------
(* Types and stages *)

\* What is known at each stage of a record.
Staged ==
    /\ pc # "done" => index \in DOMAIN records
    /\ pc \in {"sources", "locate", "stat", "open", "copy", "extract", "count",
               "parse", "bundles", "report"} => status \in Statuses
    /\ pc \in {"hash", "verify"} => status = "none"
    /\ pc = "find" => status = "none" /\ hashed = None
    /\ pc = "verify" => hashed \in Content
    /\ pc \in {"count", "parse", "bundles"} => extracted # None
    /\ extracted # None => extracted \in Content /\ Inside[extracted] \notin {Malformed, None}
    /\ pc \notin {"parse", "bundles", "report", "aborted"} =>
          Len(declarations) = position - 1
    /\ pc # "aborted" <=> escaped = "none"

Typed == TypeOK /\ Staged

LEMMA RecipeIsRecipe ==
    ASSUME Typed, extracted # None
    PROVE  /\ IsRecipe(Inside[extracted])
           /\ Len(Sources) \in Nat /\ DOMAIN Sources = 1..Len(Sources)
<1>1. IsRecipe(Inside[extracted])
    BY AuditAssumption DEF Typed, TypeOK, Staged
<1> QED
    BY <1>1 DEF IsRecipe, IsList, Sources

LEMMA ElementOfSeq ==
    ASSUME NEW S, NEW s \in Seq(S), NEW i \in DOMAIN s
    PROVE  s[i] \in S
OBVIOUS

LEMMA InitTyped == Init => Typed
<1> SUFFICES ASSUME Init PROVE Typed
    OBVIOUS
<1>1. PICK installed \in Environments :
          /\ records = [i \in DOMAIN installed |-> installed[i].sha256]
          /\ archive = [i \in DOMAIN installed |-> installed[i].archive]
    BY DEF Init
<1>2. installed \in Seq([sha256 : Recorded, archive : Content \cup {Absent}])
    BY AuditAssumption
<1>a. \A i \in DOMAIN installed :
          installed[i] \in [sha256 : Recorded, archive : Content \cup {Absent}]
    BY <1>2, ElementOfSeq
<1>b. \A i \in DOMAIN installed :
          installed[i].sha256 \in Recorded /\ installed[i].archive \in Content \cup {Absent}
    BY <1>a
<1>3. /\ records \in Seq(Recorded) /\ Len(records) \in Nat
      /\ DOMAIN records = DOMAIN installed /\ DOMAIN records = 1..Len(records)
    <2>1. Len(installed) \in Nat /\ DOMAIN installed = 1..Len(installed)
        BY <1>2
    <2>2. records \in [1..Len(installed) -> Recorded]
        BY <1>1, <1>b, <2>1
    <2>3. records \in Seq(Recorded)
        BY <2>1, <2>2
    <2> QED
        BY <2>1, <2>2, <2>3
<1>4. archive \in [DOMAIN records -> Content \cup {Absent}]
    BY <1>1, <1>3, <1>b
<1>5. index \in 1..Len(records) + 1 /\ pc \in Labels
      /\ (pc # "done" => index \in DOMAIN records)
    BY <1>3 DEF Init, Labels
<1>6. /\ <<>> \in Seq(Block) /\ Len(<<>>) = 0 /\ MaxArchive \in Nat /\ MaxChanges \in Nat
    BY AuditAssumption
<1>7. /\ <<>> \in Seq(Nat) /\ <<>> \in Seq(Verdicts)
      /\ <<>> \in Seq(SourceResults) /\ <<>> \in Seq(PackageReports)
      /\ 0 \in 0..MaxChanges /\ Len(<<>>) <= MaxArchive
    BY <1>6
<1>8. TypeOK
    <2>1. /\ requirements \in Seq(Nat) /\ outcomes \in Seq(Verdicts)
          /\ results \in Seq(SourceResults) /\ report \in Seq(PackageReports)
          /\ declarations \in Seq(Nat)
        BY <1>7 DEF Init
    <2>2. snapshot \in Seq(Block) /\ Len(snapshot) <= MaxArchive
        BY <1>6, <1>7 DEF Init
    <2>3. hashed \in Content \cup {None} /\ status \in Statuses \cup {"none"}
        BY <1>7 DEF Init
    <2>4. inode \in Content \cup {<<>>} /\ linked \in BOOLEAN
        BY <1>7 DEF Init
    <2>5. extracted \in Content \cup {None}
        BY <1>7 DEF Init
    <2>7. position \in Nat \ {0} /\ parsed \in Nat
        BY <1>7 DEF Init
    <2>6. /\ includeSources \in BOOLEAN /\ changes \in 0..MaxChanges
          /\ escaped \in {"none", "digest", "comparison", "lookup", "archive"}
        BY <1>7 DEF Init
    <2> QED
        BY <1>3, <1>4, <1>5, <2>1, <2>2, <2>3, <2>4, <2>5, <2>7, <2>6 DEF TypeOK
<1>9. Staged
    BY <1>5 DEF Init, Staged
<1> QED
    BY <1>8, <1>9 DEF Typed

LEMMA NextTyped == Typed /\ [Next]_vars => Typed'
<1> SUFFICES ASSUME Typed, [Next]_vars PROVE Typed'
    OBVIOUS
<1> USE DEF Typed, TypeOK, Staged, Labels, environment, disk, result, copying, counting,
            checking, inSources, NoSources, InRecipe, Goto, Escape, Conclude,
            SourceFailure, HasUsableDigest
<1>0. /\ Content \subseteq Seq(Block) /\ Published \subseteq Content
      /\ Replacement \subseteq Content /\ None \notin Content /\ <<>> \in Seq(Block)
      /\ MaxArchive \in Nat /\ MaxChanges \in Nat
    BY AuditAssumption
<1>s. \A s \in Verdicts \cup {"untrusted-identity"} :
          <<[index |-> 0, status |-> s, outcomes |-> <<>>]>> \in Seq(SourceResults)
    BY DEF SourceResults
<1>1. CASE FindArchive
    BY <1>1 DEF FindArchive
<1>2. CASE FindNoArchive
    BY <1>2 DEF FindNoArchive, Recorded, Statuses
<1>3. CASE HashArchive
    BY <1>3 DEF HashArchive, Recorded, Statuses
<1>4. CASE VerifyEvidence
    BY <1>4 DEF VerifyEvidence, Statuses
<1>5. CASE RecordFails
    <2>1. pc \in {"find", "hash", "verify"} /\ index \in DOMAIN records
              /\ records[index] \in Recorded /\ extracted = extracted'
        BY <1>5 DEF RecordFails
    <2>2. CASE HasUsableDigest
        BY <1>5, <2>1, <2>2 DEF RecordFails, Recorded, Statuses
    <2>3. CASE ~HasUsableDigest
        BY <1>5, <2>1, <2>3 DEF RecordFails
    <2> QED
        BY <2>2, <2>3
<1>6. CASE CheckPublication
    BY <1>6, <1>s DEF CheckPublication, Verdicts
<1>7. CASE Locate
    BY <1>7, <1>s DEF Locate, Verdicts
<1>8. CASE StatArchive
    BY <1>8, <1>s DEF StatArchive, Verdicts
<1>9. CASE OpenArchive
    BY <1>9 DEF OpenArchive
<1>10. CASE CopyBlock
    <2>1. CASE TooLarge
        BY <1>0, <1>10, <1>s, <2>1 DEF CopyBlock, Verdicts
    <2>2. CASE ~TooLarge
        <3>1. inode \in Seq(Block) /\ Len(snapshot) + 1 \in DOMAIN inode
            BY <1>0, <1>10 DEF CopyBlock
        <3>2. /\ snapshot' = Append(snapshot, inode[Len(snapshot) + 1])
              /\ UNCHANGED <<pc, results, escaped>>
            BY <1>10, <2>2 DEF CopyBlock
        <3>3. snapshot' \in Seq(Block) /\ Len(snapshot') <= MaxArchive
            BY <1>0, <2>2, <3>1, <3>2 DEF TooLarge
        <3> QED
            BY <1>10, <3>2, <3>3 DEF CopyBlock
    <2> QED
        BY <2>1, <2>2
<1>11. CASE EndCopy
    BY <1>11, <1>s DEF EndCopy, Verdicts
<1>12. CASE ExtractRecipe
    BY <1>0, <1>12, <1>s DEF ExtractRecipe, InsideOf, Verdicts
<1>13. CASE SnapshotFails
    BY <1>13, <1>s DEF SnapshotFails, Verdicts
<1>14. CASE CountSource
    <2>1. pc = "count" /\ position \in DOMAIN Sources
        BY <1>14, RecipeIsRecipe DEF CountSource
    <2>2. CountOf(Sources[position]) \in Nat
        BY <2>1, RecipeIsRecipe, ParsedAtMostCounted DEF CountOf, Sources
    <2> DEFINE before == IF position = 1 THEN 0 ELSE declarations[position - 1]
               count  == before + CountOf(Sources[position])
    <2>3. /\ declarations' = Append(declarations, count)
          /\ IF count > MaxDeclarations
             THEN SourceFailure("invalid") /\ UNCHANGED position
             ELSE position' = position + 1 /\ UNCHANGED <<pc, results, escaped>>
          /\ UNCHANGED <<InRecipe, parsed, checking>>
        BY <1>14 DEF CountSource
    <2>4. count \in Nat
        <3>1. position = 1 \/ position - 1 \in DOMAIN declarations
            BY <2>1
        <3>2. before \in Nat
            BY <3>1
        <3> HIDE DEF before
        <3> QED
            BY <2>2, <3>2
    <2> HIDE DEF count
    <2>5. declarations' \in Seq(Nat)
        BY <2>3, <2>4
    <2>6. CASE count > MaxDeclarations
        BY <1>s, <2>1, <2>3, <2>5, <2>6 DEF Verdicts
    <2>7. CASE ~(count > MaxDeclarations)
        BY <2>1, <2>3, <2>5, <2>7
    <2> QED
        BY <2>6, <2>7
<1>15. CASE EndCount
    BY <1>15 DEF EndCount
<1>16. CASE ParseSource
    <2>1. pc = "parse" /\ position \in DOMAIN Sources
        BY <1>16, RecipeIsRecipe DEF ParseSource
    <2>2. ParsedItems(Sources[position]) \in Nat
        <3>1. IsRecipe(Inside[extracted])
            BY <2>1, RecipeIsRecipe
        <3> QED
            BY <2>1, <3>1, ParsedAtMostCounted DEF Sources
    <2>3. parsed' \in Nat
        BY <1>16, <2>2 DEF ParseSource
    <2>4. CASE Requirement(Sources[position]) = Malformed
        BY <1>16, <1>s, <2>1, <2>3, <2>4 DEF ParseSource, Verdicts
    <2>5. CASE Requirement(Sources[position]) # Malformed
        <3>1. /\ requirements' = requirements \/ requirements' = Append(requirements, position)
              /\ position' = position + 1
              /\ UNCHANGED <<pc, results, escaped, InRecipe, declarations, outcomes>>
            BY <1>16, <2>5 DEF ParseSource
        <3>2. Append(requirements, position) \in Seq(Nat) /\ requirements \in Seq(Nat)
            OBVIOUS
        <3>3. requirements' \in Seq(Nat)
            BY <3>1, <3>2
        <3> QED
            BY <2>1, <2>3, <3>1, <3>3
    <2> QED
        BY <2>4, <2>5
<1>17. CASE EndParse
    BY <1>17 DEF EndParse
<1>18. CASE AuditBundle
    <2> DEFINE verdict == BundleVerdict(Current, Current.bundles[Len(outcomes) + 1], Files)
    <2>1. verdict \in Verdicts \cup {"raised"}
        BY VerdictIsVerdict
    <2>2. /\ pc = "bundles"
          /\ IF verdict = "raised" THEN Escape("comparison") /\ UNCHANGED outcomes
             ELSE outcomes' = Append(outcomes, verdict) /\ UNCHANGED <<pc, escaped>>
          /\ UNCHANGED <<InRecipe, counting, requirements, results>>
        BY <1>18 DEF AuditBundle, AtBundle, AtRequirement
    <2> HIDE DEF verdict
    <2>3. CASE verdict = "raised"
        BY <2>2, <2>3
    <2>4. CASE verdict \in Verdicts
        <3>1. verdict # "raised"
            BY <2>4 DEF Verdicts
        <3>a. outcomes' = Append(outcomes, verdict) /\ UNCHANGED <<pc, escaped>>
            BY <2>2, <3>1
        <3>2. outcomes' \in Seq(Verdicts) /\ UNCHANGED <<pc, escaped>>
            BY <2>4, <3>a
        <3> QED
            BY <2>2, <3>2
    <2> QED
        BY <2>1, <2>3, <2>4
<1>19. CASE BundleUnavailable
    BY <1>19 DEF BundleUnavailable, AtBundle, AtRequirement, Verdicts
<1>20. CASE ConcludeRequirement
    BY <1>20, StatusIsStatus DEF ConcludeRequirement, AtRequirement, SourceResults
<1>21. CASE EndRequirements
    BY <1>21 DEF EndRequirements
<1>22. CASE Report
    <2>1. pc = "report" /\ index \in DOMAIN records /\ status \in Statuses
        BY <1>22 DEF Report
    <2>2. Entry \in PackageReports
        BY <2>1 DEF Entry, PackageReports
    <2>3. report' = Append(report, Entry)
        BY <1>22 DEF Report, Reports
    <2> HIDE DEF Entry
    <2>4. report' \in Seq(PackageReports)
        BY <2>2, <2>3
    <2>5. /\ index' = index + 1
          /\ pc' = IF index = Len(records) THEN "done" ELSE "find"
          /\ UNCHANGED <<escaped, environment, disk>>
        BY <1>22 DEF Report
    <2>6. index' \in 1..Len(records) + 1 /\ (pc' # "done" => index' \in DOMAIN records)
        BY <2>1, <2>5
    <2>7. /\ hashed' = None /\ status' = "none" /\ inode' = <<>> /\ linked' = FALSE
          /\ snapshot' = <<>> /\ extracted' = None
          /\ position' = 1 /\ declarations' = <<>> /\ parsed' = 0
          /\ requirements' = <<>> /\ outcomes' = <<>> /\ results' = <<>>
        BY <1>22 DEF Report
    <2>10. /\ <<>> \in Seq(Nat) /\ <<>> \in Seq(Verdicts)
          /\ <<>> \in Seq(SourceResults) /\ <<>> \in Seq(PackageReports)
        OBVIOUS
    <2>11. /\ pc' \in Labels /\ records' \in Seq(Recorded) /\ includeSources' \in BOOLEAN
          /\ index' \in 1..Len(records') + 1
          /\ archive' \in [DOMAIN records' -> Content \cup {Absent}]
          /\ changes' \in 0..MaxChanges
          /\ escaped' \in {"none", "digest", "comparison", "lookup", "archive"}
        BY <2>5, <2>6
    <2>12. snapshot' \in Seq(Block) /\ Len(snapshot') <= MaxArchive
        BY <1>0, <2>7
    <2>17. /\ requirements' \in Seq(Nat) /\ outcomes' \in Seq(Verdicts)
          /\ results' \in Seq(SourceResults) /\ declarations' \in Seq(Nat)
        BY <2>7, <2>10
    <2>13. hashed' \in Content \cup {None} /\ status' \in Statuses \cup {"none"}
        BY <2>7
    <2>14. inode' \in Content \cup {<<>>} /\ linked' \in BOOLEAN
        BY <2>7
    <2>15. extracted' \in Content \cup {None}
        BY <2>7
    <2>16. position' \in Nat \ {0} /\ parsed' \in Nat
        BY <2>7
    <2>8. TypeOK'
        BY <2>4, <2>11, <2>12, <2>17, <2>13, <2>14, <2>15, <2>16
    <2>9. Staged'
        BY <2>1, <2>5, <2>6, <2>7
    <2> QED
        BY <2>8, <2>9
<1>23. CASE ChangeArchive
    <2>1. PICK r \in index..Len(records) :
          \/ \E content \in Replacement :
                /\ archive' = [archive EXCEPT ![r] = content]
                /\ \/ /\ inode' = IF r = index /\ linked THEN content ELSE inode
                      /\ UNCHANGED linked
                   \/ linked' = (linked /\ r # index) /\ UNCHANGED inode
          \/ /\ archive' = [archive EXCEPT ![r] = Absent]
             /\ linked' = (linked /\ r # index) /\ UNCHANGED inode
        BY <1>23 DEF ChangeArchive
    <2>2. archive' \in [DOMAIN records -> Content \cup {Absent}]
        BY <1>0, <2>1
    <2>3. inode' \in Content \cup {<<>>} /\ linked' \in BOOLEAN
        BY <1>0, <2>1
    <2>4. changes' \in 0..MaxChanges
        BY <1>0, <1>23 DEF ChangeArchive
    <2> QED
        BY <1>23, <2>2, <2>3, <2>4 DEF ChangeArchive
<1>24. CASE UNCHANGED vars
    BY <1>24 DEF vars
<1> QED
    BY <1>1, <1>2, <1>3, <1>4, <1>5, <1>6, <1>7, <1>8, <1>9, <1>10, <1>11, <1>12,
       <1>13, <1>14, <1>15, <1>16, <1>17, <1>18, <1>19, <1>20, <1>21, <1>22, <1>23,
       <1>24 DEF Next, AuditRecord, AuditSources

\* The state keeps its types; the copy of an archive never grows past its limit.
THEOREM TypesAreRight == Spec => []TypeOK
<1>1. Typed => TypeOK
    BY DEF Typed
<1> QED
    BY <1>1, InitTyped, NextTyped, PTL DEF Spec

-----------------------------------------------------------------------------
(* Where source evidence comes from, and what is reported *)

\* Of the record that is being audited: the digest that is verified, the bytes
\* that are inspected, and what becomes of them.
Traced ==
    /\ pc = "verify" => records[index] \in {None, Empty, hashed}
    /\ status = "verified" => hashed \in Published /\ records[index] \in {None, Empty, hashed}
    /\ pc \in {"locate", "stat", "open", "copy", "extract", "count", "parse", "bundles"}
          => status = "verified" /\ includeSources
    /\ pc = "extract" => snapshot = hashed
    /\ extracted # None => status = "verified" /\ extracted = hashed /\ includeSources
    /\ pc \in {"find", "hash", "verify", "sources", "locate", "stat", "open", "copy",
               "extract"} => extracted = None /\ results = <<>>
    /\ pc \in {"count", "parse"} => results = <<>>
    /\ extracted = None => \A k \in DOMAIN results : results[k].index = 0
    /\ pc = "report" =>
          /\ includeSources /\ extracted = None => Len(results) = 1
          /\ ~includeSources => results = <<>>
    /\ pc = "aborted" =>
          /\ escaped = "digest" => records[index] \in {Empty, Malformed, Uncomparable}
          /\ escaped = "comparison" => hashed \in Content
          /\ escaped \in {"lookup", "archive"} =>
                includeSources /\ status = "verified" /\ extracted = None

\* Of the records before it.
Told ==
    /\ Len(report) = index - 1
    /\ pc = "done" => index = Len(records) + 1
    /\ \A i \in DOMAIN report :
          /\ report[i].record = i
          /\ report[i].asked /\ report[i].from = None => Len(report[i].sources) = 1
          /\ ~report[i].asked => report[i].sources = <<>>
    /\ SourcesOfVerifiedBytes

LEMMA InitTraced == Init => Traced /\ Told
<1> SUFFICES ASSUME Init PROVE Traced /\ Told
    OBVIOUS
<1>1. Typed
    BY InitTyped
<1>2. report = <<>> /\ index = 1 /\ results = <<>> /\ (pc = "done" => records = <<>>)
        /\ pc \in {"find", "done"} /\ status = "none" /\ extracted = None
    BY DEF Init
<1>3. pc = "done" => index = Len(records) + 1
    BY <1>2
<1>4. Traced
    BY <1>2 DEF Traced
<1> QED
    BY <1>2, <1>3, <1>4 DEF Told, SourcesOfVerifiedBytes

LEMMA NextTraced == Typed /\ Traced /\ [Next]_vars => Traced'
<1> SUFFICES ASSUME Typed, Traced, [Next]_vars PROVE Traced'
    OBVIOUS
<1> USE DEF Traced, environment, disk, result, copying, counting, checking, inSources,
            NoSources, InRecipe, Goto, Escape, Conclude, SourceFailure
<1>0. /\ Published \subseteq Content /\ None \notin Content
      /\ index \in DOMAIN records \/ pc = "done"
      /\ pc = "verify" => hashed \in Content
      /\ extracted # None => extracted \in Content
      /\ pc \in {"count", "parse", "bundles"} => extracted # None
      /\ pc = "find" => status = "none"
      /\ pc \in {"hash", "verify"} => status = "none"
    BY AuditAssumption DEF Typed, TypeOK, Staged
<1>s. \A s : LET failure == <<[index |-> 0, status |-> s, outcomes |-> <<>>]>> IN
          Len(failure) = 1 /\ \A k \in DOMAIN failure : failure[k].index = 0
    OBVIOUS
<1>1. CASE FindArchive
    BY <1>0, <1>1 DEF FindArchive
<1>2. CASE FindNoArchive
    BY <1>0, <1>2 DEF FindNoArchive, HasUsableDigest
<1>3. CASE HashArchive
    BY <1>0, <1>3 DEF HashArchive
<1>4. CASE VerifyEvidence
    BY <1>0, <1>4 DEF VerifyEvidence
<1>5. CASE RecordFails
    BY <1>0, <1>5 DEF RecordFails, HasUsableDigest
<1>6. CASE CheckPublication
    BY <1>0, <1>6, <1>s DEF CheckPublication
<1>7. CASE Locate
    BY <1>0, <1>7, <1>s DEF Locate
<1>8. CASE StatArchive
    BY <1>0, <1>8, <1>s DEF StatArchive
<1>9. CASE OpenArchive
    BY <1>0, <1>9 DEF OpenArchive
<1>10. CASE CopyBlock
    BY <1>0, <1>10, <1>s DEF CopyBlock
<1>11. CASE EndCopy
    BY <1>0, <1>11, <1>s DEF EndCopy, Digest
<1>12. CASE ExtractRecipe
    BY <1>0, <1>12, <1>s DEF ExtractRecipe
<1>13. CASE SnapshotFails
    BY <1>0, <1>13, <1>s DEF SnapshotFails
<1>14. CASE CountSource
    BY <1>0, <1>14, <1>s DEF CountSource
<1>15. CASE EndCount
    BY <1>0, <1>15 DEF EndCount
<1>16. CASE ParseSource
    BY <1>0, <1>16, <1>s DEF ParseSource
<1>17. CASE EndParse
    BY <1>0, <1>17 DEF EndParse
<1>18. CASE AuditBundle
    BY <1>0, <1>18 DEF AuditBundle, AtBundle, AtRequirement
<1>19. CASE BundleUnavailable
    BY <1>0, <1>19 DEF BundleUnavailable, AtBundle, AtRequirement
<1>20. CASE ConcludeRequirement
    BY <1>0, <1>20 DEF ConcludeRequirement, AtRequirement
<1>21. CASE EndRequirements
    BY <1>0, <1>21 DEF EndRequirements
<1>22. CASE Report
    BY <1>0, <1>22 DEF Report
<1>23. CASE ChangeArchive
    BY <1>0, <1>23 DEF ChangeArchive
<1>24. CASE UNCHANGED vars
    BY <1>24 DEF vars
<1> QED
    BY <1>1, <1>2, <1>3, <1>4, <1>5, <1>6, <1>7, <1>8, <1>9, <1>10, <1>11, <1>12,
       <1>13, <1>14, <1>15, <1>16, <1>17, <1>18, <1>19, <1>20, <1>21, <1>22, <1>23,
       <1>24 DEF Next, AuditRecord, AuditSources

\* Only Report writes the report or goes on to another record.
LEMMA ReportIsKept ==
    ASSUME [Next]_vars, ~Report
    PROVE  UNCHANGED <<report, index, records>> /\ (pc' = "done" => pc = "done")
BY DEF Next, AuditRecord, AuditSources, vars, environment, disk, result, copying, counting,
       checking, inSources, NoSources, InRecipe, Goto, Escape, Conclude, SourceFailure,
       FindArchive, FindNoArchive, HashArchive, VerifyEvidence, RecordFails,
       CheckPublication, Locate, StatArchive, OpenArchive, CopyBlock, EndCopy,
       ExtractRecipe, SnapshotFails, CountSource, EndCount, ParseSource, EndParse,
       AuditBundle, BundleUnavailable, ConcludeRequirement, EndRequirements, ChangeArchive

LEMMA NextTold == Typed /\ Traced /\ Told /\ [Next]_vars => Told'
<1> SUFFICES ASSUME Typed, Traced, Told, [Next]_vars PROVE Told'
    OBVIOUS
<1>1. CASE ~Report
    BY <1>1, ReportIsKept DEF Told, SourcesOfVerifiedBytes
<1>2. CASE Report
    <2>1. /\ pc = "report" /\ report' = Append(report, Entry) /\ index' = index + 1
          /\ pc' = IF index = Len(records) THEN "done" ELSE "find"
          /\ UNCHANGED records
        BY <1>2 DEF Report, Reports, Goto, environment
    <2>2. /\ report \in Seq(PackageReports) /\ index \in Nat /\ Len(report) = index - 1
        BY DEF Typed, TypeOK, Told
    <2>3. /\ Len(report') = index' - 1 /\ DOMAIN report' = DOMAIN report \cup {index}
          /\ report'[index] = Entry /\ \A i \in DOMAIN report : report'[i] = report[i]
        BY <2>1, <2>2
    <2>4. /\ Entry.record = index
          /\ Entry.asked /\ Entry.from = None => Len(Entry.sources) = 1
          /\ ~Entry.asked => Entry.sources = <<>>
        <3>1. /\ Entry.record = index /\ Entry.asked = includeSources
              /\ Entry.from = extracted /\ Entry.sources = results
            BY DEF Entry
        <3> HIDE DEF Entry
        <3>2. /\ includeSources /\ extracted = None => Len(results) = 1
              /\ ~includeSources => results = <<>>
            BY <2>1 DEF Traced
        <3> QED
            BY <3>1, <3>2
    <2>5. \/ Entry.from = None /\ \A k \in DOMAIN Entry.sources : Entry.sources[k].index = 0
          \/ /\ Entry.status = "verified" /\ Entry.from = Entry.sha256
             /\ Entry.from \in Published /\ records[index] \in {None, Empty, Entry.from}
        BY <2>1 DEF Entry, Traced
    <2> HIDE DEF Entry
    <2>6. SourcesOfVerifiedBytes'
        BY <2>1, <2>3, <2>5 DEF Told, SourcesOfVerifiedBytes
    <2> QED
        BY <2>1, <2>2, <2>3, <2>4, <2>6 DEF Told
<1> QED
    BY <1>1, <1>2

\* For any prefix, and whatever others do to the archives meanwhile: a report has
\* source evidence of no other bytes than those it says are verified.
THEOREM SourcesAreOfVerifiedBytes == Spec => []SourcesOfVerifiedBytes
<1>1. Told => SourcesOfVerifiedBytes
    BY DEF Told
<1> QED
    BY <1>1, InitTyped, InitTraced, NextTyped, NextTraced, NextTold, PTL DEF Spec

\* An audit that ends reports every package, with what it was asked for; one
\* that is ended by an exception is ended by one of the known kinds.
THEOREM ReportsAreComplete == Spec => []ReportIsComplete
<1>1. Typed /\ Traced /\ Told => ReportIsComplete
    <2> SUFFICES ASSUME Typed, Traced, Told PROVE ReportIsComplete
        OBVIOUS
    <2>1. index \in Nat /\ (pc = "done" => Len(report) = Len(records))
        BY DEF Typed, TypeOK, Told
    <2>2. pc = "aborted" => escaped \in {"digest", "comparison", "lookup", "archive"}
        BY DEF Typed, TypeOK, Staged
    <2> QED
        BY <2>1, <2>2 DEF ReportIsComplete, Told, Traced
<1> QED
    BY <1>1, InitTyped, InitTraced, NextTyped, NextTraced, NextTold, PTL DEF Spec

-----------------------------------------------------------------------------
(* How many declarations are parsed *)

Before(i) == IF i = 1 THEN 0 ELSE declarations[i - 1]

\* The counts run on from source to source, and none of them is too high.
Totals ==
    \A i \in DOMAIN declarations :
        declarations[i] = Before(i) + Counted(Sources[i]) /\ declarations[i] <= MaxDeclarations

Bounded ==
    /\ pc \in {"find", "hash", "verify", "sources", "locate", "stat", "open", "copy",
               "extract"} => declarations = <<>>
    /\ pc \notin {"parse", "bundles", "report", "aborted"} => parsed = 0
    /\ pc \in {"count", "parse"} => Totals
    /\ pc = "parse" => Len(Sources) <= Len(declarations) /\ parsed <= Before(position)
    /\ parsed <= MaxDeclarations

LEMMA InitBounded == Init => Bounded
BY RequirementAssumption DEF Init, Bounded

LEMMA NextBounded == Typed /\ Bounded /\ [Next]_vars => Bounded'
<1> SUFFICES ASSUME Typed, Bounded, [Next]_vars PROVE Bounded'
    OBVIOUS
<1> USE DEF environment, disk, result, copying, counting, checking, inSources, NoSources,
            InRecipe, Goto, Escape, Conclude, SourceFailure
<1>0. /\ MaxDeclarations \in Nat /\ declarations \in Seq(Nat) /\ position \in Nat \ {0}
      /\ parsed \in Nat
      /\ pc \in {"count", "parse", "bundles"} => extracted # None
      /\ pc = "count" => Len(declarations) = position - 1
    BY RequirementAssumption DEF Typed, TypeOK, Staged
<1>1. CASE /\ UNCHANGED <<declarations, parsed, position>>
           /\ pc' \in {"hash", "sources", "verify", "report", "aborted", "locate", "stat",
                       "open", "copy", "extract"}
           /\ pc' \notin {"report", "aborted"} =>
                 pc \in {"find", "hash", "verify", "sources", "locate", "stat", "open",
                        "copy", "extract"}
    BY <1>1 DEF Bounded
<1>2. CASE FindArchive \/ FindNoArchive \/ HashArchive \/ VerifyEvidence \/ RecordFails
    BY <1>1, <1>2 DEF FindArchive, FindNoArchive, HashArchive, VerifyEvidence, RecordFails
<1>3. CASE CheckPublication \/ Locate \/ StatArchive \/ OpenArchive
    BY <1>1, <1>3 DEF CheckPublication, Locate, StatArchive, OpenArchive
<1>4. CASE CopyBlock \/ EndCopy \/ SnapshotFails
    BY <1>1, <1>4 DEF CopyBlock, EndCopy, SnapshotFails
<1>5. CASE ExtractRecipe
    <2>1. /\ declarations = <<>> /\ parsed = 0 /\ UNCHANGED <<declarations, parsed>>
          /\ pc' \in {"count", "report"}
        BY <1>5 DEF ExtractRecipe, Bounded
    <2> QED
        BY <1>0, <2>1 DEF Bounded, Totals
<1>6. CASE CountSource
    <2>1. pc = "count" /\ position \in DOMAIN Sources
        BY <1>0, <1>6, RecipeIsRecipe DEF CountSource
    <2>2. Counted(Sources[position]) \in Nat
        <3>1. IsRecipe(Inside[extracted])
            BY <1>0, <2>1, RecipeIsRecipe
        <3> QED
            BY <2>1, <3>1, ParsedAtMostCounted DEF Sources
    <2> DEFINE count == Before(position) + Counted(Sources[position])
    <2>3. /\ declarations' = Append(declarations, count)
          /\ IF count > MaxDeclarations THEN pc' = "report"
             ELSE position' = position + 1 /\ pc' = "count"
          /\ UNCHANGED <<extracted, parsed>>
        BY <1>6, <2>1 DEF CountSource, CountOf, Before
    <2>4. parsed = 0 /\ Totals /\ Len(declarations) = position - 1
        BY <1>0, <2>1 DEF Bounded
    <2>5. CASE count > MaxDeclarations
        BY <1>0, <2>3, <2>4, <2>5 DEF Bounded
    <2>6. CASE ~(count > MaxDeclarations)
        <3>1. count \in Nat
            <4>1. position = 1 \/ position - 1 \in DOMAIN declarations
                BY <1>0, <2>4
            <4>2. Before(position) \in Nat
                BY <1>0, <4>1 DEF Before
            <4> QED
                BY <2>2, <4>2
        <3> HIDE DEF count
        <3>2. /\ DOMAIN declarations' = DOMAIN declarations \cup {position}
              /\ declarations'[position] = count
              /\ \A i \in DOMAIN declarations : declarations'[i] = declarations[i]
              /\ DOMAIN declarations = 1..position - 1
            BY <1>0, <2>3, <2>4, <3>1
        <3>3. \A i \in DOMAIN declarations' : Before(i)' = Before(i)
            BY <1>0, <3>2 DEF Before
        <3>4. Sources' = Sources
            BY <2>3 DEF Sources
        <3>5. count <= MaxDeclarations /\ count = Before(position) + Counted(Sources[position])
            BY <1>0, <2>6, <3>1 DEF count
        <3>6. Totals'
            BY <2>4, <3>2, <3>3, <3>4, <3>5 DEF Totals
        <3> QED
            BY <1>0, <2>3, <2>4, <2>6, <3>6 DEF Bounded
    <2> QED
        BY <2>5, <2>6
<1>7. CASE EndCount
    <2>1. /\ pc = "count" /\ position > Len(Sources) /\ position' = 1 /\ pc' = "parse"
          /\ UNCHANGED <<extracted, declarations, parsed>>
        BY <1>7 DEF EndCount
    <2>2. /\ Len(Sources) \in Nat /\ Totals /\ parsed = 0
          /\ Len(Sources) <= Len(declarations)
        BY <1>0, <2>1, RecipeIsRecipe DEF Bounded
    <2>3. Sources' = Sources
        BY <2>1 DEF Sources
    <2>4. Totals'
        BY <2>1, <2>2, <2>3 DEF Totals, Before
    <2>5. Before(position)' = 0
        BY <2>1 DEF Before
    <2> QED
        BY <1>0, <2>1, <2>2, <2>3, <2>4, <2>5 DEF Bounded
<1>8. CASE ParseSource
    <2>1. pc = "parse" /\ position \in DOMAIN Sources /\ position \in DOMAIN declarations
        BY <1>0, <1>8, RecipeIsRecipe DEF ParseSource, Bounded
    <2>2. /\ Counted(Sources[position]) \in Nat
          /\ ParsedItems(Sources[position]) \in 0..Counted(Sources[position])
        <3>1. IsRecipe(Inside[extracted])
            BY <1>0, <2>1, RecipeIsRecipe
        <3> QED
            BY <2>1, <3>1, ParsedAtMostCounted DEF Sources
    <2>3. parsed' = parsed + ParsedItems(Sources[position])
        BY <1>8 DEF ParseSource
    <2>9. /\ UNCHANGED <<extracted, declarations>>
          /\ pc' = "report" \/ (pc' = "parse" /\ position' = position + 1)
        <3>1. CASE Requirement(Sources[position]) = Malformed
            BY <1>8, <3>1 DEF ParseSource
        <3>2. CASE Requirement(Sources[position]) # Malformed
            BY <1>8, <2>1, <3>2 DEF ParseSource
        <3> QED
            BY <3>1, <3>2
    <2>4. /\ declarations[position] = Before(position) + Counted(Sources[position])
          /\ declarations[position] <= MaxDeclarations /\ parsed <= Before(position)
          /\ Totals /\ Len(Sources) <= Len(declarations)
        BY <2>1 DEF Bounded, Totals
    <2>5. Before(position) \in Nat /\ declarations[position] \in Nat
        BY <1>0, <2>1 DEF Before
    <2>6. parsed' <= declarations[position] /\ parsed' <= MaxDeclarations
        BY <1>0, <2>2, <2>3, <2>4, <2>5
    <2>7. Sources' = Sources /\ Totals'
        BY <2>4, <2>9 DEF Sources, Totals, Before
    <2>8. pc' = "parse" => Before(position)' = declarations[position]
        BY <1>0, <2>9 DEF Before
    <2> QED
        BY <2>9, <2>4, <2>6, <2>7, <2>8 DEF Bounded
<1>9. CASE EndParse \/ AuditBundle \/ BundleUnavailable \/ ConcludeRequirement \/ EndRequirements
    <2>1. UNCHANGED parsed /\ pc' \in {"bundles", "report", "aborted"}
        BY <1>9 DEF EndParse, AuditBundle, BundleUnavailable, ConcludeRequirement,
                    EndRequirements, AtBundle, AtRequirement
    <2> QED
        BY <2>1 DEF Bounded
<1>10. CASE Report
    <2>1. declarations' = <<>> /\ parsed' = 0 /\ pc' \in {"done", "find"}
        BY <1>10 DEF Report
    <2> QED
        BY <1>0, <2>1 DEF Bounded
<1>11. CASE ChangeArchive
    BY <1>11 DEF ChangeArchive, Bounded, Totals, Before, Sources
<1>12. CASE UNCHANGED vars
    BY <1>12 DEF vars, Bounded, Totals, Before, Sources
<1> QED
    BY <1>2, <1>3, <1>4, <1>5, <1>6, <1>7, <1>8, <1>9, <1>10, <1>11, <1>12
       DEF Next, AuditRecord, AuditSources

\* However many sources a recipe has, and whatever they repeat or malform, the
\* limit that is checked on all declarations together bounds what is parsed.
THEOREM DeclarationsBounded == Spec => []DeclarationsAreBounded
<1>1. Bounded => DeclarationsAreBounded
    BY DEF Bounded, DeclarationsAreBounded
<1> QED
    BY <1>1, InitTyped, InitBounded, NextTyped, NextBounded, PTL DEF Spec

-----------------------------------------------------------------------------
(* What a source is worth *)

\* A requirement lists its bundles, and publishers by identities.
LEMMA RequirementIsTyped ==
    ASSUME NEW recipe, IsRecipe(recipe), NEW i \in DOMAIN recipe.sources,
           Requirement(recipe.sources[i]) \notin {None, Malformed}
    PROVE  /\ IsList(Requirement(recipe.sources[i]).bundles)
           /\ \A p \in DOMAIN Requirement(recipe.sources[i]).publishers :
                 Requirement(recipe.sources[i]).publishers[p].identity \in Seq(Token)
<1> DEFINE source      == recipe.sources[i]
           attestation == source.attestation
<1>1. /\ source # Malformed /\ attestation \notin {None, Malformed}
      /\ ListLength(attestation.publishers) \in 1..MaxPublishers
      /\ attestation.verified # Malformed
      /\ \A p \in DOMAIN attestation.publishers : Publisher(attestation.publishers[p]) # Malformed
      /\ Requirement(source) =
            [sha256        |-> source.sha256,
             publishers    |-> [p \in DOMAIN attestation.publishers |->
                                   Publisher(attestation.publishers[p])],
             predicateType |-> attestation.predicateType,
             bundles       |-> attestation.verified]
    BY DEF Requirement
<1>2. attestation.publishers # Malformed
    BY <1>1 DEF ListLength
<1>3. IsAttestation(attestation)
    BY <1>1 DEF IsRecipe
<1> HIDE DEF source, attestation
<1>4. ASSUME NEW p \in DOMAIN attestation.publishers
      PROVE  Publisher(attestation.publishers[p]).identity \in Seq(Token)
    <2> DEFINE value == attestation.publishers[p]
    <2>1. value # Malformed /\ Publisher(value) # Malformed /\ IsPublisher(value)
        BY <1>1, <1>2, <1>3 DEF IsAttestation, Publisher
    <2> HIDE DEF value
    <2>2. ASSUME value.form = "explicit" PROVE Publisher(value).identity \in Seq(Token)
        <3>1. Publisher(value) = [identity |-> value.identity, issuer |-> value.issuer]
            BY <2>1, <2>2 DEF Publisher
        <3>2. value.identity \in Seq(Token)
            BY <2>1, <2>2 DEF IsPublisher
        <3>3. Publisher(value).identity = value.identity
            BY <3>1
        <3> QED
            BY <3>2, <3>3
    <2>3. ASSUME value.form # "explicit" PROVE Publisher(value).identity \in Seq(Token)
        <3> DEFINE path == IF value.form = "shorthand" THEN value.path
                           ELSE <<value.owner, "/", value.repo>>
        <3>1. /\ value.provider \in DOMAIN Providers
              /\ Publisher(value).identity = Providers[value.provider].root \o <<"/">> \o path
            BY <2>1, <2>3 DEF Publisher
        <3>2. "/" \in Token
            BY RequirementAssumption
        <3>3. path \in Seq(Token)
            BY <2>1, <2>3, <3>2 DEF IsPublisher
        <3>4. Providers[value.provider].root \in Seq(Token)
            <4>1. {Https, "github.com", "gitlab.com"} \subseteq Token
                BY RequirementAssumption DEF Https
            <4>2. value.provider \in {"github", "gitlab"}
                BY <3>1 DEF Providers
            <4>3. Providers["github"].root = <<Https, "github.com">>
                BY DEF Providers
            <4>4. Providers["gitlab"].root = <<Https, "gitlab.com">>
                BY DEF Providers
            <4>5. /\ <<Https, "github.com">> \in Seq(Token)
                  /\ <<Https, "gitlab.com">> \in Seq(Token)
                BY <4>1
            <4> QED
                BY <4>2, <4>3, <4>4, <4>5
        <3> HIDE DEF path
        <3>5. <<"/">> \in Seq(Token)
            BY <3>2
        <3>6. Providers[value.provider].root \o <<"/">> \in Seq(Token)
            BY <3>4, <3>5
        <3>7. Providers[value.provider].root \o <<"/">> \o path \in Seq(Token)
            BY <3>3, <3>6
        <3> QED
            BY <3>1, <3>7
    <2> QED
        BY <2>2, <2>3 DEF value
<1> QED
    BY <1>1, <1>3, <1>4 DEF source, IsAttestation

\* publisher_matches looks for the identity or for what lies under it.
LEMMA MatchesIsStandsFor ==
    ASSUME NEW publisher, publisher.identity \in Seq(Token),
           NEW signer, signer.identity \in Seq(Token)
    PROVE  PublisherMatches(publisher, signer) <=> StandsFor(publisher, signer)
<1> DEFINE expected == publisher.identity
           actual   == signer.identity
<1>1. CaseFold \in [Token -> Token]
    BY RequirementAssumption
<1>2. /\ Len(expected) \in Nat /\ DOMAIN expected = 1..Len(expected)
      /\ Len(actual) \in Nat /\ DOMAIN actual = 1..Len(actual)
    OBVIOUS
<1>3. /\ Folded(expected) \in Seq(Token) /\ Len(Folded(expected)) = Len(expected)
      /\ \A i \in 1..Len(expected) : Folded(expected)[i] = CaseFold[expected[i]]
    <2>1. Folded(expected) \in [1..Len(expected) -> Token]
        BY <1>1, <1>2 DEF Folded
    <2> QED
        BY <1>2, <2>1 DEF Folded
<1>4. /\ Folded(actual) \in Seq(Token) /\ Len(Folded(actual)) = Len(actual)
      /\ \A i \in 1..Len(actual) : Folded(actual)[i] = CaseFold[actual[i]]
    <2>1. Folded(actual) \in [1..Len(actual) -> Token]
        BY <1>1, <1>2 DEF Folded
    <2> QED
        BY <1>2, <2>1 DEF Folded
<1>5. CASE publisher.issuer # signer.issuer
    BY <1>5 DEF PublisherMatches, StandsFor
<1>6. CASE publisher.issuer = signer.issuer /\ expected[1] # Https
    BY <1>6 DEF PublisherMatches, StandsFor
<1>7. CASE publisher.issuer = signer.issuer /\ expected[1] = Https
    <2> DEFINE under == /\ Len(expected) <= Len(actual)
                        /\ \A i \in 1..Len(expected) : CaseFold[expected[i]] = CaseFold[actual[i]]
               next  == actual[Len(expected) + 1]
    <2>1. PublisherMatches(publisher, signer) <=>
              \/ Folded(actual) = Folded(expected)
              \/ /\ Begins(Folded(actual), Folded(expected)) /\ Len(actual) > Len(expected)
                 /\ Folded(actual)[Len(expected) + 1] \in {"/", "@"}
        BY <1>3, <1>4, <1>7 DEF PublisherMatches
    <2>2. Begins(Folded(actual), Folded(expected)) <=> under
        <3>1. DOMAIN Folded(expected) = 1..Len(expected)
            BY <1>2, <1>3
        <3>2. ASSUME Len(expected) <= Len(actual), NEW i \in 1..Len(expected)
              PROVE  /\ Folded(expected)[i] = CaseFold[expected[i]]
                     /\ Folded(actual)[i] = CaseFold[actual[i]]
            BY <1>2, <1>3, <1>4, <3>2
        <3> QED
            BY <1>2, <1>3, <1>4, <3>1, <3>2 DEF Begins
    <2>3. Folded(actual) = Folded(expected) <=> under /\ Len(expected) = Len(actual)
        BY <1>2, <1>3, <1>4
    <2>4. Len(actual) > Len(expected) => Folded(actual)[Len(expected) + 1] = CaseFold[next]
        BY <1>2, <1>4
    <2>5. StandsFor(publisher, signer) <=>
              \/ expected = actual
              \/ under /\ (Len(expected) = Len(actual) \/ CaseFold[next] \in {"/", "@"})
        BY <1>7 DEF StandsFor
    <2>6. expected = actual => under /\ Len(expected) = Len(actual)
        BY <1>2
    <2> HIDE DEF next
    <2> QED
        BY <2>1, <2>2, <2>3, <2>4, <2>5, <2>6, <1>2
<1> QED
    BY <1>5, <1>6, <1>7

\* A bundle that is there is verified exactly if it is what the documentation
\* asks for.
LEMMA VerdictIsDeserved ==
    ASSUME NEW requirement, NEW descriptor, NEW files,
           \A path \in DOMAIN files : files[path] # Absent,
           BundleVerdict(requirement, descriptor, files) # "raised"
    PROVE  BundleVerdict(requirement, descriptor, files) =
              IF descriptor.path \notin DOMAIN files THEN "missing"
              ELSE IF Acceptable(requirement, descriptor, files[descriptor.path])
              THEN "verified" ELSE "invalid"
<1> DEFINE file    == files[descriptor.path]
           verdict == BundleVerdict(requirement, descriptor, files)
<1>1. CASE descriptor.path \notin DOMAIN files
    BY <1>1 DEF BundleVerdict
<1>2. CASE descriptor.path \in DOMAIN files
    <2>1. file # Absent
        BY <1>2
    <2>2. CASE file.sha256 # descriptor.sha256 \/ ~file.parses \/ ~file.signed
                  \/ file.payload \in {NotInToto, Malformed}
        <3>1. verdict = "invalid"
            BY <1>2, <2>1, <2>2 DEF BundleVerdict
        <3>2. ~Acceptable(requirement, descriptor, file)
            BY <2>2 DEF Acceptable
        <3> QED
            BY <1>2, <3>1, <3>2
    <2>3. CASE ~(file.sha256 # descriptor.sha256 \/ ~file.parses \/ ~file.signed
                  \/ file.payload \in {NotInToto, Malformed})
        <3>1. verdict =
                 IF requirement.predicateType \notin {None, file.payload.predicateType}
                 THEN "invalid"
                 ELSE IF ComparisonRaises(file.payload, requirement.sha256) THEN "raised"
                 ELSE IF BindsSha256(file.payload, requirement.sha256)
                 THEN "verified" ELSE "invalid"
            BY <1>2, <2>1, <2>3 DEF BundleVerdict
        <3>2. Acceptable(requirement, descriptor, file) <=>
                 /\ requirement.predicateType # None =>
                       file.payload.predicateType = requirement.predicateType
                 /\ BindsSha256(file.payload, requirement.sha256)
            BY <2>3 DEF Acceptable
        <3> QED
            BY <1>2, <3>1, <3>2
    <2> QED
        BY <2>2, <2>3
<1> QED
    BY <1>1, <1>2

Undecided(found) == {j \in DOMAIN found : found[j] = "evidence-unavailable"}

\* What the outcomes of the bundles of a requirement can be.
Decided(requirement, files, found) ==
    \A i \in DOMAIN found :
        \/ found[i] = "evidence-unavailable" /\ requirement.bundles[i].path \in DOMAIN files
        \/ /\ BundleVerdict(requirement, requirement.bundles[i], files) # "raised"
           /\ found[i] = BundleVerdict(requirement, requirement.bundles[i], files)

\* The precedence of outcomes is the documented one.
LEMMA StatusIsDocumented ==
    ASSUME NEW requirement, NEW files,
           IsList(requirement.bundles),
           \A p \in DOMAIN requirement.publishers :
              requirement.publishers[p].identity \in Seq(Token),
           \A path \in DOMAIN files :
              files[path] # Absent /\ files[path].signer.identity \in Seq(Token),
           NEW found \in Seq(Verdicts), Len(found) = Len(requirement.bundles),
           Decided(requirement, files, found)
    PROVE  SourceStatus(requirement, found, Signers(requirement, found, files))
              = DocumentedStatus(requirement, files, Undecided(found))
<1> DEFINE path(i)    == requirement.bundles[i].path
           listed     == DOMAIN requirement.bundles
           some(v)    == \E i \in DOMAIN found : found[i] = v
           fine(i)    == Acceptable(requirement, requirement.bundles[i], files[path(i)])
           signers    == Signers(requirement, found, files)
           documented == DocumentedStatus(requirement, files, Undecided(found))
<1>1. listed = DOMAIN found /\ (found = <<>> <=> listed = {})
    BY DEF IsList
<1>2. \A i \in listed :
         IF path(i) \notin DOMAIN files THEN found[i] = "missing"
         ELSE found[i] = "evidence-unavailable"
                \/ found[i] = IF fine(i) THEN "verified" ELSE "invalid"
    <2> TAKE i \in listed
    <2>1. CASE found[i] = "evidence-unavailable" /\ path(i) \in DOMAIN files
        BY <2>1
    <2>2. CASE /\ BundleVerdict(requirement, requirement.bundles[i], files) # "raised"
               /\ found[i] = BundleVerdict(requirement, requirement.bundles[i], files)
        <3>1. found[i] = IF path(i) \notin DOMAIN files THEN "missing"
                         ELSE IF fine(i) THEN "verified" ELSE "invalid"
            BY <2>2, VerdictIsDeserved
        <3> HIDE DEF path, fine
        <3> QED
            BY <3>1
    <2> QED
        BY <1>1, <2>1, <2>2 DEF Decided
<1>3. documented =
         IF listed = {} \/ \E i \in listed : path(i) \notin DOMAIN files THEN "missing"
         ELSE IF \E i \in listed \ Undecided(found) : ~fine(i) THEN "invalid"
         ELSE IF Undecided(found) # {} THEN "evidence-unavailable"
         ELSE IF \E p \in DOMAIN requirement.publishers :
                    \A i \in listed :
                       ~StandsFor(requirement.publishers[p], files[path(i)].signer)
         THEN "untrusted-identity" ELSE "verified"
    BY DEF DocumentedStatus
<1>4. SourceStatus(requirement, found, signers) =
         IF found = <<>> \/ some("missing") THEN "missing"
         ELSE IF some("invalid") THEN "invalid"
         ELSE IF some("evidence-unavailable") THEN "evidence-unavailable"
         ELSE IF ~EveryPublisher(requirement, signers) THEN "untrusted-identity"
         ELSE "verified"
    BY DEF SourceStatus
<1>5. some("missing") <=> \E i \in listed : path(i) \notin DOMAIN files
    <2> HIDE DEF path, fine, listed
    <2> QED
        BY <1>1, <1>2
<1>6. ASSUME ~some("missing")
      PROVE  some("invalid") <=> \E i \in listed \ Undecided(found) : ~fine(i)
    <2> HIDE DEF path, fine, listed
    <2> QED
        BY <1>1, <1>2, <1>6 DEF Undecided
<1>7. some("evidence-unavailable") <=> Undecided(found) # {}
    BY DEF Undecided
<1>8. ASSUME ~some("missing"), ~some("invalid"), ~some("evidence-unavailable")
      PROVE  ~EveryPublisher(requirement, signers) <=>
                \E p \in DOMAIN requirement.publishers :
                   \A i \in listed :
                      ~StandsFor(requirement.publishers[p], files[path(i)].signer)
    <2>1. \A i \in listed : found[i] = "verified" /\ path(i) \in DOMAIN files
        <3> HIDE DEF path, fine, listed
        <3> QED
            BY <1>1, <1>2, <1>8
    <2>2. signers = {files[path(i)].signer : i \in listed}
        BY <1>1, <2>1 DEF Signers
    <2>3. \A p \in DOMAIN requirement.publishers : \A i \in listed :
             PublisherMatches(requirement.publishers[p], files[path(i)].signer)
                <=> StandsFor(requirement.publishers[p], files[path(i)].signer)
        BY <2>1, MatchesIsStandsFor
    <2> HIDE DEF path, listed, signers
    <2>4. ~EveryPublisher(requirement, signers) <=>
             \E p \in DOMAIN requirement.publishers :
                \A s \in signers : ~PublisherMatches(requirement.publishers[p], s)
        BY DEF EveryPublisher, Matched
    <2> QED
        BY <2>2, <2>3, <2>4
<1> HIDE DEF path, listed, some, fine, signers, documented
<1> QED
    BY <1>1, <1>3, <1>4, <1>5, <1>6, <1>7, <1>8 DEF signers, documented

-----------------------------------------------------------------------------
(* What the report says of each source *)

\* Requirements are listed in the order of the sources, none left out.
Listing ==
    /\ pc \notin {"parse", "bundles", "report", "aborted"} => requirements = <<>>
    /\ pc \notin {"bundles", "report", "aborted"} => outcomes = <<>>
    /\ pc \in {"parse", "bundles"} =>
          /\ \A k \in DOMAIN requirements :
                /\ Requirement(Sources[requirements[k]]) # Malformed
                /\ \A l \in 1..k - 1 : requirements[l] < requirements[k]
          /\ {requirements[k] : k \in DOMAIN requirements} =
                {j \in DOMAIN Sources :
                    (pc = "parse" => j < position) /\ Requirement(Sources[j]) # None}

StatusDocumented(from, source) ==
    source.status = DocumentedStatus(Requirement(Inside[from].sources[source.index]),
                                     Inside[from].files, Undecided(source.outcomes))

\* The requirements before the current one have their results, and so have the
\* bundles before the current one.
Auditing ==
    pc = "bundles" =>
        /\ Len(results) <= Len(requirements)
        /\ \A k \in DOMAIN results :
              results[k].index = requirements[k] /\ StatusDocumented(extracted, results[k])
        /\ Len(results) < Len(requirements) =>
              Len(outcomes) <= Len(Current.bundles) /\ Decided(Current, Files, outcomes)

SourcesDocumented(from, evidence) ==
    LET sources == Inside[from].sources IN
    (from # None /\ \A k \in DOMAIN evidence : evidence[k].index # 0)
    => /\ {evidence[k].index : k \in DOMAIN evidence}
             = {j \in DOMAIN sources : Requirement(sources[j]) # None}
       /\ \A k \in DOMAIN evidence :
             /\ \A l \in 1..k - 1 : evidence[l].index < evidence[k].index
             /\ StatusDocumented(from, evidence[k])

Documented ==
    /\ pc = "report" => SourcesDocumented(extracted, results)
    /\ \A i \in DOMAIN report : SourcesDocumented(report[i].from, report[i].sources)

\* A failure is not reported source by source.
LEMMA FailureIsDocumented ==
    ASSUME NEW from, NEW s
    PROVE  SourcesDocumented(from, <<[index |-> 0, status |-> s, outcomes |-> <<>>]>>)
<1> DEFINE failure == <<[index |-> 0, status |-> s, outcomes |-> <<>>]>>
<1>1. 1 \in DOMAIN failure /\ failure[1].index = 0
    OBVIOUS
<1> HIDE DEF failure
<1> QED
    BY <1>1 DEF SourcesDocumented

\* The requirement that is being audited is one, and so are its files.
CurrentTyped ==
    pc = "bundles" /\ Len(results) < Len(requirements) =>
        /\ IsList(Current.bundles)
        /\ \A p \in DOMAIN Current.publishers :
              Current.publishers[p].identity \in Seq(Token)
        /\ \A path \in DOMAIN Files :
              Files[path] # Absent /\ Files[path].signer.identity \in Seq(Token)

LEMMA CurrentIsRequirement == Typed /\ Listing => CurrentTyped
<1> SUFFICES ASSUME Typed, Listing, pc = "bundles", Len(results) < Len(requirements)
             PROVE  /\ IsList(Current.bundles)
                    /\ \A p \in DOMAIN Current.publishers :
                          Current.publishers[p].identity \in Seq(Token)
                    /\ \A path \in DOMAIN Files :
                          Files[path] # Absent /\ Files[path].signer.identity \in Seq(Token)
    BY DEF CurrentTyped
<1> DEFINE next == Len(results) + 1
<1>1. /\ extracted # None /\ requirements \in Seq(Nat) /\ results \in Seq(SourceResults)
      /\ next \in DOMAIN requirements
    BY DEF Typed, TypeOK, Staged
<1>2. IsRecipe(Inside[extracted])
    BY <1>1, RecipeIsRecipe
<1> HIDE DEF next
<1>3. requirements[next] \in DOMAIN Sources
      /\ Requirement(Sources[requirements[next]]) \notin {None, Malformed}
    BY <1>1 DEF Listing
<1>4. Current = Requirement(Sources[requirements[next]])
    BY DEF Current, next
<1> QED
    BY <1>2, <1>3, <1>4, RequirementIsTyped DEF IsRecipe, Sources, Files

LEMMA InitDocumented == Init => Listing /\ Auditing /\ Documented
BY DEF Init, Listing, Auditing, Documented

LEMMA NextListing == Typed /\ Listing /\ [Next]_vars => Listing'
<1> SUFFICES ASSUME Typed, Listing, [Next]_vars PROVE Listing'
    OBVIOUS
<1> USE DEF environment, disk, result, copying, counting, checking, inSources, NoSources,
            InRecipe, Goto, Escape, Conclude, SourceFailure
<1>1. CASE /\ UNCHANGED <<requirements, outcomes>>
           /\ pc' \notin {"parse", "bundles"}
           /\ pc' \notin {"report", "aborted"} =>
                 pc \notin {"parse", "bundles", "report", "aborted"}
    BY <1>1 DEF Listing
<1>2. CASE FindArchive \/ FindNoArchive \/ HashArchive \/ VerifyEvidence \/ RecordFails
    BY <1>1, <1>2 DEF FindArchive, FindNoArchive, HashArchive, VerifyEvidence, RecordFails
<1>3. CASE CheckPublication \/ Locate \/ StatArchive \/ OpenArchive
    BY <1>1, <1>3 DEF CheckPublication, Locate, StatArchive, OpenArchive
<1>4. CASE CopyBlock \/ EndCopy \/ ExtractRecipe \/ SnapshotFails
    BY <1>1, <1>4 DEF CopyBlock, EndCopy, ExtractRecipe, SnapshotFails
<1>5. CASE CountSource
    BY <1>1, <1>5 DEF CountSource
<1>6. CASE EndCount
    <2>1. /\ requirements' = <<>> /\ outcomes' = <<>> /\ pc' = "parse" /\ position' = 1
          /\ UNCHANGED extracted
        BY <1>6 DEF EndCount, Listing
    <2>2. Sources' = Sources /\ DOMAIN Sources \subseteq Nat \ {0}
        BY <1>6, <2>1, RecipeIsRecipe DEF Sources, EndCount, Typed, Staged
    <2>3. {requirements'[k] : k \in DOMAIN requirements'} = {}
        BY <2>1
    <2>4. {j \in DOMAIN Sources' :
             (pc' = "parse" => j < position') /\ Requirement(Sources'[j]) # None} = {}
        BY <2>1, <2>2
    <2> QED
        BY <2>1, <2>3, <2>4 DEF Listing
<1>7. CASE ParseSource
    <2>1. /\ pc = "parse" /\ position \in Nat \ {0} /\ requirements \in Seq(Nat)
          /\ extracted # None /\ position <= Len(Sources)
        BY <1>7 DEF ParseSource, Typed, TypeOK, Staged
    <2>2. Len(Sources) \in Nat /\ DOMAIN Sources = 1..Len(Sources)
        BY <2>1, RecipeIsRecipe
    <2>3. Sources' = Sources /\ UNCHANGED outcomes
        BY <1>7 DEF ParseSource, Sources
    <2>4. CASE Requirement(Sources[position]) = Malformed
        BY <1>1, <1>7, <2>1, <2>4 DEF ParseSource, Listing
    <2>5. CASE Requirement(Sources[position]) # Malformed
        <3> DEFINE listed == {requirements[k] : k \in DOMAIN requirements}
        <3>1. /\ requirements' = IF Requirement(Sources[position]) = None THEN requirements
                                 ELSE Append(requirements, position)
              /\ position' = position + 1 /\ pc' = "parse"
            BY <1>7, <2>1, <2>5 DEF ParseSource
        <3>2. listed = {j \in DOMAIN Sources : j < position /\ Requirement(Sources[j]) # None}
            BY <2>1 DEF Listing
        <3>3. \A k \in DOMAIN requirements :
                 /\ requirements[k] < position
                 /\ Requirement(Sources[requirements[k]]) # Malformed
                 /\ \A l \in 1..k - 1 : requirements[l] < requirements[k]
            BY <2>1, <3>2 DEF Listing
        <3>4. {requirements'[k] : k \in DOMAIN requirements'} =
                 IF Requirement(Sources[position]) = None THEN listed
                 ELSE listed \cup {position}
            <4>1. CASE Requirement(Sources[position]) = None
                BY <3>1, <4>1
            <4>2. CASE Requirement(Sources[position]) # None
                <5>1. requirements' = Append(requirements, position)
                    BY <3>1, <4>2
                <5>2. /\ DOMAIN requirements' = DOMAIN requirements \cup {Len(requirements) + 1}
                      /\ requirements'[Len(requirements) + 1] = position
                      /\ \A k \in DOMAIN requirements : requirements'[k] = requirements[k]
                    BY <2>1, <5>1
                <5> QED
                    BY <4>2, <5>2
            <4> QED
                BY <4>1, <4>2
        <3>5. {j \in DOMAIN Sources : j < position + 1 /\ Requirement(Sources[j]) # None} =
                 IF Requirement(Sources[position]) = None THEN listed
                 ELSE listed \cup {position}
            <4> HIDE DEF listed
            <4>1. \A j \in DOMAIN Sources : j < position + 1 <=> j < position \/ j = position
                BY <2>1, <2>2
            <4>2. position \in DOMAIN Sources /\ ~(position < position)
                BY <2>1, <2>2
            <4> QED
                BY <3>2, <4>1, <4>2
        <3>6. \A k \in DOMAIN requirements' :
                 /\ Requirement(Sources[requirements'[k]]) # Malformed
                 /\ \A l \in 1..k - 1 : requirements'[l] < requirements'[k]
            BY <2>1, <2>5, <3>1, <3>3
        <3> HIDE DEF listed
        <3> QED
            BY <2>3, <3>1, <3>4, <3>5, <3>6, <2>1 DEF Listing
    <2> QED
        BY <2>4, <2>5
<1>8. CASE EndParse
    <2>1. /\ pc = "parse" /\ pc' = "bundles" /\ UNCHANGED <<requirements, outcomes, extracted>>
          /\ position > Len(Sources) /\ position \in Nat /\ extracted # None
        BY <1>8 DEF EndParse, Typed, TypeOK, Staged
    <2>2. Len(Sources) \in Nat /\ DOMAIN Sources = 1..Len(Sources) /\ Sources' = Sources
        BY <2>1, RecipeIsRecipe DEF Sources
    <2>3. \A j \in DOMAIN Sources : j < position
        BY <2>1, <2>2
    <2> QED
        BY <2>1, <2>2, <2>3 DEF Listing
<1>9. CASE AuditBundle \/ BundleUnavailable \/ ConcludeRequirement \/ EndRequirements
    <2>1. /\ pc = "bundles" /\ pc' \in {"bundles", "report", "aborted"}
          /\ UNCHANGED <<requirements, extracted>>
        BY <1>9 DEF AuditBundle, BundleUnavailable, ConcludeRequirement, EndRequirements,
                    AtBundle, AtRequirement
    <2> QED
        BY <2>1 DEF Listing, Sources
<1>10. CASE Report
    <2>1. requirements' = <<>> /\ outcomes' = <<>> /\ pc' \in {"done", "find"}
        BY <1>10 DEF Report
    <2> QED
        BY <2>1 DEF Listing
<1>11. CASE ChangeArchive
    BY <1>11 DEF ChangeArchive, Listing, Sources
<1>12. CASE UNCHANGED vars
    BY <1>12 DEF vars, Listing, Sources
<1> QED
    BY <1>2, <1>3, <1>4, <1>5, <1>6, <1>7, <1>8, <1>9, <1>10, <1>11, <1>12
       DEF Next, AuditRecord, AuditSources

LEMMA NextAuditing == Typed /\ Traced /\ Listing /\ Auditing /\ [Next]_vars => Auditing'
<1> SUFFICES ASSUME Typed, Traced, Listing, Auditing, [Next]_vars, pc' = "bundles"
             PROVE  Auditing'
    BY DEF Auditing
<1> USE DEF environment, disk, result, copying, counting, checking, inSources, NoSources,
            InRecipe, Goto, Escape, Conclude, SourceFailure
<1>0. /\ requirements \in Seq(Nat) /\ results \in Seq(SourceResults)
      /\ outcomes \in Seq(Verdicts) /\ Len(requirements) \in Nat /\ Len(results) \in Nat
      /\ Len(outcomes) \in Nat
    BY DEF Typed, TypeOK
<1>c. CurrentTyped
    BY CurrentIsRequirement
<1>n. CurrentTyped'
    <2>1. Typed' /\ Listing'
        BY NextTyped, NextListing
    <2> QED
        BY <2>1, CurrentIsRequirement, PTL
<1>1. CASE EndParse
    <2>1. /\ pc = "parse" /\ results' = <<>> /\ outcomes' = <<>>
          /\ UNCHANGED <<requirements, extracted>>
        BY <1>1 DEF EndParse, Traced, Listing
    <2>3. Len(results') < Len(requirements') => IsList(Current.bundles)'
        BY <1>n DEF CurrentTyped
    <2>4. Len(results') < Len(requirements') => Len(outcomes') <= Len(Current'.bundles)
        BY <2>1, <2>3 DEF IsList
    <2> QED
        BY <1>0, <2>1, <2>4 DEF Auditing, Decided
<1>2. CASE AuditBundle \/ BundleUnavailable
    <2> DEFINE next == Len(outcomes) + 1
    <2>1. /\ pc = "bundles" /\ Len(results) < Len(requirements)
          /\ Len(outcomes) < Len(Current.bundles)
          /\ UNCHANGED <<requirements, extracted, results>>
        BY <1>2 DEF AuditBundle, BundleUnavailable, AtBundle, AtRequirement
    <2>2. PICK verdict :
             /\ outcomes' = Append(outcomes, verdict)
             /\ \/ /\ verdict = "evidence-unavailable"
                   /\ Current.bundles[next].path \in DOMAIN Files
                \/ /\ BundleVerdict(Current, Current.bundles[next], Files) # "raised"
                   /\ verdict = BundleVerdict(Current, Current.bundles[next], Files)
        BY <1>2 DEF AuditBundle, BundleUnavailable
    <2>3. Current' = Current /\ Files' = Files
        BY <2>1 DEF Current, Files, Sources
    <2>4. Len(Current.bundles) \in Nat
        BY <1>c, <2>1 DEF IsList, CurrentTyped
    <2>5. Decided(Current, Files, outcomes)
        BY <2>1 DEF Auditing
    <2>6. /\ DOMAIN outcomes' = DOMAIN outcomes \cup {next} /\ outcomes'[next] = verdict
          /\ Len(outcomes') = next
          /\ \A i \in DOMAIN outcomes : outcomes'[i] = outcomes[i]
        BY <1>0, <2>2
    <2>7. Decided(Current, Files, outcomes')
        BY <2>2, <2>5, <2>6 DEF Decided
    <2>8. Len(outcomes') <= Len(Current.bundles)
        BY <1>0, <2>1, <2>4, <2>6
    <2> HIDE DEF next
    <2> QED
        BY <2>1, <2>3, <2>7, <2>8 DEF Auditing
<1>3. CASE ConcludeRequirement
    <2> DEFINE next  == Len(results) + 1
               entry == [index    |-> requirements[next],
                         status   |-> SourceStatus(Current, outcomes,
                                                   Signers(Current, outcomes, Files)),
                         outcomes |-> outcomes]
    <2>1. /\ pc = "bundles" /\ Len(results) < Len(requirements)
          /\ Len(outcomes) = Len(Current.bundles)
          /\ results' = Append(results, entry) /\ outcomes' = <<>>
          /\ UNCHANGED <<requirements, extracted>>
        BY <1>3 DEF ConcludeRequirement, AtRequirement
    <2>2. Decided(Current, Files, outcomes)
        BY <2>1 DEF Auditing
    <2>3. entry.status = DocumentedStatus(Current, Files, Undecided(outcomes))
        BY <1>0, <1>c, <2>1, <2>2, StatusIsDocumented DEF CurrentTyped
    <2>4. StatusDocumented(extracted, entry) /\ entry.index = requirements[next]
        <3>1. /\ entry.index = requirements[next] /\ entry.outcomes = outcomes
              /\ Current = Requirement(Inside[extracted].sources[requirements[next]])
              /\ Files = Inside[extracted].files
            BY DEF Current, Sources, Files
        <3> HIDE DEF entry
        <3> QED
            BY <2>3, <3>1 DEF StatusDocumented
    <2> HIDE DEF entry
    <2>5. /\ DOMAIN results' = DOMAIN results \cup {next} /\ results'[next] = entry
          /\ Len(results') = next /\ next <= Len(requirements)
          /\ \A k \in DOMAIN results : results'[k] = results[k]
        BY <1>0, <2>1
    <2>7. Len(results') < Len(requirements') => IsList(Current.bundles)'
        BY <1>n DEF CurrentTyped
    <2>8. /\ Len(results') < Len(requirements') => Len(outcomes') <= Len(Current'.bundles)
          /\ Decided(Current', Files', outcomes')
        BY <2>1, <2>7 DEF IsList, Decided
    <2>9. \A k \in DOMAIN results' :
             results'[k].index = requirements[k] /\ StatusDocumented(extracted, results'[k])
        BY <2>1, <2>4, <2>5 DEF Auditing
    <2> HIDE DEF next
    <2> QED
        BY <2>1, <2>5, <2>8, <2>9 DEF Auditing
<1>4. CASE ChangeArchive \/ UNCHANGED vars
    <2>1. UNCHANGED <<pc, requirements, results, outcomes, extracted>>
        BY <1>4 DEF ChangeArchive, vars
    <2> QED
        BY <2>1 DEF Auditing, Current, Files, Sources
<1> QED
    BY <1>1, <1>2, <1>3, <1>4
       DEF Next, AuditRecord, AuditSources, FindArchive, FindNoArchive, HashArchive,
           VerifyEvidence, RecordFails, CheckPublication, Locate, StatArchive, OpenArchive,
           CopyBlock, EndCopy, ExtractRecipe, SnapshotFails, CountSource, EndCount,
           ParseSource, EndRequirements, Report

LEMMA NextDocumented ==
    Typed /\ Traced /\ Listing /\ Auditing /\ Documented /\ [Next]_vars => Documented'
<1> SUFFICES ASSUME Typed, Traced, Listing, Auditing, Documented, [Next]_vars
             PROVE  Documented'
    OBVIOUS
<1>1. pc' = "report" => SourcesDocumented(extracted', results')
    <2> SUFFICES ASSUME pc' = "report" PROVE SourcesDocumented(extracted', results')
        OBVIOUS
    <2> USE DEF environment, disk, result, copying, counting, checking, inSources,
                NoSources, InRecipe, Goto, Escape, Conclude, SourceFailure
    <2>1. CASE EndRequirements
        <3>1. /\ pc = "bundles" /\ Len(results) = Len(requirements)
              /\ UNCHANGED <<extracted, results>>
            BY <2>1 DEF EndRequirements
        <3>2. requirements \in Seq(Nat) /\ results \in Seq(SourceResults)
            BY DEF Typed, TypeOK
        <3>3. /\ DOMAIN results = DOMAIN requirements
              /\ \A k \in DOMAIN results : \A l \in 1..k - 1 : l \in DOMAIN results
            BY <3>1, <3>2
        <3>4. \A k \in DOMAIN results :
                 results[k].index = requirements[k] /\ StatusDocumented(extracted, results[k])
            BY <3>1 DEF Auditing
        <3>5. \A k \in DOMAIN requirements : \A l \in 1..k - 1 : requirements[l] < requirements[k]
            BY <3>1 DEF Listing
        <3>6. {requirements[k] : k \in DOMAIN requirements} =
                 {j \in DOMAIN Sources : Requirement(Sources[j]) # None}
            BY <3>1 DEF Listing
        <3>7. {results[k].index : k \in DOMAIN results} =
                 {j \in DOMAIN Sources : Requirement(Sources[j]) # None}
            BY <3>3, <3>4, <3>6
        <3>8. SourcesDocumented(extracted, results)
            BY <3>3, <3>4, <3>5, <3>7 DEF SourcesDocumented, Sources
        <3> QED
            BY <3>1, <3>8
    <2>2. CASE CheckPublication
        <3>1. CASE ~includeSources
            BY <2>2, <3>1 DEF CheckPublication, SourcesDocumented, Traced
        <3>2. CASE includeSources
            BY <2>2, <3>2, FailureIsDocumented DEF CheckPublication
        <3> QED
            BY <3>1, <3>2
    <2>3. CASE Locate \/ StatArchive \/ CopyBlock \/ EndCopy \/ SnapshotFails
        BY <2>3, FailureIsDocumented
           DEF Locate, StatArchive, CopyBlock, EndCopy, SnapshotFails
    <2>4. CASE ExtractRecipe \/ CountSource \/ ParseSource
        BY <2>4, FailureIsDocumented DEF ExtractRecipe, CountSource, ParseSource
    <2>5. CASE ChangeArchive \/ UNCHANGED vars
        BY <2>5 DEF ChangeArchive, vars, Documented
    <2> QED
        BY <2>1, <2>2, <2>3, <2>4, <2>5
           DEF Next, AuditRecord, AuditSources, FindArchive, FindNoArchive, HashArchive,
               VerifyEvidence, RecordFails, OpenArchive, EndCount, EndParse, AuditBundle,
               BundleUnavailable, ConcludeRequirement, Report, AtBundle, AtRequirement
<1>2. \A i \in DOMAIN report' : SourcesDocumented(report'[i].from, report'[i].sources)
    <2>1. CASE ~Report
        BY <2>1, ReportIsKept DEF Documented
    <2>2. CASE Report
        <3>1. report' = Append(report, Entry) /\ report \in Seq(PackageReports)
              /\ pc = "report"
            BY <2>2 DEF Report, Reports, Typed, TypeOK
        <3>2. Entry.from = extracted /\ Entry.sources = results
            BY DEF Entry
        <3>3. SourcesDocumented(Entry.from, Entry.sources)
            BY <3>1, <3>2 DEF Documented
        <3> HIDE DEF Entry
        <3> QED
            BY <3>1, <3>3 DEF Documented
    <2> QED
        BY <2>1, <2>2
<1> QED
    BY <1>1, <1>2 DEF Documented

\* Whatever a recipe declares and whatever files lie beside it: every source with
\* an attestation is reported in order, with the status that the documentation's
\* table gives to the bundles it lists.
THEOREM SourcesAreDocumented == Spec => []SourceStatusAsDocumented
<1>1. Documented => SourceStatusAsDocumented
    BY DEF Documented, SourcesDocumented, StatusDocumented, Undecided,
           SourceStatusAsDocumented
<1> QED
    BY <1>1, InitTyped, InitTraced, InitDocumented, NextTyped, NextTraced, NextListing,
       NextAuditing, NextDocumented, PTL DEF Spec
=============================================================================
