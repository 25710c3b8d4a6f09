----------------------------- MODULE SourceArchive -----------------------------
(***************************************************************************)
(* SourceArchive.extract_recipe and ArchiveReader (source_archive.py): the  *)
(* recipe and the bundles embedded beside it are copied out of a package    *)
(* that may be anything, within budgets on what is read of it.              *)
(*                                                                         *)
(* A package is its container and the tar stream that decompressing it      *)
(* yields.  The container is None for .tar.bz2, or the ZIP members that     *)
(* stand for .conda and the read that ZipFile takes to know them.  The      *)
(* stream is its entries, the bytes there are of it, which may be too few,  *)
(* and whether decompression fails (torn) or just ends behind them.         *)
(*                                                                         *)
(* tarfile reads it a block at a time and looks at nothing twice.  An entry *)
(* has a name, a type, a number of header blocks (more than one with        *)
(* extended headers) and a size; links have no payload.  Two types are of   *)
(* entries that tarfile cannot parse: a damaged header (a wrong checksum,   *)
(* an extended header with a record that is none), and a headless one, an   *)
(* extended header that no header follows.                                  *)
(***************************************************************************)
EXTENDS Integers, Sequences, FiniteSets

CONSTANTS
    Package,            \* the packages to be inspected
    Recipe,             \* the name of the rendered recipe
    BundleName,         \* the names of embedded bundles
    Unsafe,             \* names that could lead out of the destination
    Reserved,           \* names that are reserved on Windows
    Key,                \* casefold, for the names of files to be copied
    Block,              \* BLOCKSIZE of tar
    MaxZipRead,         \* MAX_ZIP_METADATA_BYTES
    MaxZipMembers,      \* MAX_ZIP_MEMBERS
    MaxExpanded,        \* MAX_EXPANDED_ARCHIVE_BYTES
    MaxMetadata,        \* MAX_ARCHIVE_METADATA_BYTES
    MaxMembers,         \* MAX_ARCHIVE_MEMBERS
    MaxRecipe,          \* max_recipe_bytes
    MaxBundle,          \* max_bundle_bytes
    None

Unparsed == {"damaged", "headless"}
Types == {"regular", "contiguous", "sparse", "link", "unknown"} \cup Unparsed

Entries == [name : STRING, type : Types, headers : Nat \ {0}, size : Nat]

\* The members of a ZIP: is it called as the info component is, is it stored
\* uncompressed; and the read, where a negative size asks for all there is.
ZipFiles == [members : Seq([matches : BOOLEAN, stored : BOOLEAN]),
             read    : [size : Int, available : Nat]]

ASSUME ArchiveAssumption ==
    /\ Block \in Nat \ {0}
    /\ {MaxZipRead, MaxZipMembers, MaxExpanded, MaxMetadata, MaxMembers,
        MaxRecipe, MaxBundle} \subseteq Nat
    /\ \A p \in Package :
          /\ p.container = None \/ p.container \in ZipFiles
          /\ p.entries \in Seq(Entries) /\ p.length \in Nat /\ p.torn \in BOOLEAN

VARIABLES
    package,
    pc,
    at,                     \* the member tarfile has come to
    start,                  \* where its headers begin
    consumed,               \* bytes read from the stream so far
    remaining,              \* of the reader
    metadata_remaining,
    reading_metadata,
    seen,                   \* the keys of the files copied so far
    extracted,              \* the members copied so far
    parsing                 \* history: bytes read to get past headers

budgets == <<consumed, remaining, metadata_remaining, parsing>>
files   == <<seen, extracted>>
vars == <<package, pc, at, start, budgets, reading_metadata, files>>

Init ==
    /\ package \in Package /\ pc = "open"
    /\ at = 1 /\ start = 0 /\ consumed = 0
    /\ remaining = MaxExpanded /\ metadata_remaining = MaxMetadata
    /\ reading_metadata = TRUE
    /\ seen = {} /\ extracted = {} /\ parsing = 0

-----------------------------------------------------------------------------
(* The container.  Just before some definitions stands a faulty variant of
   them, a slip the code could have made; the properties are tried against it. *)

Least(numbers) == CHOOSE n \in numbers : \A m \in numbers : n <= m

\* A read of ZipFile, through a reader without budgets: of a number of bytes,
\* or (-1) of all that the file still has.
ZipReadRaises(read) ==
    \/ read.size > MaxZipRead
    \/ Least({IF read.size < 0 THEN MaxZipRead + 1 ELSE read.size, read.available})
          > MaxZipRead

Matching(container) ==
    {i \in DOMAIN container.members : container.members[i].matches}

OneStoredComponent(container) ==
    /\ Cardinality(Matching(container)) = 1
    /\ \A i \in Matching(container) : container.members[i].stored

OpenContainer ==
    /\ pc = "open"
    /\ pc' = IF package.container # None
                /\ (ZipReadRaises(package.container.read)
                    \/ Len(package.container.members) > MaxZipMembers
                    \/ ~OneStoredComponent(package.container))
             THEN "invalid" ELSE "header"
    /\ UNCHANGED <<package, at, start, budgets, reading_metadata, files>>

-----------------------------------------------------------------------------
(* ArchiveReader.read *)

Padded(size) == ((size + Block - 1) \div Block) * Block

AtEnd == at > Len(package.entries)
Entry == package.entries[at]

HeaderEnd  == start + Block * (IF AtEnd THEN 1 ELSE Entry.headers)
PayloadEnd == HeaderEnd + Padded(Entry.size)

\* How far tarfile has to read for what it does next.
Target == IF pc = "header" THEN HeaderEnd ELSE PayloadEnd

Reading == pc \in {"header", "skip", "body"} /\ consumed < Target

\* One byte more than a budget is asked for, to tell its end from the stream's.
AskedExactly ==
    Least({Block, remaining}
          \cup IF reading_metadata THEN {metadata_remaining} ELSE {})
AskedWithoutBudget ==
    Least({Block} \cup IF reading_metadata THEN {metadata_remaining + 1} ELSE {})
Asked ==
    Least({Block, remaining + 1}
          \cup IF reading_metadata THEN {metadata_remaining + 1} ELSE {})

ReadBlock ==
    /\ Reading /\ consumed < package.length
    /\ LET data == Least({Asked, package.length - consumed})
           left == metadata_remaining - IF reading_metadata THEN data ELSE 0
       IN  /\ data > 0
           /\ consumed' = consumed + data
           /\ remaining' = remaining - data
           /\ metadata_remaining' = IF remaining - data < 0 THEN metadata_remaining
                                    ELSE left
           /\ pc' = IF remaining - data < 0 \/ left < 0 THEN "invalid" ELSE pc
           /\ parsing' = parsing + IF pc = "header" /\ remaining >= data
                                   THEN data ELSE 0
    /\ UNCHANGED <<package, at, start, reading_metadata, files>>

\* Nothing more is read: the stream has ended, or nothing was asked for.
\* tarfile takes an end where headers would begin, inside the first block of
\* them, or behind some of a damaged one, for the end of the archive, unless
\* there was no member yet.
TakenForEnd ==
    /\ pc = "header" /\ at # 1 /\ consumed >= start
    /\ \/ consumed < start + Block
       \/ ~AtEnd /\ Entry.type = "damaged"

EndOfStream ==
    /\ Reading /\ (consumed = package.length \/ Asked = 0)
    /\ pc' = IF TakenForEnd /\ ~package.torn THEN "extracted" ELSE "invalid"
    /\ UNCHANGED <<package, at, start, budgets, reading_metadata, files>>

-----------------------------------------------------------------------------
(* The members of the archive *)

\* A block of zeros.
EndOfArchive ==
    /\ pc = "header" /\ AtEnd /\ consumed = Target
    /\ pc' = "extracted"
    /\ UNCHANGED <<package, at, start, budgets, reading_metadata, files>>

\* The header of a member cannot be parsed: tarfile passes over a damaged one,
\* and all that follows, as it does over an end of the stream.
UnparsedHeader ==
    /\ pc = "header" /\ ~AtEnd /\ consumed = Target /\ Entry.type \in Unparsed
    /\ pc' = IF Entry.type = "headless" \/ at = 1 THEN "invalid" ELSE "extracted"
    /\ UNCHANGED <<package, at, start, budgets, reading_metadata, files>>

Selected(name) == name \in BundleName \cup {Recipe}
Limit(name)    == IF name = Recipe THEN MaxRecipe ELSE MaxBundle

\* What every member is required to be, and a file that is to be copied.
SafeMember(entry) ==
    entry.size <= MaxExpanded /\ entry.type # "sparse" /\ entry.name \notin Unsafe

CopiedFile(entry) ==
    /\ entry.type = "regular" /\ entry.name \notin Reserved
    /\ entry.size <= Limit(entry.name)

\* The parser goes on behind the payload.
NextMember ==
    /\ at' = at + 1
    /\ start' = IF Entry.type = "link" THEN HeaderEnd ELSE PayloadEnd
    /\ pc' = "header"

\* Of other members only regular files are drained: what an unknown type has
\* for a payload tarfile skips on its way to the next header.
InspectMember ==
    /\ pc = "header" /\ ~AtEnd /\ consumed = Target /\ Entry.type \notin Unparsed
    /\ IF \/ at > MaxMembers \/ ~SafeMember(Entry)
          \/ Selected(Entry.name) /\ (~CopiedFile(Entry) \/ Key[Entry.name] \in seen)
       THEN pc' = "invalid" /\ UNCHANGED <<at, start, reading_metadata, seen>>
       ELSE IF Selected(Entry.name)
       THEN /\ pc' = "body" /\ reading_metadata' = FALSE
            /\ seen' = seen \cup {Key[Entry.name]}
            /\ UNCHANGED <<at, start>>
       ELSE IF Entry.type \in {"regular", "contiguous"}
       THEN pc' = "skip" /\ reading_metadata' = FALSE /\ UNCHANGED <<at, start, seen>>
       ELSE NextMember /\ UNCHANGED <<reading_metadata, seen>>
    /\ UNCHANGED <<package, budgets, extracted>>

\* The switch back, after the payload of either kind of member.
StaysOff   == FALSE
SwitchedOn == TRUE

EndSkip ==
    /\ pc = "skip" /\ consumed = Target
    /\ reading_metadata' = SwitchedOn
    /\ NextMember
    /\ UNCHANGED <<package, budgets, files>>

EndBody ==
    /\ pc = "body" /\ consumed = Target
    /\ reading_metadata' = SwitchedOn
    /\ extracted' = extracted \cup {at}
    /\ NextMember
    /\ UNCHANGED <<package, budgets, seen>>

\* An OSError with an error number, of the snapshot or of the destination.
Fail ==
    /\ pc \in {"open", "header", "skip", "body"}
    /\ pc' = "unreadable"
    /\ UNCHANGED <<package, at, start, budgets, reading_metadata, files>>

Next ==
    \/ OpenContainer \/ ReadBlock \/ EndOfStream \/ EndOfArchive
    \/ UnparsedHeader \/ InspectMember \/ EndSkip \/ EndBody \/ Fail

Spec == Init /\ [][Next]_vars

-----------------------------------------------------------------------------
(* Properties *)

\* The types of the state, and the ends of the budgets: neither is ever
\* exceeded by more than the one byte that proves it exceeded.
TypeOK ==
    /\ package.entries \in Seq(Entries) /\ package.length \in Nat
    /\ pc \in {"open", "header", "skip", "body", "extracted", "invalid", "unreadable"}
    /\ at \in Nat \ {0} /\ start \in Nat /\ consumed \in Nat /\ parsing \in Nat
    /\ remaining \in -1..MaxExpanded /\ metadata_remaining \in -1..MaxMetadata
    /\ reading_metadata \in BOOLEAN
    /\ extracted \subseteq 1..at - 1

\* The limits of docs/reference/source-attestations.md on the expanded stream
\* and on "tar parser reads outside regular-file payload reads": every byte that
\* is read counts toward the first, and toward the second exactly those that
\* are read on the way to a member, whatever members came before.
BudgetsAreKept ==
    /\ remaining = MaxExpanded - consumed
    /\ metadata_remaining = MaxMetadata - parsing
    /\ pc # "invalid" => consumed <= MaxExpanded /\ parsing <= MaxMetadata

-----------------------------------------------------------------------------
(* What docs/reference/source-attestations.md requires of an archive, with all
   its members at once *)

OnTape(entry)  == IF entry.type = "link" THEN 0 ELSE Padded(entry.size)
Span(entry)    == entry.headers * Block + OnTape(entry)
Parsed(entry)  == entry.headers * Block + IF entry.type = "unknown" THEN OnTape(entry)
                                          ELSE 0

\* Where n members end in the stream, and how much of it tarfile has then read
\* on its way to a member.
Sums(numbers) ==
    LET sums[n \in 0..Len(numbers)] ==
            IF n = 0 THEN 0 ELSE sums[n - 1] + numbers[n]
    IN  sums

Ends(entries)  == Sums([i \in DOMAIN entries |-> Span(entries[i])])
Costs(entries) == Sums([i \in DOMAIN entries |-> Parsed(entries[i])])

\* The members whose headers are in the stream, up to one that cannot be parsed.
Count(p) ==
    LET ends == Ends(p.entries) IN
    Cardinality({i \in DOMAIN p.entries :
                    /\ ends[i - 1] + p.entries[i].headers * Block <= p.length
                    /\ \A j \in 1..i : p.entries[j].type \notin Unparsed})

Present(p) == SubSeq(p.entries, 1, Count(p))

\* What is in the stream behind these members, and what tarfile looks for there:
\* the header of the next member, or a block of zeros.
Rest(p) == p.length - Ends(p.entries)[Count(p)]
Follower(p) ==
    Block * IF Count(p) < Len(p.entries) THEN p.entries[Count(p) + 1].headers ELSE 1

\* There is exactly one stored info component among a few ZIP members.
SoundContainer(container) ==
    container # None =>
        /\ (IF container.read.size < 0 THEN container.read.available
            ELSE container.read.size) <= MaxZipRead
        /\ Len(container.members) <= MaxZipMembers
        /\ \E i \in DOMAIN container.members :
              /\ container.members[i].stored
              /\ {j \in DOMAIN container.members : container.members[j].matches} = {i}

\* What is read of the stream is within the budgets.
WithinBudgets(p) ==
    LET last == IF Rest(p) < Follower(p) THEN Rest(p) ELSE Follower(p) IN
    /\ Rest(p) >= 0
    /\ Ends(p.entries)[Count(p)] + last <= MaxExpanded
    /\ Costs(p.entries)[Count(p)] + last <= MaxMetadata

\* The archive ends with zeros, or just behind a member.
EndsInZeros(p) == Count(p) = Len(p.entries) /\ Rest(p) >= Follower(p)
EndsWell(p) ==
    ~p.torn /\ (EndsInZeros(p) \/ (Rest(p) = 0 /\ Count(p) > 0))

\* It ends within a header, or a header is damaged, in a way that tarfile takes
\* for the end of the archive; or the stream fails behind the zeros, where nothing
\* is read any more.
EndsUnnoticed(p) ==
    \/ p.torn /\ EndsInZeros(p)
    \/ /\ Rest(p) > 0 /\ Count(p) > 0
       /\ \/ Rest(p) < Block
          \/ /\ Count(p) < Len(p.entries)
             /\ p.entries[Count(p) + 1].type = "damaged"
       /\ Rest(p) < Follower(p) => ~p.torn

SoundMembers(members) ==
    /\ Len(members) <= MaxMembers
    /\ \A i \in DOMAIN members :
          /\ SafeMember(members[i])
          /\ Selected(members[i].name) =>
                /\ CopiedFile(members[i])
                /\ \A j \in DOMAIN members \ {i} :
                      Selected(members[j].name) =>
                          Key[members[j].name] # Key[members[i].name]

\* All but the end of the stream is as required.
SoundUpToEnd(p) ==
    SoundContainer(p.container) /\ WithinBudgets(p) /\ SoundMembers(Present(p))

\* An archive is invalid if it breaks a rule or exceeds a limit of
\* docs/reference/source-attestations.md, wherever and with whatever else in it,
\* and otherwise is not; save that what follows a header that is cut off or
\* damaged, and is not the first, is passed over as if it were not there, and so is
\* a stream that fails behind the end of the archive.  What is copied are exactly
\* the rendered recipe and the bundles before that end.
OutcomeIsExact ==
    pc \in {"extracted", "invalid"} =>
        /\ (pc = "extracted") <=>
              SoundUpToEnd(package) /\ (EndsWell(package) \/ EndsUnnoticed(package))
        /\ pc = "extracted" =>
              extracted = {i \in DOMAIN Present(package) :
                              Selected(package.entries[i].name)}

\* docs/reference/source-attestations.md: "A malformed archive, including an
\* invalid bzip2 stream, produces an `invalid` source result."  So nothing is taken
\* out of an archive in which a member's header is cut off or cannot be parsed.
MalformedIsInvalid ==
    pc = "extracted" => Count(package) = Len(package.entries) \/ Rest(package) = 0
=============================================================================
