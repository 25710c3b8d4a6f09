-------------------------- MODULE SourceArchiveProofs --------------------------
(* Theorems about SourceArchive, for packages of any form and budgets of any
   size: the types, the budgets, which members have been copied, and that the
   outcome is the one the documentation describes. *)
EXTENDS SourceArchive, FiniteSetTheorems, TLAPS

-----------------------------------------------------------------------------
(* Lemmas about the operators *)

\* The least of some numbers is one of them and below the others.
LEMMA LeastOfTwo ==
    ASSUME NEW a \in Int, NEW b \in Int
    PROVE  Least({a, b}) \in {a, b} /\ Least({a, b}) <= a /\ Least({a, b}) <= b
BY SMT DEF Least

LEMMA LeastOfThree ==
    ASSUME NEW a \in Int, NEW b \in Int, NEW c \in Int
    PROVE  /\ Least({a, b, c}) \in {a, b, c}
           /\ Least({a, b, c}) <= a /\ Least({a, b, c}) <= b /\ Least({a, b, c}) <= c
<1>1. \E n \in {a, b, c} : \A m \in {a, b, c} : n <= m
    BY SMT
<1> QED
    BY <1>1 DEF Least

\* Products of natural numbers, and padded sizes, are natural numbers.
LEMMA ProductIsNat == ASSUME NEW a \in Nat, NEW b \in Nat PROVE a * b \in Nat
BY SMT

LEMMA PaddedIsNat == ASSUME NEW size \in Nat PROVE Padded(size) \in Nat
<1> Block \in Nat \ {0}
    BY ArchiveAssumption
<1>1. (size + Block - 1) \div Block \in Nat
    BY SMT
<1> QED
    BY <1>1, ProductIsNat DEF Padded

-----------------------------------------------------------------------------
(* The inductive invariant: the reader charges its metadata budget exactly
   while tarfile looks for headers. *)

Switch ==
    /\ pc \in {"open", "header"} => reading_metadata = TRUE
    /\ pc \in {"skip", "body"} => reading_metadata = FALSE

WithinPackage == pc \in {"skip", "body"} => at <= Len(package.entries)

Typed == package \in Package /\ TypeOK /\ WithinPackage

Kept ==
    /\ remaining = MaxExpanded - consumed
    /\ metadata_remaining = MaxMetadata - parsing
    /\ pc # "invalid" => remaining >= 0 /\ metadata_remaining >= 0

LEMMA AssumedTypes ==
    ASSUME Typed
    PROVE  /\ Block \in Nat \ {0} /\ MaxExpanded \in Nat /\ MaxMetadata \in Nat
           /\ package.entries \in Seq(Entries) /\ package.length \in Nat
BY ArchiveAssumption DEF Typed

\* The offsets of the member tarfile has come to are natural numbers.
LEMMA OffsetsAreNat ==
    ASSUME Typed, at <= Len(package.entries)
    PROVE  /\ Entry \in Entries
           /\ HeaderEnd \in Nat /\ PayloadEnd \in Nat
           /\ at + 1 \in Nat \ {0}
<1>1. at \in 1..Len(package.entries) /\ start \in Nat
    BY DEF Typed, TypeOK
<1>2. Entry \in Entries
    BY <1>1, AssumedTypes DEF Entry
<1>3. Entry.headers \in Nat /\ Entry.size \in Nat
    BY <1>2 DEF Entries
<1>4. HeaderEnd = start + Block * Entry.headers
    BY <1>1 DEF HeaderEnd, AtEnd
<1>5. Block * Entry.headers \in Nat
    BY <1>3, AssumedTypes, ProductIsNat
<1>6. HeaderEnd \in Nat
    BY <1>1, <1>4, <1>5
<1>7. PayloadEnd \in Nat
    <2>1. Padded(Entry.size) \in Nat
        BY <1>3, PaddedIsNat
    <2> HIDE DEF HeaderEnd
    <2> QED
        BY <1>6, <2>1 DEF PayloadEnd
<1> QED
    BY <1>1, <1>2, <1>6, <1>7

\* A read returns no more than one byte more than each budget that it is
\* charged to.
LEMMA ReadIsCapped ==
    ASSUME Typed, ReadBlock
    PROVE  \E data \in Nat :
              /\ data <= remaining + 1
              /\ reading_metadata => data <= metadata_remaining + 1
              /\ consumed' = consumed + data
              /\ remaining' = remaining - data
              /\ metadata_remaining' =
                    IF remaining - data < 0 THEN metadata_remaining
                    ELSE metadata_remaining - IF reading_metadata THEN data ELSE 0
              /\ pc' = IF remaining - data < 0
                          \/ metadata_remaining - (IF reading_metadata THEN data ELSE 0) < 0
                       THEN "invalid" ELSE pc
              /\ parsing' = parsing + IF pc = "header" /\ remaining >= data
                                      THEN data ELSE 0
<1> DEFINE data == Least({Asked, package.length - consumed})
<1>1. /\ Block \in Int /\ remaining \in Int /\ metadata_remaining \in Int
      /\ package.length - consumed \in Int /\ reading_metadata \in BOOLEAN
    BY AssumedTypes DEF Typed, TypeOK
<1>2. /\ Asked \in Int /\ Asked <= remaining + 1
      /\ reading_metadata => Asked <= metadata_remaining + 1
    <2>1. CASE reading_metadata
        <3>1. Asked = Least({Block, remaining + 1, metadata_remaining + 1})
            <4>1. {Block, remaining + 1} \cup {metadata_remaining + 1}
                     = {Block, remaining + 1, metadata_remaining + 1}
                OBVIOUS
            <4> QED
                BY <2>1, <4>1 DEF Asked
        <3>2. remaining + 1 \in Int /\ metadata_remaining + 1 \in Int
            BY <1>1
        <3>3. /\ Asked \in {Block, remaining + 1, metadata_remaining + 1}
              /\ Asked <= remaining + 1 /\ Asked <= metadata_remaining + 1
            BY <1>1, <3>1, <3>2, LeastOfThree
        <3> QED
            BY <1>1, <3>2, <3>3
    <2>2. CASE ~reading_metadata
        <3>1. Asked = Least({Block, remaining + 1})
            <4>1. {Block, remaining + 1} \cup {} = {Block, remaining + 1}
                OBVIOUS
            <4> QED
                BY <2>2, <4>1 DEF Asked
        <3>2. remaining + 1 \in Int
            BY <1>1
        <3>3. Asked \in {Block, remaining + 1} /\ Asked <= remaining + 1
            BY <1>1, <3>1, <3>2, LeastOfTwo
        <3> QED
            BY <1>1, <2>2, <3>2, <3>3
    <2> QED
        BY <2>1, <2>2
<1>3. data \in Int /\ data <= Asked
    BY <1>1, <1>2, LeastOfTwo
<1>4. data > 0
    BY DEF ReadBlock
<1>5. data \in Nat /\ data <= remaining + 1
         /\ (reading_metadata => data <= metadata_remaining + 1)
    BY <1>1, <1>2, <1>3, <1>4
<1> HIDE DEF data
<1>6. /\ consumed' = consumed + data
      /\ remaining' = remaining - data
      /\ metadata_remaining' =
            IF remaining - data < 0 THEN metadata_remaining
            ELSE metadata_remaining - IF reading_metadata THEN data ELSE 0
      /\ pc' = IF remaining - data < 0
                  \/ metadata_remaining - (IF reading_metadata THEN data ELSE 0) < 0
               THEN "invalid" ELSE pc
      /\ parsing' = parsing + IF pc = "header" /\ remaining >= data THEN data ELSE 0
    BY DEF ReadBlock, data
<1> QED
    BY <1>5, <1>6

-----------------------------------------------------------------------------
(* Types and budgets *)

LEMMA InitTyped == Init => Typed /\ Switch /\ Kept
<1> SUFFICES ASSUME Init PROVE Typed /\ Switch /\ Kept
    OBVIOUS
<1>1. /\ package.entries \in Seq(Entries) /\ package.length \in Nat
      /\ MaxExpanded \in Nat /\ MaxMetadata \in Nat
    BY ArchiveAssumption DEF Init
<1> QED
    BY <1>1 DEF Init, Typed, TypeOK, WithinPackage, Switch, Kept

LEMMA NextTyped == Typed /\ Switch /\ Kept /\ [Next]_vars => (Typed /\ Switch /\ Kept)'
<1> SUFFICES ASSUME Typed, Switch, Kept, [Next]_vars PROVE (Typed /\ Switch /\ Kept)'
    OBVIOUS
<1> USE DEF Typed, TypeOK, WithinPackage, Switch, Kept
<1>1. CASE OpenContainer
    BY <1>1 DEF OpenContainer, budgets, files
<1>2. CASE ReadBlock
    <2>1. UNCHANGED <<package, at, start, reading_metadata, files>> /\ Reading
        BY <1>2 DEF ReadBlock
    <2> HIDE DEF Typed
    <2>2. PICK data \in Nat :
              /\ data <= remaining + 1
              /\ reading_metadata => data <= metadata_remaining + 1
              /\ consumed' = consumed + data
              /\ remaining' = remaining - data
              /\ metadata_remaining' =
                    IF remaining - data < 0 THEN metadata_remaining
                    ELSE metadata_remaining - IF reading_metadata THEN data ELSE 0
              /\ pc' = IF remaining - data < 0
                          \/ metadata_remaining - (IF reading_metadata THEN data ELSE 0) < 0
                       THEN "invalid" ELSE pc
              /\ parsing' = parsing + IF pc = "header" /\ remaining >= data
                                      THEN data ELSE 0
        BY <1>2, ReadIsCapped
    <2> USE DEF Typed
    <2>3. MaxExpanded \in Nat /\ MaxMetadata \in Nat
        BY ArchiveAssumption
    <2>4. remaining' \in -1..MaxExpanded
        BY <2>2, <2>3
    <2>5. pc \in {"header", "skip", "body"}
        BY <2>1 DEF Reading
    <2>6. metadata_remaining' \in -1..MaxMetadata
        <3>1. CASE reading_metadata
            BY <2>2, <2>3, <3>1
        <3>2. CASE ~reading_metadata
            BY <2>2, <2>3, <3>2
        <3> QED
            BY <3>1, <3>2
    <2>7. Switch' /\ WithinPackage'
        BY <2>1, <2>2, <2>5
    <2>8. consumed' \in Nat /\ parsing' \in Nat
        BY <2>2
    <2>9. pc' \in {"open", "header", "skip", "body", "extracted", "invalid",
                   "unreadable"}
        BY <2>2
    <2>10. Typed'
        BY <2>1, <2>4, <2>6, <2>7, <2>8, <2>9 DEF files
    <2>11. Kept'
        <3>1. CASE pc = "header"
            <4>1. reading_metadata = TRUE
                BY <3>1
            <4> QED
                BY <2>2, <2>3, <3>1, <4>1
        <3>2. CASE pc # "header"
            <4>1. reading_metadata = FALSE
                BY <2>5, <3>2
            <4> QED
                BY <2>2, <2>3, <3>2, <4>1
        <3> QED
            BY <3>1, <3>2
    <2> QED
        BY <2>7, <2>10, <2>11
<1>3. CASE EndOfStream
    BY <1>3 DEF EndOfStream, TakenForEnd, budgets, files
<1>4. CASE EndOfArchive \/ UnparsedHeader
    BY <1>4 DEF EndOfArchive, UnparsedHeader, budgets, files
<1>5. CASE InspectMember
    <2>1. at <= Len(package.entries) /\ pc = "header" /\ UNCHANGED <<package, budgets, extracted>>
        BY <1>5, AssumedTypes DEF InspectMember, AtEnd
    <2>2. /\ HeaderEnd \in Nat /\ PayloadEnd \in Nat /\ at + 1 \in Nat \ {0}
        BY <2>1, OffsetsAreNat
    <2>3. CASE pc' = "invalid" /\ UNCHANGED <<at, start, reading_metadata, seen>>
        BY <2>1, <2>3 DEF budgets
    <2>4. CASE pc' \in {"body", "skip"} /\ reading_metadata' = FALSE /\ UNCHANGED <<at, start>>
        BY <2>1, <2>4 DEF budgets
    <2>5. CASE NextMember /\ UNCHANGED <<reading_metadata, seen>>
        BY <2>1, <2>2, <2>5 DEF budgets, NextMember
    <2> QED
        BY <1>5, <2>3, <2>4, <2>5 DEF InspectMember
<1>6. CASE EndSkip
    <2>1. /\ HeaderEnd \in Nat /\ PayloadEnd \in Nat /\ at + 1 \in Nat \ {0}
        BY <1>6, OffsetsAreNat DEF EndSkip
    <2> QED
        BY <1>6, <2>1 DEF EndSkip, NextMember, SwitchedOn, budgets, files
<1>7. CASE EndBody
    <2>1. /\ HeaderEnd \in Nat /\ PayloadEnd \in Nat /\ at + 1 \in Nat \ {0}
        BY <1>7, OffsetsAreNat DEF EndBody
    <2>2. extracted' \subseteq 1..at' - 1
        BY <1>7 DEF EndBody, NextMember
    <2> QED
        BY <1>7, <2>1, <2>2 DEF EndBody, NextMember, SwitchedOn, budgets
<1>8. CASE Fail
    BY <1>8 DEF Fail, budgets, files
<1>9. CASE UNCHANGED vars
    BY <1>9 DEF vars, budgets, files
<1> QED
    BY <1>1, <1>2, <1>3, <1>4, <1>5, <1>6, <1>7, <1>8, <1>9 DEF Next

\* The state keeps its types, and no budget is ever exceeded by more than the
\* byte that proves it exceeded.
THEOREM TypesAreRight == Spec => []TypeOK
<1>1. Typed => TypeOK
    BY DEF Typed
<1> QED
    BY <1>1, InitTyped, NextTyped, PTL DEF Spec

\* What is read of any package, whatever is in it, is charged to the budget of
\* the expanded stream, and to that of the parser if tarfile reads it to get to
\* a member.
THEOREM BudgetsHold == Spec => []BudgetsAreKept
<1>1. Typed /\ Kept => BudgetsAreKept
    <2>1. MaxExpanded \in Nat /\ MaxMetadata \in Nat
        BY ArchiveAssumption
    <2> QED
        BY <2>1 DEF Typed, TypeOK, Kept, BudgetsAreKept
<1> QED
    BY <1>1, InitTyped, NextTyped, PTL DEF Spec

-----------------------------------------------------------------------------
(* The files that are copied *)

KeyOf(i) == Key[package.entries[i].name]

\* Of the members so far exactly those that are asked for have been copied, each
\* of them admissible, and no two to names that differ in case alone.
FilesAreAdmitted ==
    /\ extracted = {i \in 1..at - 1 : Selected(package.entries[i].name)}
    /\ \A i \in 1..at - 1 : i <= MaxMembers /\ SafeMember(package.entries[i])
    /\ \A i \in extracted : CopiedFile(package.entries[i])
    /\ \A i, j \in extracted : KeyOf(i) = KeyOf(j) => i = j

\* The member that is being read has been admitted already.
Admitting ==
    /\ pc \in {"skip", "body"} => at <= MaxMembers /\ SafeMember(Entry)
    /\ pc = "skip" => ~Selected(Entry.name)
    /\ pc = "body" =>
          /\ Selected(Entry.name) /\ CopiedFile(Entry)
          /\ KeyOf(at) \in seen /\ \A i \in extracted : KeyOf(i) # KeyOf(at)
    /\ \A i \in extracted : KeyOf(i) \in seen

Admitted == FilesAreAdmitted /\ Admitting

\* A member that is done with joins those that have been admitted.
LEMMA MemberJoins ==
    ASSUME Typed, Admitted, NextMember, UNCHANGED package,
           at <= Len(package.entries), at <= MaxMembers, SafeMember(Entry),
           IF Selected(Entry.name)
           THEN /\ extracted' = extracted \cup {at} /\ CopiedFile(Entry)
                /\ \A i \in extracted : KeyOf(i) # KeyOf(at)
           ELSE extracted' = extracted
    PROVE  FilesAreAdmitted'
<1>1. /\ at \in Nat \ {0} /\ at' = at + 1 /\ package' = package
      /\ 1..at' - 1 = (1..at - 1) \cup {at}
    BY DEF Typed, TypeOK, NextMember
<1>2. \A i : package'.entries[i] = package.entries[i] /\ KeyOf(i)' = KeyOf(i)
    BY <1>1 DEF KeyOf
<1>3. Entry = package.entries[at]
    BY DEF Entry
<1>4. extracted \subseteq 1..at - 1 /\ at \notin extracted
    BY <1>1 DEF Admitted, FilesAreAdmitted
<1>5. extracted' = {i \in 1..at' - 1 : Selected(package'.entries[i].name)}
    BY <1>1, <1>2, <1>3, <1>4 DEF Admitted, FilesAreAdmitted
<1>6. \A i \in 1..at' - 1 : i <= MaxMembers /\ SafeMember(package'.entries[i])
    BY <1>1, <1>2, <1>3 DEF Admitted, FilesAreAdmitted
<1>7. \A i \in extracted' : CopiedFile(package'.entries[i])
    BY <1>1, <1>2, <1>3 DEF Admitted, FilesAreAdmitted
<1>8. \A i, j \in extracted' : KeyOf(i)' = KeyOf(j)' => i = j
    BY <1>2, <1>4 DEF Admitted, FilesAreAdmitted
<1> QED
    BY <1>5, <1>6, <1>7, <1>8 DEF FilesAreAdmitted

LEMMA InitAdmitted == Init => Admitted
BY DEF Init, Admitted, FilesAreAdmitted, Admitting

LEMMA NextAdmitted == Typed /\ Admitted /\ [Next]_vars => Admitted'
<1> SUFFICES ASSUME Typed, Admitted, [Next]_vars PROVE Admitted'
    OBVIOUS
<1>1. CASE pc' \notin {"skip", "body"} /\ UNCHANGED <<package, at, extracted, seen>>
    BY <1>1 DEF Admitted, FilesAreAdmitted, Admitting, KeyOf
<1>2. CASE OpenContainer
    BY <1>1, <1>2 DEF OpenContainer, files
<1>3. CASE ReadBlock
    <2>1. pc' \in {"invalid", pc} /\ UNCHANGED <<package, at, extracted, seen>>
        BY <1>3 DEF ReadBlock, files
    <2> QED
        BY <1>1, <2>1 DEF Admitted, FilesAreAdmitted, Admitting, KeyOf, Entry
<1>4. CASE EndOfStream \/ EndOfArchive \/ UnparsedHeader \/ Fail
    BY <1>1, <1>4 DEF EndOfStream, EndOfArchive, UnparsedHeader, Fail, files
<1>5. CASE InspectMember
    <2>1. /\ at <= Len(package.entries) /\ UNCHANGED <<package, extracted>>
          /\ Entry = package.entries[at]
        BY <1>5, AssumedTypes DEF InspectMember, AtEnd, Entry, Typed, TypeOK
    <2>2. CASE \/ at > MaxMembers \/ ~SafeMember(Entry)
               \/ Selected(Entry.name) /\ (~CopiedFile(Entry) \/ Key[Entry.name] \in seen)
        BY <1>1, <1>5, <2>1, <2>2 DEF InspectMember
    <2>3. CASE ~(\/ at > MaxMembers \/ ~SafeMember(Entry)
                 \/ Selected(Entry.name) /\ (~CopiedFile(Entry) \/ Key[Entry.name] \in seen))
        <3>1. at <= MaxMembers /\ SafeMember(Entry)
            BY <2>3, ArchiveAssumption DEF Typed, TypeOK
        <3>2. CASE Selected(Entry.name)
            <4>1. CopiedFile(Entry) /\ KeyOf(at) \notin seen
                BY <2>1, <2>3, <3>2 DEF KeyOf
            <4>2. /\ pc' = "body" /\ seen' = seen \cup {KeyOf(at)} /\ at' = at
                BY <1>5, <2>1, <2>3, <3>2 DEF InspectMember, KeyOf
            <4> QED
                BY <2>1, <3>1, <3>2, <4>1, <4>2
                   DEF Admitted, FilesAreAdmitted, Admitting, KeyOf, Entry
        <3>3. CASE ~Selected(Entry.name) /\ Entry.type \in {"regular", "contiguous"}
            <4>1. pc' = "skip" /\ UNCHANGED <<at, seen>>
                BY <1>5, <2>3, <3>3 DEF InspectMember
            <4> QED
                BY <2>1, <3>1, <3>3, <4>1
                   DEF Admitted, FilesAreAdmitted, Admitting, KeyOf, Entry
        <3>4. CASE ~Selected(Entry.name) /\ Entry.type \notin {"regular", "contiguous"}
            <4>1. NextMember /\ UNCHANGED seen
                BY <1>5, <2>3, <3>4 DEF InspectMember
            <4>2. FilesAreAdmitted'
                BY <2>1, <3>1, <3>4, <4>1, MemberJoins
            <4>3. Admitting'
                BY <2>1, <4>1 DEF Admitted, Admitting, NextMember, KeyOf
            <4> QED
                BY <4>2, <4>3 DEF Admitted
        <3> QED
            BY <3>2, <3>3, <3>4
    <2> QED
        BY <2>2, <2>3
<1>6. CASE EndSkip
    <2>1. /\ NextMember /\ UNCHANGED <<package, extracted, seen>>
          /\ at <= Len(package.entries) /\ at <= MaxMembers
          /\ SafeMember(Entry) /\ ~Selected(Entry.name)
        BY <1>6 DEF EndSkip, files, Typed, WithinPackage, Admitted, Admitting
    <2>2. FilesAreAdmitted'
        BY <2>1, MemberJoins
    <2>3. Admitting'
        BY <2>1 DEF Admitted, Admitting, NextMember, KeyOf
    <2> QED
        BY <2>2, <2>3 DEF Admitted
<1>7. CASE EndBody
    <2>1. /\ NextMember /\ UNCHANGED <<package, seen>>
          /\ extracted' = extracted \cup {at}
          /\ at <= Len(package.entries) /\ at <= MaxMembers
          /\ SafeMember(Entry) /\ Selected(Entry.name) /\ CopiedFile(Entry)
          /\ KeyOf(at) \in seen /\ \A i \in extracted : KeyOf(i) # KeyOf(at)
        BY <1>7 DEF EndBody, Typed, WithinPackage, Admitted, Admitting
    <2>2. FilesAreAdmitted'
        BY <2>1, MemberJoins
    <2>3. Admitting'
        BY <2>1 DEF Admitted, Admitting, NextMember, KeyOf
    <2> QED
        BY <2>2, <2>3 DEF Admitted
<1>8. CASE UNCHANGED vars
    BY <1>8 DEF vars, files, Admitted, FilesAreAdmitted, Admitting, KeyOf, Entry
<1> QED
    BY <1>2, <1>3, <1>4, <1>5, <1>6, <1>7, <1>8 DEF Next

\* Whatever a package holds and wherever its inspection ends, what has been
\* copied out of it are exactly the recipe and bundles up to there, all regular
\* files within their limits, and nothing that could be written elsewhere.
THEOREM CopiesAreAdmitted == Spec => []FilesAreAdmitted
<1>1. Admitted => FilesAreAdmitted
    BY DEF Admitted
<1> QED
    BY <1>1, InitTyped, NextTyped, InitAdmitted, NextAdmitted, PTL DEF Spec

-----------------------------------------------------------------------------
(* Lemmas about sums, and about the members in a stream *)

\* Induction over numbers, for sets of them.
LEMMA Induction ==
    ASSUME NEW n \in Nat, NEW P, 0 \in P,
           \A m \in 0..n - 1 : m \in P => m + 1 \in P
    PROVE  0..n \subseteq P
<1> SUFFICES ASSUME NEW a \in 0..n, a \notin P PROVE FALSE
    OBVIOUS
<1> DEFINE Missing == {0..m : m \in (0..n) \ P}
<1>1. Missing \in SUBSET (SUBSET (0..n)) /\ Missing # {}
    OBVIOUS
<1>2. IsWellFoundedOn(StrictSubsetOrdering(0..n), SUBSET (0..n))
    <2>1. IsFiniteSet(0..n)
        BY FS_Interval
    <2> QED
        BY <2>1, FS_StrictSubsetOrderingWellFounded, FS_FiniteSubsetsOfFinite
<1>3. PICK x \in Missing :
        \A y \in Missing : <<y, x>> \notin StrictSubsetOrdering(0..n)
    <2> HIDE DEF Missing
    <2> QED
        BY <1>1, <1>2, WFMin
<1>4. PICK m \in (0..n) \ P : x = 0..m
    BY <1>3
<1>5. m - 1 \in 0..n - 1 /\ m - 1 \notin P
    BY <1>4
<1>6. 0..(m - 1) \in Missing
    BY <1>5
<1>7. <<0..(m - 1), 0..m>> \in StrictSubsetOrdering(0..n)
    <2>1. 0..(m - 1) \subseteq 0..m /\ m \in 0..m /\ m \notin 0..(m - 1)
        BY <1>4
    <2>2. 0..(m - 1) \in SUBSET (0..n) /\ 0..m \in SUBSET (0..n)
        BY <1>4
    <2> QED
        BY <2>1, <2>2 DEF StrictSubsetOrdering
<1> QED
    BY <1>3, <1>4, <1>6, <1>7

\* Sums are what their definition says they are.
LEMMA SumsAdd ==
    ASSUME NEW w \in Seq(Nat)
    PROVE  /\ Sums(w) \in [0..Len(w) -> Nat] /\ Sums(w)[0] = 0
           /\ \A n \in 1..Len(w) : Sums(w)[n] = Sums(w)[n - 1] + w[n]
<1> DEFINE Adds(g, n) == g[0] = 0 /\ \A i \in 1..n : g[i] = g[i - 1] + w[i]
           N == Len(w)
           P == {n \in 0..N : \E g \in [0..n -> Nat] : Adds(g, n)}
<1>1. N \in Nat /\ \A i \in 1..N : w[i] \in Nat
    OBVIOUS
<1>2. 0 \in P
    <2>1. PICK z : z = [i \in 0..0 |-> 0]
        OBVIOUS
    <2>2. z \in [0..0 -> Nat] /\ Adds(z, 0)
        BY <2>1
    <2>3. 0 \in 0..N
        BY <1>1
    <2> HIDE DEF Adds, N
    <2> QED
        BY <2>2, <2>3
<1>3. ASSUME NEW m \in 0..N - 1, m \in P PROVE m + 1 \in P
    <2>1. PICK g \in [0..m -> Nat] : Adds(g, m)
        BY <1>3
    <2>2. PICK h : h = [i \in 0..m + 1 |-> IF i = m + 1 THEN g[m] + w[m + 1] ELSE g[i]]
        OBVIOUS
    <2>3. h \in [0..m + 1 -> Nat]
        BY <1>1, <2>2
    <2>4. Adds(h, m + 1)
        BY <1>1, <2>1, <2>2
    <2>5. m + 1 \in 0..N
        BY <1>1
    <2> HIDE DEF Adds, N
    <2> QED
        BY <2>3, <2>4, <2>5
<1>4. PICK g \in [0..N -> Nat] : Adds(g, N)
    <2>1. 0..N \subseteq P
        <3> HIDE DEF P, N
        <3> QED
            BY <1>1, <1>2, <1>3, Induction
    <2>2. N \in 0..N
        BY <1>1
    <2> HIDE DEF Adds, N
    <2> QED
        BY <2>1, <2>2
<1> HIDE DEF P
<1>5. g = [n \in 0..N |-> IF n = 0 THEN 0 ELSE g[n - 1] + w[n]]
    BY <1>1, <1>4
<1>6. PICK s : s = Sums(w)
    OBVIOUS
<1>7. s = [n \in 0..N |-> IF n = 0 THEN 0 ELSE s[n - 1] + w[n]]
    BY <1>5, <1>6 DEF Sums
<1>8. s[0] = 0 /\ \A n \in 1..N : s[n] = s[n - 1] + w[n]
    BY <1>1, <1>7
<1>9. s \in [0..N -> Nat]
    <2> DEFINE Q == {n \in 0..N : s[n] \in Nat}
    <2>1. 0 \in Q
        BY <1>1, <1>8
    <2>2. ASSUME NEW m \in 0..N - 1, m \in Q PROVE m + 1 \in Q
        <3>1. m + 1 \in 1..N /\ m + 1 \in 0..N /\ (m + 1) - 1 = m
            BY <1>1
        <3>2. s[m + 1] = s[m] + w[m + 1] /\ w[m + 1] \in Nat /\ s[m] \in Nat
            BY <1>1, <1>8, <2>2, <3>1
        <3> QED
            BY <3>1, <3>2
    <2>3. 0..N \subseteq Q
        <3> HIDE DEF Q, N
        <3> QED
            BY <1>1, <2>1, <2>2, Induction
    <2> QED
        BY <1>7, <2>3
<1> QED
    BY <1>6, <1>8, <1>9

\* The sums of natural numbers grow.
LEMMA SumsGrow ==
    ASSUME NEW w \in Seq(Nat), NEW i \in 0..Len(w), NEW j \in 0..Len(w), i <= j
    PROVE  Sums(w)[i] <= Sums(w)[j]
<1> DEFINE P == {n \in 0..Len(w) : i <= n => Sums(w)[i] <= Sums(w)[n]}
<1>1. Len(w) \in Nat /\ \A n \in 1..Len(w) : w[n] \in Nat
    OBVIOUS
<1>2. 0 \in P
    BY <1>1, SumsAdd
<1>3. ASSUME NEW m \in 0..Len(w) - 1, m \in P PROVE m + 1 \in P
    <2>1. /\ Sums(w)[m + 1] = Sums(w)[m] + w[m + 1] /\ w[m + 1] \in Nat
          /\ Sums(w)[m] \in Nat /\ Sums(w)[i] \in Nat
        <3>1. m \in 0..Len(w) /\ m + 1 \in 1..Len(w) /\ (m + 1) - 1 = m
            BY <1>1
        <3> QED
            BY <1>1, <3>1, SumsAdd
    <2> QED
        BY <1>3, <2>1
<1>4. 0..Len(w) \subseteq P
    <2> HIDE DEF P
    <2> QED
        BY <1>1, <1>2, <1>3, Induction
<1> QED
    BY <1>4

\* Whole blocks: their sum, and the distance of two of them.
Whole(n) == \E k \in Nat : n = k * Block

LEMMA WholeSum ==
    ASSUME NEW a, NEW b, Whole(a), Whole(b)
    PROVE  Whole(a + b)
<1>1. PICK j \in Nat, k \in Nat : a = j * Block /\ b = k * Block
    BY DEF Whole
<1>2. (j + k) * Block = j * Block + k * Block /\ j + k \in Nat
    BY ArchiveAssumption
<1> QED
    BY <1>1, <1>2 DEF Whole

LEMMA WholeGap ==
    ASSUME NEW a, NEW b, Whole(a), Whole(b), a < b
    PROVE  a + Block <= b
<1> USE ArchiveAssumption
<1>1. PICK j \in Nat, k \in Nat : a = j * Block /\ b = k * Block
    BY DEF Whole
<1>2. j < k
    <2> SUFFICES ASSUME j >= k PROVE FALSE
        BY <1>1
    <2>1. (j - k) * Block >= 0 /\ (j - k) * Block = j * Block - k * Block
        BY SMT
    <2> QED
        BY <1>1, <2>1
<1>3. (k - (j + 1)) * Block >= 0
    BY <1>2, SMT
<1>4. (k - (j + 1)) * Block = k * Block - j * Block - Block
    BY SMT
<1> QED
    BY <1>1, <1>3, <1>4

\* What a member occupies.
LEMMA EntryLengths ==
    ASSUME NEW e \in Entries
    PROVE  /\ e.headers * Block \in Nat /\ e.headers * Block >= Block
           /\ e.headers * Block = Block * e.headers /\ Whole(e.headers * Block)
           /\ OnTape(e) \in Nat /\ Whole(OnTape(e))
           /\ Span(e) = e.headers * Block + OnTape(e)
           /\ Parsed(e) \in Nat /\ Parsed(e) >= e.headers * Block
           /\ Span(e) \in Nat /\ Whole(Span(e))
<1>1. Block \in Nat \ {0} /\ e.headers \in Nat \ {0} /\ e.size \in Nat
    BY ArchiveAssumption DEF Entries
<1>2. PICK h \in Nat : h = e.headers * Block
    BY <1>1, ProductIsNat
<1>3. h >= Block /\ h = Block * e.headers /\ Whole(h)
    <2>1. (e.headers - 1) * Block \in Nat
        BY <1>1, ProductIsNat
    <2>2. (e.headers - 1) * Block = h - Block
        BY <1>1, <1>2
    <2>3. h >= Block
        BY <1>1, <2>1, <2>2
    <2>4. h = Block * e.headers
        BY <1>1, <1>2
    <2>5. Whole(h)
        BY <1>1, <1>2 DEF Whole
    <2> QED
        BY <2>3, <2>4, <2>5
<1>4. OnTape(e) \in Nat /\ Whole(OnTape(e))
    <2>1. 0 * Block = 0
        BY <1>1
    <2>2. (e.size + Block - 1) \div Block \in Nat
        BY <1>1
    <2>3. Whole(0) /\ Whole(Padded(e.size))
        BY <2>1, <2>2 DEF Whole, Padded
    <2> QED
        BY <1>1, <2>3, PaddedIsNat DEF OnTape
<1>5. Span(e) = h + OnTape(e) /\ Parsed(e) \in {h, h + OnTape(e)}
    BY <1>2, <1>4 DEF Span, Parsed
<1> QED
    BY <1>1, <1>2, <1>3, <1>4, <1>5, WholeSum

\* Where members end, and what is read to get past their headers.
LEMMA MembersOnTape ==
    ASSUME NEW p \in Package
    PROVE  /\ Len(p.entries) \in Nat /\ p.length \in Nat
           /\ DOMAIN p.entries = 1..Len(p.entries)
           /\ \A n \in 1..Len(p.entries) : p.entries[n] \in Entries
           /\ Ends(p.entries)[0] = 0 /\ Costs(p.entries)[0] = 0
           /\ \A n \in 0..Len(p.entries) :
                 /\ Ends(p.entries)[n] \in Nat /\ Costs(p.entries)[n] \in Nat
                 /\ Whole(Ends(p.entries)[n])
           /\ \A n \in 1..Len(p.entries) :
                 /\ Ends(p.entries)[n] = Ends(p.entries)[n - 1] + Span(p.entries[n])
                 /\ Costs(p.entries)[n] = Costs(p.entries)[n - 1] + Parsed(p.entries[n])
           /\ \A i, j \in 0..Len(p.entries) : i <= j =>
                 /\ Ends(p.entries)[i] <= Ends(p.entries)[j]
                 /\ Costs(p.entries)[i] <= Costs(p.entries)[j]
<1> DEFINE spans == [i \in DOMAIN p.entries |-> Span(p.entries[i])]
           costs == [i \in DOMAIN p.entries |-> Parsed(p.entries[i])]
<1>1. /\ p.entries \in Seq(Entries) /\ p.length \in Nat
      /\ Len(p.entries) \in Nat /\ DOMAIN p.entries = 1..Len(p.entries)
      /\ \A n \in 1..Len(p.entries) : p.entries[n] \in Entries
    BY ArchiveAssumption
<1>2. /\ spans \in Seq(Nat) /\ Len(spans) = Len(p.entries)
      /\ costs \in Seq(Nat) /\ Len(costs) = Len(p.entries)
    <2>1. \A n \in 1..Len(p.entries) :
             Span(p.entries[n]) \in Nat /\ Parsed(p.entries[n]) \in Nat
        BY <1>1, EntryLengths
    <2> QED
        BY <1>1, <2>1
<1>3. Ends(p.entries) = Sums(spans) /\ Costs(p.entries) = Sums(costs)
    BY DEF Ends, Costs
<1>4. \A n \in 1..Len(p.entries) :
         spans[n] = Span(p.entries[n]) /\ costs[n] = Parsed(p.entries[n])
    BY <1>1
<1> HIDE DEF spans, costs
<1>5. /\ Sums(spans)[0] = 0 /\ Sums(costs)[0] = 0
      /\ \A n \in 0..Len(p.entries) : Sums(spans)[n] \in Nat /\ Sums(costs)[n] \in Nat
      /\ \A n \in 1..Len(p.entries) :
            /\ Sums(spans)[n] = Sums(spans)[n - 1] + spans[n]
            /\ Sums(costs)[n] = Sums(costs)[n - 1] + costs[n]
    BY <1>2, SumsAdd
<1>6. \A i, j \in 0..Len(p.entries) : i <= j =>
         Sums(spans)[i] <= Sums(spans)[j] /\ Sums(costs)[i] <= Sums(costs)[j]
    BY <1>2, SumsGrow
<1>7. \A n \in 0..Len(p.entries) : Whole(Sums(spans)[n])
    <2> DEFINE P == {n \in 0..Len(p.entries) : Whole(Sums(spans)[n])}
    <2>1. 0 \in P
        <3>1. 0 = 0 * Block
            BY ArchiveAssumption
        <3> QED
            BY <1>1, <1>5, <3>1 DEF Whole
    <2>2. ASSUME NEW m \in 0..Len(p.entries) - 1, m \in P PROVE m + 1 \in P
        <3>1. m + 1 \in 1..Len(p.entries) /\ (m + 1) - 1 = m
            BY <1>1
        <3>2. Sums(spans)[m + 1] = Sums(spans)[m] + Span(p.entries[m + 1])
            BY <1>4, <1>5, <3>1
        <3>3. Whole(Span(p.entries[m + 1]))
            BY <1>1, <3>1, EntryLengths
        <3> QED
            BY <1>1, <2>2, <3>2, <3>3, WholeSum
    <2>3. 0..Len(p.entries) \subseteq P
        <3> HIDE DEF P
        <3> QED
            BY <1>1, <2>1, <2>2, Induction
    <2> QED
        BY <2>3
<1> QED
    BY <1>1, <1>3, <1>4, <1>5, <1>6, <1>7

\* The members whose headers are in the stream and can be parsed come first, and
\* are counted.
LEMMA CountIsLast ==
    ASSUME NEW p \in Package
    PROVE  /\ Count(p) \in 0..Len(p.entries)
           /\ \A i \in 1..Len(p.entries) :
                 (/\ Ends(p.entries)[i - 1] + p.entries[i].headers * Block <= p.length
                  /\ \A j \in 1..i : p.entries[j].type \notin Unparsed)
                 <=> i <= Count(p)
<1> DEFINE N == Len(p.entries)
           E == Ends(p.entries)
           H == {i \in 1..N :
                    /\ E[i - 1] + p.entries[i].headers * Block <= p.length
                    /\ \A j \in 1..i : p.entries[j].type \notin Unparsed}
<1>1. /\ N \in Nat /\ p.length \in Nat /\ DOMAIN p.entries = 1..N
      /\ \A n \in 0..N : E[n] \in Nat
    BY MembersOnTape
<1>2. ASSUME NEW i \in H, NEW j \in 1..N, j < i PROVE j \in H
    <2>1. /\ E[j] = E[j - 1] + Span(p.entries[j]) /\ E[j] <= E[i - 1]
          /\ E[j - 1] \in Nat /\ E[j] \in Nat /\ E[i - 1] \in Nat
          /\ p.entries[i] \in Entries /\ p.entries[j] \in Entries
        <3>1. j \in 0..N /\ i - 1 \in 0..N /\ j - 1 \in 0..N /\ j <= i - 1
            BY <1>1, <1>2
        <3> QED
            BY <1>1, <3>1, MembersOnTape
    <2>2. PICK h \in Nat : h = p.entries[i].headers * Block
        BY <2>1, EntryLengths
    <2>3. PICK g \in Nat, t \in Nat :
            g = p.entries[j].headers * Block /\ Span(p.entries[j]) = g + t
        BY <2>1, EntryLengths
    <2>4. E[i - 1] + h <= p.length
        BY <2>2
    <2>5. E[j - 1] + g <= p.length
        <3>1. PICK a \in Nat, b \in Nat, c \in Nat :
                a = E[j - 1] /\ b = E[j] /\ c = E[i - 1]
            BY <2>1
        <3>2. b = a + (g + t) /\ b <= c
            BY <2>1, <2>3, <3>1
        <3>3. c + h <= p.length
            BY <2>4, <3>1
        <3>4. p.length \in Nat
            BY <1>1
        <3>5. a + g <= b /\ c <= p.length
            BY <3>2, <3>3, <3>4
        <3>6. a + g <= p.length
            BY <3>2, <3>4, <3>5
        <3> QED
            BY <3>1, <3>6
    <2>6. \A l \in 1..j : l \in 1..i
        BY <1>1, <1>2
    <2>7. \A l \in 1..j : p.entries[l].type \notin Unparsed
        BY <2>6
    <2> QED
        BY <2>3, <2>5, <2>7
<1> HIDE DEF E
<1>3. PICK k \in 0..N : H = 1..k
    <2> DEFINE P == {n \in 0..N : \E k \in 0..n : H \cap (1..n) = 1..k}
    <2>1. 0 \in P
        <3>1. H \cap (1..0) = 1..0 /\ 0 \in 0..0 /\ 0 \in 0..N
            BY <1>1
        <3> HIDE DEF H, N
        <3> QED
            BY <3>1
    <2>2. ASSUME NEW m \in 0..N - 1, m \in P PROVE m + 1 \in P
        <3>1. m + 1 \in 0..N /\ m + 1 \in 1..N /\ 1..m + 1 = (1..m) \cup {m + 1}
            BY <1>1
        <3>2. CASE m + 1 \in H
            <4>1. \A j \in 1..m + 1 : j = m + 1 \/ (j \in 1..N /\ j < m + 1)
                BY <1>1
            <4> HIDE DEF H
            <4>3. \A j \in 1..m + 1 : j \in H
                BY <1>2, <3>2, <4>1
            <4>2. H \cap (1..m + 1) = 1..m + 1 /\ m + 1 \in 0..m + 1
                BY <3>1, <4>3
            <4> HIDE DEF N
            <4> QED
                BY <3>1, <4>2
        <3>3. CASE m + 1 \notin H
            <4>1. PICK k \in 0..m : H \cap (1..m) = 1..k
                BY <2>2
            <4> HIDE DEF H, N
            <4>2. H \cap (1..m + 1) = 1..k /\ k \in 0..m + 1
                BY <3>1, <3>3, <4>1
            <4> QED
                BY <3>1, <4>2
        <3> QED
            BY <3>2, <3>3
    <2>3. 0..N \subseteq P
        <3> HIDE DEF P, N
        <3> QED
            BY <1>1, <2>1, <2>2, Induction
    <2>4. N \in P
        <3> HIDE DEF P
        <3> QED
            BY <1>1, <2>3
    <2>5. H \cap (1..N) = H
        OBVIOUS
    <2> HIDE DEF H, N
    <2> QED
        BY <2>4, <2>5
<1>4. Count(p) = Cardinality(H)
    BY <1>1 DEF Count, E
<1>5. Cardinality(1..k) = k
    BY <1>1, FS_Interval
<1>6. Count(p) = k /\ k \in 0..Len(p.entries)
    BY <1>3, <1>4, <1>5
<1>7. \A i \in 1..N : i \in H <=> i <= k
    <2> HIDE DEF H
    <2> QED
        BY <1>1, <1>3
<1>8. ASSUME NEW i \in 1..Len(p.entries)
      PROVE  (/\ Ends(p.entries)[i - 1] + p.entries[i].headers * Block <= p.length
              /\ \A j \in 1..i : p.entries[j].type \notin Unparsed)
             <=> i <= k
    BY <1>7, <1>8 DEF E
<1> QED
    BY <1>6, <1>8

-----------------------------------------------------------------------------
(* The place in the stream: tarfile's positions are where the reference says
   members begin and end, and what it has read is what the reference charges.
   Reads return whole blocks, headers and payloads occupy whole blocks, so no
   read goes beyond the header or the payload it is for. *)

EndOf(n)    == Ends(package.entries)[n]
CostOf(n)   == Costs(package.entries)[n]
HeaderOf(n) == package.entries[n].headers * Block

\* tarfile is at the member that begins where those before it end.  The headers
\* of these, and of a member whose payload is being read, are in the stream.
Located ==
    /\ start = EndOf(at - 1) /\ at - 1 <= Count(package)
    /\ pc \in {"skip", "body"} => at <= Count(package)
    /\ consumed <= package.length

\* What has been read, and what of it on the way to a member.
Accounted ==
    /\ pc = "open" => at = 1 /\ consumed = 0 /\ parsing = 0
    /\ pc \in {"header", "skip", "body"} =>
          Whole(consumed) \/ consumed = package.length
    /\ pc = "header" =>
          consumed <= HeaderEnd /\ parsing = CostOf(at - 1) + (consumed - start)
    /\ pc \in {"skip", "body"} =>
          /\ HeaderEnd <= consumed /\ consumed <= PayloadEnd
          /\ parsing = CostOf(at - 1) + HeaderOf(at)
          /\ Entry.type \in {"regular", "contiguous"}

\* The member tarfile is at, on the tape.
Placed ==
    /\ Len(package.entries) \in Nat /\ Count(package) \in 0..Len(package.entries)
    /\ at \in 1..Len(package.entries) + 1 /\ Block \in Nat \ {0}
    /\ start \in Nat /\ CostOf(at - 1) \in Nat
    /\ HeaderEnd \in Nat /\ start + Block <= HeaderEnd /\ Whole(HeaderEnd)
    /\ ~AtEnd <=> at <= Len(package.entries)
    /\ AtEnd => HeaderEnd = start + Block
    /\ ~AtEnd =>
          /\ Entry \in Entries /\ Entry = package.entries[at]
          /\ HeaderOf(at) \in Nat /\ HeaderEnd = start + HeaderOf(at)
          /\ PayloadEnd = HeaderEnd + Padded(Entry.size)
          /\ PayloadEnd \in Nat /\ Whole(PayloadEnd) /\ HeaderEnd <= PayloadEnd
          /\ EndOf(at) = HeaderEnd + OnTape(Entry) /\ OnTape(Entry) \in Nat
          /\ CostOf(at) = CostOf(at - 1) + Parsed(Entry)
          /\ Parsed(Entry) = HeaderOf(at)
                              + IF Entry.type = "unknown" THEN OnTape(Entry) ELSE 0
          /\ CostOf(at) \in Nat
          /\ HeaderEnd <= package.length /\ Entry.type \notin Unparsed
                <=> at <= Count(package)

\* All of this follows from where tarfile is.
LEMMA MemberIsPlaced == Typed /\ Located => Placed
<1> SUFFICES ASSUME Typed, Located PROVE Placed
    OBVIOUS
<1>1. /\ package \in Package /\ at \in Nat \ {0} /\ start \in Nat
      /\ Block \in Nat \ {0}
    BY ArchiveAssumption DEF Typed, TypeOK
<1>2. /\ Count(package) \in 0..Len(package.entries) /\ Len(package.entries) \in Nat
      /\ at - 1 \in 0..Len(package.entries)
    BY <1>1, MembersOnTape, CountIsLast DEF Located
<1>3. /\ start = EndOf(at - 1) /\ Whole(start) /\ CostOf(at - 1) \in Nat
      /\ ~AtEnd <=> at <= Len(package.entries)
    <2>1. start = EndOf(at - 1)
        BY DEF Located
    <2>2. Whole(EndOf(at - 1)) /\ CostOf(at - 1) \in Nat
        BY <1>1, <1>2, MembersOnTape DEF EndOf, CostOf
    <2>3. ~AtEnd <=> at <= Len(package.entries)
        BY <1>1, <1>2 DEF AtEnd
    <2> QED
        BY <2>1, <2>2, <2>3
<1>4. CASE AtEnd
    <2>1. Block = 1 * Block
        BY <1>1
    <2>2. HeaderEnd = start + Block
        <3>1. Block * 1 = Block
            BY <1>1
        <3> QED
            BY <1>4, <3>1 DEF HeaderEnd
    <2>3. Whole(Block)
        BY <2>1 DEF Whole
    <2> QED
        BY <1>1, <1>2, <1>3, <1>4, <2>2, <2>3, WholeSum DEF Placed
<1>5. CASE ~AtEnd
    <2>1. at \in 1..Len(package.entries) /\ Entry = package.entries[at]
        BY <1>1, <1>2, <1>3, <1>5 DEF Entry
    <2>2. Entry \in Entries
        BY <1>1, <2>1, MembersOnTape
    <2>3. PICK h \in Nat : h = HeaderOf(at)
        BY <2>1, <2>2, EntryLengths DEF HeaderOf
    <2>4. /\ h = Block * Entry.headers /\ Block <= h /\ Whole(h)
          /\ OnTape(Entry) \in Nat /\ Span(Entry) = h + OnTape(Entry)
          /\ Parsed(Entry) \in Nat
          /\ Parsed(Entry) = h + IF Entry.type = "unknown" THEN OnTape(Entry) ELSE 0
        BY <2>1, <2>2, <2>3, EntryLengths DEF HeaderOf, Parsed
    <2>5. HeaderEnd = start + h /\ PayloadEnd = HeaderEnd + Padded(Entry.size)
        BY <1>5, <2>4 DEF HeaderEnd, PayloadEnd
    <2>6. Padded(Entry.size) \in Nat /\ Whole(Padded(Entry.size))
        <3>1. (Entry.size + Block - 1) \div Block \in Nat /\ Entry.size \in Nat
            BY <1>1, <2>2 DEF Entries
        <3> QED
            BY <3>1, PaddedIsNat DEF Whole, Padded
    <2>7. /\ EndOf(at) = start + Span(Entry) /\ CostOf(at) = CostOf(at - 1) + Parsed(Entry)
        BY <1>1, <1>3, <2>1, MembersOnTape DEF EndOf, CostOf
    <2>8. start + h <= package.length /\ Entry.type \notin Unparsed
             <=> at <= Count(package)
        <3>1. \A j \in 1..at - 1 : package.entries[j].type \notin Unparsed
            <4>1. SUFFICES ASSUME NEW j \in 1..at - 1
                  PROVE  package.entries[j].type \notin Unparsed
                OBVIOUS
            <4>2. j \in 1..Len(package.entries) /\ j <= Count(package) /\ j \in 1..j
                BY <1>1, <1>2, <2>1 DEF Located
            <4> QED
                BY <1>1, <4>2, CountIsLast
        <3>2. 1..at = (1..at - 1) \cup {at}
            BY <1>1
        <3>3. start + h <= package.length
                 /\ (\A j \in 1..at : package.entries[j].type \notin Unparsed)
                 <=> at <= Count(package)
            BY <1>1, <1>3, <2>1, <2>3, CountIsLast DEF EndOf, HeaderOf
        <3> QED
            BY <2>1, <3>1, <3>2, <3>3
    <2>9. Whole(HeaderEnd) /\ Whole(PayloadEnd)
        BY <1>3, <2>4, <2>5, <2>6, WholeSum
    <2>10. /\ HeaderEnd \in Nat /\ PayloadEnd \in Nat /\ start + Block <= HeaderEnd
           /\ HeaderEnd <= PayloadEnd
           /\ EndOf(at) = HeaderEnd + OnTape(Entry) /\ CostOf(at) \in Nat
        <3> HIDE DEF HeaderEnd, PayloadEnd
        <3>1. HeaderEnd \in Nat /\ start + Block <= HeaderEnd
            BY <1>1, <2>4, <2>5
        <3>2. PayloadEnd \in Nat /\ HeaderEnd <= PayloadEnd
            BY <2>5, <2>6, <3>1
        <3>3. EndOf(at) = HeaderEnd + OnTape(Entry)
            BY <1>1, <2>4, <2>5, <2>7
        <3>4. CostOf(at) \in Nat
            BY <1>3, <2>4, <2>7
        <3> QED
            BY <3>1, <3>2, <3>3, <3>4
    <2> HIDE DEF HeaderEnd, PayloadEnd
    <2>11. /\ HeaderOf(at) \in Nat /\ HeaderEnd = start + HeaderOf(at)
           /\ Parsed(Entry) = HeaderOf(at)
                              + IF Entry.type = "unknown" THEN OnTape(Entry) ELSE 0
        BY <2>3, <2>4, <2>5
    <2>12. HeaderEnd <= package.length /\ Entry.type \notin Unparsed
              <=> at <= Count(package)
        BY <2>3, <2>5, <2>8
    <2>13. /\ at \in 1..Len(package.entries) + 1
           /\ Whole(HeaderEnd) /\ HeaderEnd \in Nat /\ start + Block <= HeaderEnd
        BY <1>2, <2>1, <2>9, <2>10
    <2>14. /\ Whole(PayloadEnd) /\ PayloadEnd \in Nat /\ HeaderEnd <= PayloadEnd
           /\ EndOf(at) = HeaderEnd + OnTape(Entry) /\ OnTape(Entry) \in Nat
           /\ CostOf(at) = CostOf(at - 1) + Parsed(Entry) /\ CostOf(at) \in Nat
        BY <2>4, <2>7, <2>9, <2>10
    <2> QED
        BY <1>1, <1>2, <1>3, <1>5, <2>1, <2>2, <2>5, <2>11, <2>12, <2>13, <2>14,
           Zenon DEF Placed
<1> QED
    BY <1>4, <1>5

\* At least one byte is asked for.
LEMMA AskedIsPositive ==
    ASSUME Typed, Kept, pc \in {"header", "skip", "body"}
    PROVE  /\ Asked \in Nat \ {0} /\ Asked <= Block
           /\ \/ Asked = Block \/ Asked = remaining + 1
              \/ reading_metadata /\ Asked = metadata_remaining + 1
<1>1. /\ Block \in Nat \ {0} /\ remaining \in Nat /\ metadata_remaining \in Nat
      /\ reading_metadata \in BOOLEAN
    BY AssumedTypes DEF Typed, TypeOK, Kept
<1>2. CASE reading_metadata
    <2>1. Asked = Least({Block, remaining + 1, metadata_remaining + 1})
        <3>1. {Block, remaining + 1} \cup {metadata_remaining + 1}
                 = {Block, remaining + 1, metadata_remaining + 1}
            OBVIOUS
        <3> QED
            BY <1>2, <3>1 DEF Asked
    <2>2. remaining + 1 \in Nat \ {0} /\ metadata_remaining + 1 \in Nat \ {0}
        BY <1>1
    <2>3. Block \in Int /\ remaining + 1 \in Int /\ metadata_remaining + 1 \in Int
        BY <1>1
    <2>4. /\ Asked \in {Block, remaining + 1, metadata_remaining + 1}
          /\ Asked <= Block
        BY <2>1, <2>3, LeastOfThree
    <2> QED
        BY <1>1, <1>2, <2>2, <2>4
<1>3. CASE ~reading_metadata
    <2>1. Asked = Least({Block, remaining + 1})
        <3>1. {Block, remaining + 1} \cup {} = {Block, remaining + 1}
            OBVIOUS
        <3> QED
            BY <1>3, <3>1 DEF Asked
    <2>2. remaining + 1 \in Nat \ {0}
        BY <1>1
    <2>3. Asked \in {Block, remaining + 1} /\ Asked <= Block
        BY <1>1, <2>1, <2>2, LeastOfTwo
    <2> QED
        BY <1>1, <2>2, <2>3
<1> QED
    BY <1>1, <1>2, <1>3

\* A read ends the inspection exactly if it goes beyond a budget, and otherwise
\* returns a block or what is left of the stream.
LEMMA ReadIsWhole ==
    ASSUME Typed, Switch, Kept, ReadBlock
    PROVE  /\ consumed' \in Nat /\ parsing' \in Nat
           /\ consumed < consumed' /\ consumed' <= consumed + Block
           /\ consumed' <= package.length
           /\ pc' \in {pc, "invalid"}
           /\ pc' # "invalid" =>
                 /\ consumed' = consumed + Block \/ consumed' = package.length
                 /\ parsing' = parsing + IF pc = "header" THEN consumed' - consumed ELSE 0
           /\ pc' = "invalid" =>
                 \/ consumed' > MaxExpanded
                 \/ /\ pc = "header" /\ parsing' = parsing + (consumed' - consumed)
                    /\ parsing' > MaxMetadata
<1> DEFINE data == Least({Asked, package.length - consumed})
<1>1. pc \in {"header", "skip", "body"} /\ consumed < package.length
    BY DEF ReadBlock, Reading
<1>2. /\ Block \in Nat \ {0} /\ package.length \in Nat /\ consumed \in Nat
      /\ parsing \in Nat /\ MaxExpanded \in Nat /\ MaxMetadata \in Nat
      /\ remaining = MaxExpanded - consumed /\ metadata_remaining = MaxMetadata - parsing
      /\ remaining >= 0 /\ metadata_remaining >= 0
    BY <1>1, AssumedTypes DEF Typed, TypeOK, Kept
<1>3. /\ pc = "header" => reading_metadata = TRUE
      /\ pc # "header" => reading_metadata = FALSE
    BY <1>1 DEF Switch
<1>4. /\ Asked \in Nat \ {0} /\ Asked <= Block
      /\ \/ Asked = Block \/ Asked = remaining + 1
         \/ pc = "header" /\ Asked = metadata_remaining + 1
    BY <1>1, <1>3, AskedIsPositive
<1>5. /\ data \in {Asked, package.length - consumed}
      /\ data <= Asked /\ data <= package.length - consumed
    <2>1. Asked \in Int /\ package.length - consumed \in Int
        BY <1>2, <1>4
    <2> QED
        BY <2>1, LeastOfTwo
<1>6. /\ consumed' = consumed + data
      /\ pc' = IF remaining - data < 0
                  \/ metadata_remaining - (IF reading_metadata THEN data ELSE 0) < 0
               THEN "invalid" ELSE pc
      /\ parsing' = parsing + IF pc = "header" /\ remaining >= data THEN data ELSE 0
    BY DEF ReadBlock, data
<1> HIDE DEF data
<1>7. data \in Nat \ {0}
    BY <1>1, <1>2, <1>4, <1>5
<1>8. pc' = IF remaining - data < 0 \/ (pc = "header" /\ metadata_remaining - data < 0)
             THEN "invalid" ELSE pc
    <2>1. CASE pc = "header"
        <3>1. reading_metadata
            BY <1>3, <2>1
        <3> QED
            BY <1>6, <2>1, <3>1
    <2>2. CASE pc # "header"
        <3>1. ~reading_metadata /\ ~(metadata_remaining - 0 < 0)
            BY <1>2, <1>3, <2>2
        <3> QED
            BY <1>6, <2>2, <3>1
    <2> QED
        BY <2>1, <2>2
<1>9. /\ consumed' \in Nat /\ consumed < consumed' /\ consumed' <= consumed + Block
      /\ consumed' <= package.length
    BY <1>1, <1>2, <1>4, <1>5, <1>6, <1>7
<1>10. parsing' \in Nat /\ pc' \in {pc, "invalid"}
    BY <1>2, <1>6, <1>7
<1>11. ASSUME pc' # "invalid"
       PROVE  /\ consumed' = consumed + Block \/ consumed' = package.length
              /\ parsing' = parsing + IF pc = "header" THEN consumed' - consumed ELSE 0
    <2>1. remaining - data >= 0 /\ (pc = "header" => metadata_remaining - data >= 0)
        BY <1>1, <1>2, <1>7, <1>11, <1>8
    <2>2. Asked = Block \/ data = package.length - consumed
        BY <1>2, <1>4, <1>5, <1>7, <2>1
    <2> QED
        BY <1>2, <1>4, <1>5, <1>6, <1>7, <2>1, <2>2
<1>12. ASSUME pc' = "invalid"
       PROVE  \/ consumed' > MaxExpanded
              \/ /\ pc = "header" /\ parsing' = parsing + (consumed' - consumed)
                 /\ parsing' > MaxMetadata
    <2>1. remaining - data < 0 \/ (pc = "header" /\ metadata_remaining - data < 0)
        BY <1>1, <1>12, <1>8
    <2> QED
        BY <1>2, <1>6, <1>7, <2>1
<1> QED
    BY <1>9, <1>10, <1>11, <1>12

\* tarfile begins at the first member.
LEMMA InitPlace == Init => Located /\ Accounted
<1> SUFFICES ASSUME Init PROVE Located /\ Accounted
    OBVIOUS
<1>1. package \in Package /\ at = 1 /\ start = 0 /\ consumed = 0 /\ pc = "open" /\ parsing = 0
    BY DEF Init
<1>2. Count(package) >= 0 /\ EndOf(0) = 0 /\ package.length >= 0
    BY <1>1, MembersOnTape, CountIsLast DEF EndOf
<1>3. at - 1 = 0
    BY <1>1
<1> QED
    BY <1>1, <1>2, <1>3 DEF Located, Accounted

\* A read ends where tarfile has to read, or before.
LEMMA ReadsUpToTarget ==
    ASSUME Typed, Switch, Kept, Located, Accounted, ReadBlock
    PROVE  consumed' <= Target
<1>1. Placed /\ consumed < Target /\ consumed < package.length
    BY MemberIsPlaced DEF ReadBlock, Reading
<1>2. pc \in {"header", "skip", "body"}
    BY DEF ReadBlock, Reading
<1>3. pc # "header" => ~AtEnd
    BY <1>1, <1>2 DEF Located, Placed
<1>4. Whole(Target) /\ Target \in Nat
    BY <1>1, <1>3 DEF Placed, Target
<1>5. consumed \in Nat /\ package.length \in Nat
    BY DEF Typed, TypeOK
<1>6. Whole(consumed)
    BY <1>1, <1>2, <1>5 DEF Accounted
<1>7. consumed + Block <= Target
    BY <1>1, <1>4, <1>6, WholeGap
<1>8. consumed' \in Nat /\ consumed' <= consumed + Block /\ Block \in Nat
    BY <1>1, ReadIsWhole DEF Placed
<1> QED
    BY <1>4, <1>5, <1>7, <1>8

\* The parser goes on where the member ends.
LEMMA MemberPasses ==
    ASSUME Typed, Typed', Located, Placed, NextMember,
           UNCHANGED <<package, consumed, parsing>>, at <= Count(package),
           parsing = CostOf(at - 1) + HeaderOf(at),
           consumed = IF Entry.type \in {"regular", "contiguous"} THEN PayloadEnd
                                                                 ELSE HeaderEnd,
           Entry.type # "sparse",
           Whole(consumed) \/ consumed = package.length
    PROVE  Located' /\ Accounted'
<1>1. /\ at' = at + 1 /\ pc' = "header" /\ package' = package
      /\ consumed' = consumed /\ parsing' = parsing
      /\ start' = IF Entry.type = "link" THEN HeaderEnd ELSE PayloadEnd
    BY DEF NextMember
<1>2. /\ at \in Nat /\ at' - 1 = at /\ ~AtEnd /\ Count(package) \in Nat
      /\ EndOf(at) = HeaderEnd + OnTape(Entry) /\ OnTape(Entry) \in Nat
      /\ PayloadEnd = HeaderEnd + Padded(Entry.size) /\ Padded(Entry.size) \in Nat
      /\ CostOf(at - 1) \in Nat /\ HeaderOf(at) \in Nat /\ HeaderEnd \in Nat
      /\ HeaderEnd = start + HeaderOf(at) /\ start \in Nat /\ Entry \in Entries
      /\ CostOf(at) = CostOf(at - 1) + Parsed(Entry)
      /\ Parsed(Entry) = HeaderOf(at) + IF Entry.type = "unknown" THEN OnTape(Entry) ELSE 0
    <2>1. at \in Nat /\ at' - 1 = at /\ Count(package) \in Nat /\ ~AtEnd
        BY <1>1 DEF Placed
    <2>2. Padded(Entry.size) \in Nat
        BY <2>1, PaddedIsNat DEF Placed, Entries
    <2> QED
        BY <2>1, <2>2 DEF Placed
<1>3. OnTape(Entry) = IF Entry.type = "link" THEN 0 ELSE Padded(Entry.size)
    BY DEF OnTape
<1>4. Entry.type \in {"regular", "contiguous", "link", "unknown"}
    <2>1. Entry.type \notin Unparsed
        BY <1>2 DEF Placed
    <2> QED
        BY <1>2, <2>1 DEF Entries, Types
<1>5. start' = EndOf(at)
    BY <1>1, <1>2, <1>3
<1>6. (EndOf(at - 1))' = EndOf(at) /\ (CostOf(at - 1))' = CostOf(at)
    BY <1>1, <1>2 DEF EndOf, CostOf
<1>7. Located'
    <2>1. Count(package') = Count(package) /\ package'.length = package.length
        BY <1>1
    <2>2. start' = (EndOf(at - 1))' /\ at' - 1 <= Count(package')
        BY <1>2, <1>5, <1>6, <2>1
    <2> QED
        BY <1>1, <2>1, <2>2 DEF Located
<1>8. HeaderEnd' \in Nat /\ start' + Block <= HeaderEnd' /\ Block \in Nat
    <2>1. Placed'
        BY <1>7, MemberIsPlaced, PTL
    <2> QED
        BY <2>1 DEF Placed
<1>9. consumed <= start' /\ start' \in Nat /\ consumed \in Nat
    BY <1>1, <1>2, <1>4
<1>10. consumed' <= HeaderEnd'
    BY <1>1, <1>8, <1>9
<1>11. parsing' = CostOf(at) + (consumed' - start')
    <2>1. CASE Entry.type \in {"regular", "contiguous"}
        <3>1. PICK a \in Nat, h \in Nat, l \in Nat :
                a = CostOf(at - 1) /\ h = HeaderOf(at) /\ l = Padded(Entry.size)
            BY <1>2
        <3>2. parsing' = a + h /\ CostOf(at) = a + h
            BY <1>1, <1>2, <2>1, <3>1
        <3>3. consumed' = start'
            BY <1>1, <2>1
        <3>4. start' \in Nat
            BY <1>9
        <3> QED
            BY <3>2, <3>3, <3>4
    <2>2. CASE Entry.type = "link"
        BY <1>1, <1>2, <2>2
    <2>3. CASE Entry.type = "unknown"
        BY <1>1, <1>2, <1>3, <2>3
    <2> QED
        BY <1>4, <2>1, <2>2, <2>3
<1>12. parsing' = (CostOf(at - 1) + (consumed - start))'
    BY <1>1, <1>2, <1>11 DEF CostOf
<1> QED
    BY <1>1, <1>7, <1>10, <1>12 DEF Accounted

\* Every step keeps the place: only the end of a member moves it.
LEMMA NextPlace ==
    ASSUME Typed, Typed', Switch, Kept, Located, Accounted, [Next]_vars
    PROVE  Located' /\ Accounted'
<1>1. /\ Placed /\ consumed \in Nat /\ package.length \in Nat /\ parsing \in Nat
    BY MemberIsPlaced DEF Typed, TypeOK
<1>2. ASSUME UNCHANGED <<package, at, start>>
      PROVE  /\ HeaderEnd' = HeaderEnd /\ PayloadEnd' = PayloadEnd /\ Entry' = Entry
             /\ (CostOf(at - 1))' = CostOf(at - 1) /\ (EndOf(at - 1))' = EndOf(at - 1)
             /\ HeaderOf(at)' = HeaderOf(at)
    BY <1>2 DEF HeaderEnd, PayloadEnd, Entry, AtEnd, CostOf, EndOf, HeaderOf
<1>3. ASSUME UNCHANGED <<package, at, start, consumed>>,
             pc' \in {"extracted", "invalid", "unreadable"}
      PROVE  Located' /\ Accounted'
    BY <1>2, <1>3 DEF Located, Accounted
<1>4. CASE OpenContainer
    <2>1. /\ UNCHANGED <<package, at, start, consumed, parsing>>
          /\ pc = "open" /\ pc' \in {"invalid", "header"}
        BY <1>4 DEF OpenContainer, budgets
    <2>2. at = 1 /\ consumed = 0 /\ parsing = 0 /\ at - 1 = 0
        BY <2>1 DEF Accounted
    <2>3. start = 0 /\ CostOf(at - 1) = 0 /\ Whole(0)
        BY <2>2, MembersOnTape DEF Located, EndOf, CostOf, Typed, Placed
    <2>4. 0 <= HeaderEnd /\ 0 = 0 + (0 - 0)
        BY <1>1 DEF Placed
    <2>5. Accounted'
        BY <1>2, <2>1, <2>2, <2>3, <2>4 DEF Accounted
    <2>6. Located'
        BY <1>2, <2>1 DEF Located
    <2> QED
        BY <2>5, <2>6
<1>5. CASE ReadBlock
    <2>1. UNCHANGED <<package, at, start>> /\ pc \in {"header", "skip", "body"}
        BY <1>5 DEF ReadBlock, Reading
    <2>2. /\ consumed' \in Nat /\ consumed < consumed' /\ consumed' <= package.length
          /\ pc' \in {pc, "invalid"}
          /\ pc' # "invalid" =>
                /\ consumed' = consumed + Block \/ consumed' = package.length
                /\ parsing' = parsing + IF pc = "header" THEN consumed' - consumed ELSE 0
        BY <1>5, ReadIsWhole
    <2>3. consumed' <= Target /\ consumed < package.length
        BY <1>5, ReadsUpToTarget DEF ReadBlock
    <2>4. Located'
        BY <1>2, <2>1, <2>2 DEF Located
    <2>5. CASE pc' = "invalid"
        BY <2>4, <2>5 DEF Accounted
    <2>6. CASE pc' # "invalid"
        <3>1. pc' = pc
            BY <2>2, <2>6
        <3>2. Whole(consumed') \/ consumed' = package'.length
            <4>1. Whole(consumed)
                BY <1>1, <2>1, <2>3 DEF Accounted
            <4>2. Whole(Block)
                <5>1. Block = 1 * Block
                    BY <1>1 DEF Placed
                <5> QED
                    BY <5>1 DEF Whole
            <4> QED
                BY <2>1, <2>2, <2>6, <4>1, <4>2, WholeSum
        <3>3. CASE pc = "header"
            <4>1. parsing = CostOf(at - 1) + (consumed - start)
                BY <3>3 DEF Accounted
            <4>2. parsing' = CostOf(at - 1) + (consumed' - start)
                BY <1>1, <2>2, <2>6, <3>3, <4>1 DEF Placed
            <4>3. consumed' <= HeaderEnd
                BY <2>3, <3>3 DEF Target
            <4> QED
                BY <1>2, <2>1, <2>4, <3>1, <3>2, <3>3, <4>2, <4>3 DEF Accounted
        <3>4. CASE pc # "header"
            <4>1. parsing' = parsing
                BY <1>1, <2>2, <2>6, <3>4
            <4>2. ~AtEnd
                BY <1>1, <2>1, <3>4 DEF Located, Placed
            <4>3. HeaderEnd <= consumed' /\ consumed' <= PayloadEnd
                BY <1>1, <2>1, <2>2, <2>3, <3>4, <4>2 DEF Accounted, Target, Placed
            <4> QED
                BY <1>2, <2>1, <2>4, <3>1, <3>2, <3>4, <4>1, <4>3 DEF Accounted
        <3> QED
            BY <3>3, <3>4
    <2> QED
        BY <2>5, <2>6
<1>6. CASE EndOfStream \/ EndOfArchive \/ UnparsedHeader \/ Fail
    BY <1>3, <1>6 DEF EndOfStream, EndOfArchive, UnparsedHeader, Fail, budgets
<1>7. CASE InspectMember
    <2>1. /\ pc = "header" /\ ~AtEnd /\ consumed = HeaderEnd
          /\ Entry.type \notin Unparsed
          /\ UNCHANGED <<package, consumed, parsing>>
        BY <1>7 DEF InspectMember, Target, budgets
    <2>2. /\ at <= Count(package) /\ Whole(consumed)
          /\ parsing = CostOf(at - 1) + HeaderOf(at)
        <3>1. parsing = CostOf(at - 1) + (consumed - start) /\ consumed <= package.length
            BY <2>1 DEF Accounted, Located
        <3>2. at <= Count(package) /\ Whole(consumed)
            BY <1>1, <2>1, <3>1 DEF Placed
        <3>3. PICK h \in Nat : h = HeaderOf(at) /\ consumed = start + h
            BY <1>1, <2>1 DEF Placed
        <3>4. start \in Nat /\ CostOf(at - 1) \in Nat
            BY <1>1 DEF Placed
        <3> QED
            BY <3>1, <3>2, <3>3, <3>4
    <2>3. CASE pc' = "invalid" /\ UNCHANGED <<at, start>>
        BY <1>3, <2>1, <2>3
    <2>4. CASE /\ pc' \in {"body", "skip"} /\ UNCHANGED <<at, start>>
               /\ Entry.type \in {"regular", "contiguous"}
        <3>1. HeaderEnd <= consumed' /\ consumed' <= PayloadEnd
            BY <1>1, <2>1 DEF Placed
        <3>2. Located'
            BY <1>2, <2>1, <2>2, <2>4 DEF Located
        <3>3. Accounted'
            BY <1>2, <2>1, <2>2, <2>4, <3>1 DEF Accounted
        <3> QED
            BY <3>2, <3>3
    <2>5. CASE /\ NextMember /\ Entry.type \notin {"regular", "contiguous"}
               /\ SafeMember(Entry)
        BY <1>1, <2>1, <2>2, <2>5, MemberPasses DEF SafeMember
    <2> QED
        BY <1>7, <2>3, <2>4, <2>5 DEF InspectMember, CopiedFile
<1>8. CASE EndSkip \/ EndBody
    <2>1. /\ pc \in {"skip", "body"} /\ consumed = PayloadEnd /\ NextMember
          /\ UNCHANGED <<package, consumed, parsing>>
        BY <1>8 DEF EndSkip, EndBody, Target, budgets, files
    <2>2. /\ at <= Count(package) /\ parsing = CostOf(at - 1) + HeaderOf(at)
          /\ Entry.type \in {"regular", "contiguous"}
          /\ Whole(consumed) \/ consumed = package.length
        BY <2>1 DEF Located, Accounted
    <2> QED
        BY <1>1, <2>1, <2>2, MemberPasses
<1>9. CASE UNCHANGED vars
    <2>1. UNCHANGED <<package, at, start, consumed, parsing, pc>>
        BY <1>9 DEF vars, budgets
    <2> QED
        BY <1>2, <2>1 DEF Located, Accounted
<1> QED
    BY <1>4, <1>5, <1>6, <1>7, <1>8, <1>9 DEF Next

-----------------------------------------------------------------------------
(* The rest of the invariant: what is known of the names and the container *)

\* The streams that tarfile reads to what it takes for the end of the archive,
\* within the budgets, and the packages that are extracted.
Accepted(p) == WithinBudgets(p) /\ (EndsWell(p) \/ EndsUnnoticed(p))

Passes(p) ==
    SoundContainer(p.container) /\ Accepted(p) /\ SoundMembers(Present(p))

\* What is seen has been copied, or is being copied.
SeenIsCopied ==
    /\ pc \in {"open", "header", "skip"} =>
          \A key \in seen : \E i \in extracted : KeyOf(i) = key
    /\ pc = "body" =>
          \A key \in seen : key = KeyOf(at) \/ \E i \in extracted : KeyOf(i) = key

\* Beyond the container, it is sound.
ContainerPassed ==
    pc \notin {"open", "invalid", "unreadable"} => SoundContainer(package.container)

-----------------------------------------------------------------------------
(* What the steps check is what the documentation requires *)

\* The container is refused exactly if it is not sound.
LEMMA ContainerIsChecked ==
    ASSUME Typed
    PROVE  SoundContainer(package.container) <=>
              ~(/\ package.container # None
                /\ \/ ZipReadRaises(package.container.read)
                   \/ Len(package.container.members) > MaxZipMembers
                   \/ ~OneStoredComponent(package.container))
<1>1. CASE package.container = None
    BY <1>1 DEF SoundContainer
<1>2. CASE package.container # None
    <2>1. PICK c \in ZipFiles : c = package.container
        BY <1>2, ArchiveAssumption DEF Typed
    <2>2. /\ c.read.size \in Int /\ c.read.available \in Nat
          /\ Len(c.members) \in Nat /\ DOMAIN c.members = 1..Len(c.members)
          /\ MaxZipRead \in Nat /\ MaxZipMembers \in Nat
        BY ArchiveAssumption DEF ZipFiles
    <2>3. ZipReadRaises(c.read) <=>
             ~((IF c.read.size < 0 THEN c.read.available ELSE c.read.size) <= MaxZipRead)
        <3>1. CASE c.read.size < 0
            <4>1. /\ Least({MaxZipRead + 1, c.read.available})
                        \in {MaxZipRead + 1, c.read.available}
                  /\ Least({MaxZipRead + 1, c.read.available}) <= MaxZipRead + 1
                  /\ Least({MaxZipRead + 1, c.read.available}) <= c.read.available
                <5>1. MaxZipRead + 1 \in Int /\ c.read.available \in Int
                    BY <2>2
                <5> QED
                    BY <5>1, LeastOfTwo
            <4> QED
                BY <2>2, <3>1, <4>1 DEF ZipReadRaises
        <3>2. CASE ~(c.read.size < 0)
            <4>1. /\ Least({c.read.size, c.read.available}) \in Int
                  /\ Least({c.read.size, c.read.available}) <= c.read.size
                <5>1. c.read.size \in Int /\ c.read.available \in Int
                    BY <2>2
                <5> QED
                    BY <5>1, LeastOfTwo
            <4> QED
                BY <2>2, <3>2, <4>1 DEF ZipReadRaises
        <3> QED
            BY <3>1, <3>2
    <2>4. OneStoredComponent(c) <=>
             \E i \in DOMAIN c.members :
                /\ c.members[i].stored
                /\ {j \in DOMAIN c.members : c.members[j].matches} = {i}
        <3>1. IsFiniteSet(Matching(c))
            <4>1. Matching(c) \in SUBSET (1..Len(c.members))
                BY <2>2 DEF Matching
            <4>2. IsFiniteSet(1..Len(c.members))
                BY <2>2, FS_Interval
            <4> QED
                BY <4>1, <4>2, FS_Subset
        <3>2. Cardinality(Matching(c)) = 1 <=> \E i : Matching(c) = {i}
            BY <3>1, FS_Singleton
        <3> QED
            BY <3>2 DEF OneStoredComponent, Matching
    <2>5. Len(c.members) <= MaxZipMembers <=> ~(Len(c.members) > MaxZipMembers)
        BY <2>2
    <2> QED
        BY <1>2, <2>1, <2>3, <2>4, <2>5 DEF SoundContainer
<1> QED
    BY <1>1, <1>2

\* The members in the stream are the first ones.
LEMMA PresentAreFirst ==
    ASSUME NEW p \in Package
    PROVE  /\ Len(Present(p)) = Count(p) /\ DOMAIN Present(p) = 1..Count(p)
           /\ \A i \in 1..Count(p) : Present(p)[i] = p.entries[i]
<1>1. p.entries \in Seq(Entries) /\ Count(p) \in 0..Len(p.entries)
    BY ArchiveAssumption, CountIsLast
<1> QED
    BY <1>1 DEF Present

\* What tarfile looks for behind the members takes at least a block.
LEMMA FollowerIsNat ==
    ASSUME NEW p \in Package
    PROVE  Follower(p) \in Nat /\ Follower(p) >= Block
<1>1. /\ Block \in Nat \ {0} /\ Count(p) \in 0..Len(p.entries) /\ Len(p.entries) \in Nat
      /\ \A n \in 1..Len(p.entries) : p.entries[n] \in Entries
    BY ArchiveAssumption, MembersOnTape, CountIsLast
<1>2. CASE Count(p) < Len(p.entries)
    <2>1. p.entries[Count(p) + 1] \in Entries
        BY <1>1, <1>2
    <2>2. PICK h \in Nat :
            /\ h = p.entries[Count(p) + 1].headers * Block /\ h >= Block
            /\ h = Block * p.entries[Count(p) + 1].headers
        BY <2>1, EntryLengths
    <2> QED
        BY <1>2, <2>2 DEF Follower
<1>3. CASE ~(Count(p) < Len(p.entries))
    <2>1. Block * 1 = Block
        BY <1>1
    <2> QED
        BY <1>1, <1>3, <2>1 DEF Follower
<1> QED
    BY <1>2, <1>3

\* An accepted stream: where its members, and what is read behind them, end is
\* within budgets.
LEMMA AcceptedEnd ==
    ASSUME Typed, Placed, Accepted(package)
    PROVE  \E last \in Nat :
              /\ EndOf(Count(package)) \in Nat /\ CostOf(Count(package)) \in Nat
              /\ EndOf(Count(package)) <= package.length
              /\ last = IF Rest(package) < Follower(package)
                        THEN Rest(package) ELSE Follower(package)
              /\ EndOf(Count(package)) + last <= MaxExpanded
              /\ CostOf(Count(package)) + last <= MaxMetadata
<1>1. /\ EndOf(Count(package)) \in Nat /\ CostOf(Count(package)) \in Nat
      /\ package.length \in Nat
    BY MembersOnTape DEF Typed, Placed, EndOf, CostOf
<1>2. Follower(package) \in Nat
    BY FollowerIsNat DEF Typed
<1>3. PICK last : last = IF Rest(package) < Follower(package)
                         THEN Rest(package) ELSE Follower(package)
    OBVIOUS
<1>4. /\ Rest(package) >= 0 /\ Rest(package) = package.length - EndOf(Count(package))
      /\ EndOf(Count(package)) + last <= MaxExpanded
      /\ CostOf(Count(package)) + last <= MaxMetadata
    BY <1>3 DEF Accepted, WithinBudgets, Rest, EndOf, CostOf
<1>5. last \in Nat /\ EndOf(Count(package)) <= package.length
    BY <1>1, <1>2, <1>3, <1>4
<1> QED
    BY <1>1, <1>3, <1>4, <1>5

\* The member at which the headers in the stream end, or are none.
LEMMA LastIsCounted ==
    ASSUME Typed, Placed, Located,
           AtEnd \/ package.length < HeaderEnd \/ Entry.type \in Unparsed
    PROVE  /\ Count(package) = at - 1 /\ EndOf(Count(package)) = start
           /\ Rest(package) = package.length - start
           /\ Follower(package) = HeaderEnd - start
           /\ AtEnd <=> Count(package) = Len(package.entries)
           /\ ~AtEnd => /\ Count(package) < Len(package.entries)
                        /\ package.entries[Count(package) + 1] = Entry
<1>1. package.length \in Nat
    BY DEF Typed, TypeOK
<1>2. /\ at - 1 <= Count(package) /\ Count(package) \in 0..Len(package.entries)
      /\ Len(package.entries) \in Nat /\ at \in 1..Len(package.entries) + 1
      /\ HeaderEnd \in Nat /\ start \in Nat
    BY DEF Placed, Located
<1>3. Count(package) = at - 1
    <2>1. CASE AtEnd
        <3>1. ~(at <= Len(package.entries))
            BY <2>1 DEF Placed
        <3> QED
            BY <1>2, <3>1
    <2>2. CASE ~AtEnd
        <3>1. ~(HeaderEnd <= package.length) \/ Entry.type \in Unparsed
            BY <1>1, <1>2, <2>2
        <3>2. ~(at <= Count(package))
            BY <2>2, <3>1 DEF Placed
        <3> QED
            BY <1>2, <3>2
    <2> QED
        BY <2>1, <2>2
<1>4. EndOf(Count(package)) = start
    BY <1>3 DEF Located
<1>5. Rest(package) = package.length - start
    BY <1>4 DEF Rest, EndOf
<1>6. AtEnd <=> ~(Count(package) < Len(package.entries))
    BY <1>2, <1>3 DEF Placed
<1>7. ~AtEnd => package.entries[Count(package) + 1] = Entry
    BY <1>2, <1>3 DEF Placed
<1>8. Follower(package) = HeaderEnd - start
    <2>1. Follower(package) \in Nat
        BY FollowerIsNat DEF Typed
    <2>2. Follower(package) = Block * IF AtEnd THEN 1 ELSE Entry.headers
        BY <1>6, <1>7 DEF Follower
    <2>3. HeaderEnd = start + Follower(package)
        BY <2>2 DEF HeaderEnd
    <2> HIDE DEF HeaderEnd
    <2> QED
        BY <1>2, <2>1, <2>3
<1> QED
    BY <1>2, <1>3, <1>4, <1>5, <1>6, <1>7, <1>8

\* In an accepted stream nothing that tarfile reads goes beyond a budget.
LEMMA AcceptedHeaderIsRead ==
    ASSUME Typed, Placed, Located, Accepted(package),
           NEW c \in Nat, c <= HeaderEnd, c <= package.length
    PROVE  c <= MaxExpanded /\ CostOf(at - 1) + (c - start) <= MaxMetadata
<1>1. /\ MaxExpanded \in Nat /\ MaxMetadata \in Nat /\ package.length \in Nat
      /\ start \in Nat /\ CostOf(at - 1) \in Nat /\ HeaderEnd \in Nat /\ Block \in Nat
    BY ArchiveAssumption DEF Typed, TypeOK, Placed
<1>2. PICK last \in Nat :
              /\ EndOf(Count(package)) \in Nat /\ CostOf(Count(package)) \in Nat
              /\ EndOf(Count(package)) <= package.length
              /\ last = IF Rest(package) < Follower(package)
                        THEN Rest(package) ELSE Follower(package)
              /\ EndOf(Count(package)) + last <= MaxExpanded
              /\ CostOf(Count(package)) + last <= MaxMetadata
    BY AcceptedEnd
<1>3. CASE AtEnd \/ package.length < HeaderEnd \/ Entry.type \in Unparsed
    <2>1. /\ Count(package) = at - 1 /\ EndOf(Count(package)) = start
          /\ Rest(package) = package.length - start
          /\ Follower(package) = HeaderEnd - start
        BY <1>3, LastIsCounted
    <2>2. c - start <= Rest(package) /\ c - start <= Follower(package)
        BY <1>1, <2>1
    <2>3. c - start <= last
        BY <1>2, <2>2
    <2> QED
        BY <1>1, <1>2, <2>1, <2>3
<1>4. CASE ~AtEnd /\ HeaderEnd <= package.length /\ Entry.type \notin Unparsed
    <2>1. at \in 1..Len(package.entries) /\ at <= Count(package)
          /\ Count(package) \in 0..Len(package.entries) /\ Len(package.entries) \in Nat
        BY <1>4 DEF Placed
    <2>2. EndOf(at) <= EndOf(Count(package)) /\ CostOf(at) <= CostOf(Count(package))
        <3>1. at \in 0..Len(package.entries)
            BY <2>1
        <3> QED
            BY <2>1, <3>1, MembersOnTape DEF Typed, EndOf, CostOf
    <2>3. PICK tape \in Nat, rest \in Nat :
            EndOf(at) = HeaderEnd + tape /\ CostOf(at) = CostOf(at - 1) + (HeaderEnd - start) + rest
        <3>1. /\ EndOf(at) = HeaderEnd + OnTape(Entry) /\ OnTape(Entry) \in Nat
              /\ HeaderOf(at) \in Nat /\ HeaderEnd = start + HeaderOf(at)
              /\ CostOf(at) = CostOf(at - 1) + Parsed(Entry)
              /\ Parsed(Entry) = HeaderOf(at)
                                  + IF Entry.type = "unknown" THEN OnTape(Entry) ELSE 0
            BY <1>4 DEF Placed
        <3>2. PICK rest \in Nat : rest = IF Entry.type = "unknown" THEN OnTape(Entry) ELSE 0
            BY <3>1
        <3>3. CostOf(at) = CostOf(at - 1) + (HeaderEnd - start) + rest
            BY <1>1, <3>1, <3>2
        <3> QED
            BY <3>1, <3>2, <3>3
    <2>4. HeaderEnd <= EndOf(Count(package)) /\ EndOf(at) \in Nat
        BY <1>1, <1>2, <2>2, <2>3
    <2>5. CostOf(at - 1) + (HeaderEnd - start) <= CostOf(Count(package))
        BY <1>1, <1>2, <2>2, <2>3
    <2>6. PICK end \in Nat, cost \in Nat :
            end = EndOf(Count(package)) /\ cost = CostOf(Count(package))
        BY <1>2
    <2>7. end + last <= MaxExpanded /\ cost + last <= MaxMetadata
        BY <1>2, <2>6
    <2>8. HeaderEnd <= end /\ CostOf(at - 1) + (HeaderEnd - start) <= cost
        BY <2>4, <2>5, <2>6
    <2> QED
        BY <1>1, <2>7, <2>8
<1> QED
    BY <1>1, <1>3, <1>4

LEMMA AcceptedPayloadIsRead ==
    ASSUME Typed, Placed, Located, Accepted(package), pc \in {"skip", "body"},
           Entry.type \in {"regular", "contiguous"}
    PROVE  PayloadEnd <= package.length /\ PayloadEnd <= MaxExpanded
<1>1. ~AtEnd /\ at \in 1..Len(package.entries) /\ at <= Count(package)
         /\ Count(package) \in 0..Len(package.entries) /\ Len(package.entries) \in Nat
    BY DEF Placed, Located
<1>2. PayloadEnd = EndOf(at) /\ PayloadEnd \in Nat
    <2>1. OnTape(Entry) = Padded(Entry.size)
        BY DEF OnTape
    <2> QED
        BY <1>1, <2>1 DEF Placed
<1>3. EndOf(at) <= EndOf(Count(package))
    <2>1. at \in 0..Len(package.entries)
        BY <1>1
    <2> QED
        BY <1>1, <2>1, MembersOnTape DEF Typed, EndOf
<1>4. PICK last \in Nat :
              /\ EndOf(Count(package)) \in Nat
              /\ EndOf(Count(package)) <= package.length
              /\ EndOf(Count(package)) + last <= MaxExpanded
    BY AcceptedEnd
<1>5. MaxExpanded \in Nat /\ package.length \in Nat
    BY ArchiveAssumption DEF Typed
<1> QED
    BY <1>2, <1>3, <1>4, <1>5

\* A name is seen when its member is to be copied, and stays seen.
LEMMA NextSeen ==
    ASSUME Typed, SeenIsCopied, [Next]_vars
    PROVE  SeenIsCopied'
<1>1. ASSUME UNCHANGED package PROVE \A i : KeyOf(i)' = KeyOf(i)
    BY <1>1 DEF KeyOf
<1>2. CASE /\ pc' \in {"extracted", "invalid", "unreadable"}
    BY <1>2 DEF SeenIsCopied
<1>3. CASE OpenContainer
    BY <1>1, <1>2, <1>3 DEF OpenContainer, files, SeenIsCopied
<1>4. CASE ReadBlock
    <2>1. pc' \in {"invalid", pc} /\ UNCHANGED <<package, at, extracted, seen>>
        BY <1>4 DEF ReadBlock, files
    <2> QED
        BY <1>1, <1>2, <2>1 DEF SeenIsCopied, KeyOf
<1>5. CASE EndOfStream \/ EndOfArchive \/ UnparsedHeader \/ Fail
    BY <1>2, <1>5 DEF EndOfStream, EndOfArchive, UnparsedHeader, Fail
<1>6. CASE InspectMember
    <2>1. pc = "header" /\ UNCHANGED <<package, extracted>> /\ Key[Entry.name] = KeyOf(at)
        BY <1>6 DEF InspectMember, KeyOf, Entry
    <2>2. CASE pc' = "body" /\ seen' = seen \cup {Key[Entry.name]} /\ UNCHANGED at
        BY <1>1, <2>1, <2>2 DEF SeenIsCopied, KeyOf
    <2>3. CASE pc' \in {"skip", "header"} /\ UNCHANGED seen
        BY <1>1, <2>1, <2>3 DEF SeenIsCopied
    <2> QED
        BY <1>2, <1>6, <2>2, <2>3 DEF InspectMember, NextMember
<1>7. CASE EndSkip
    BY <1>1, <1>7 DEF EndSkip, NextMember, files, SeenIsCopied
<1>8. CASE EndBody
    <2>1. /\ pc = "body" /\ pc' = "header" /\ UNCHANGED <<package, seen>>
          /\ extracted' = extracted \cup {at}
        BY <1>8 DEF EndBody, NextMember
    <2> QED
        BY <1>1, <2>1 DEF SeenIsCopied
<1>9. CASE UNCHANGED vars
    BY <1>1, <1>9 DEF vars, files, SeenIsCopied, KeyOf
<1> QED
    BY <1>3, <1>4, <1>5, <1>6, <1>7, <1>8, <1>9 DEF Next

\* Only a sound container is opened.
LEMMA NextContainer ==
    ASSUME Typed, ContainerPassed, [Next]_vars
    PROVE  ContainerPassed'
<1>1. CASE OpenContainer
    BY <1>1, ContainerIsChecked DEF OpenContainer, ContainerPassed
<1>2. CASE ReadBlock
    BY <1>2 DEF ReadBlock, Reading, ContainerPassed
<1>3. CASE EndOfStream \/ EndOfArchive \/ UnparsedHeader \/ Fail
    BY <1>3 DEF EndOfStream, EndOfArchive, UnparsedHeader, Fail, Reading, ContainerPassed
<1>4. CASE InspectMember \/ EndSkip \/ EndBody
    BY <1>4 DEF InspectMember, EndSkip, EndBody, NextMember, ContainerPassed
<1>5. CASE UNCHANGED vars
    BY <1>5 DEF vars, ContainerPassed
<1> QED
    BY <1>1, <1>2, <1>3, <1>4, <1>5 DEF Next

-----------------------------------------------------------------------------
(* The outcome *)

\* The members tarfile has passed are as required.
LEMMA PassedAreSound ==
    ASSUME Typed, Placed, FilesAreAdmitted, Count(package) = at - 1
    PROVE  /\ SoundMembers(Present(package))
           /\ extracted = {i \in DOMAIN Present(package) : Selected(package.entries[i].name)}
<1>1. /\ Len(Present(package)) = at - 1 /\ DOMAIN Present(package) = 1..at - 1
      /\ \A i \in 1..at - 1 : Present(package)[i] = package.entries[i]
    BY PresentAreFirst DEF Typed
<1>2. Len(Present(package)) <= MaxMembers
    <2>1. at - 1 \in Nat /\ MaxMembers \in Nat
        BY ArchiveAssumption DEF Typed, TypeOK
    <2>2. PICK n \in Nat : n = at - 1
        BY <2>1
    <2>3. n = 0 \/ n > 0
        OBVIOUS
    <2>4. CASE n = 0
        BY <1>1, <2>1, <2>2, <2>4
    <2>5. CASE n > 0
        BY <1>1, <2>1, <2>2, <2>5 DEF FilesAreAdmitted
    <2> QED
        BY <2>3, <2>4, <2>5
<1>3. ASSUME NEW i \in 1..at - 1
      PROVE  /\ SafeMember(Present(package)[i])
             /\ Selected(Present(package)[i].name) =>
                   /\ CopiedFile(Present(package)[i])
                   /\ \A j \in (1..at - 1) \ {i} :
                         Selected(Present(package)[j].name) =>
                            Key[Present(package)[j].name] # Key[Present(package)[i].name]
    BY <1>1, <1>3 DEF FilesAreAdmitted, KeyOf
<1> QED
    BY <1>1, <1>2, <1>3 DEF SoundMembers, FilesAreAdmitted

\* What is extracted passes: a stream that ends where a member could begin, or in
\* a header in a way that is not noticed ...
LEMMA ExtractedPasses ==
    ASSUME Typed, Kept, Located, Accounted, Admitted, ContainerPassed,
           EndOfStream \/ EndOfArchive \/ UnparsedHeader, pc' = "extracted"
    PROVE  /\ Passes(package)
           /\ extracted = {i \in DOMAIN Present(package) : Selected(package.entries[i].name)}
<1>1. /\ Placed /\ consumed \in Nat /\ package.length \in Nat /\ start \in Nat
      /\ MaxExpanded \in Nat /\ MaxMetadata \in Nat /\ Block \in Nat \ {0}
      /\ CostOf(at - 1) \in Nat /\ HeaderEnd \in Nat /\ start + Block <= HeaderEnd
      /\ at \in Nat
    BY MemberIsPlaced, ArchiveAssumption DEF Typed, TypeOK, Placed
<1>2. /\ pc = "header" /\ consumed <= package.length
      /\ parsing = CostOf(at - 1) + (consumed - start)
      /\ consumed <= MaxExpanded /\ parsing <= MaxMetadata
    BY <1>1 DEF EndOfStream, TakenForEnd, EndOfArchive, UnparsedHeader, Kept,
                Accounted, Located, Typed, TypeOK
<1>3. \/ /\ consumed = package.length /\ consumed < HeaderEnd
         /\ ~package.torn /\ at # 1 /\ start <= consumed
         /\ consumed < start + Block \/ (~AtEnd /\ Entry.type = "damaged")
      \/ AtEnd /\ consumed = HeaderEnd
      \/ ~AtEnd /\ consumed = HeaderEnd /\ at # 1 /\ Entry.type = "damaged"
    <2>1. CASE EndOfStream
        <3>1. Asked # 0
            BY <1>2, AskedIsPositive
        <3> QED
            BY <1>1, <1>2, <2>1, <3>1 DEF EndOfStream, TakenForEnd, Reading, Target
    <2>2. CASE EndOfArchive
        BY <1>2, <2>2 DEF EndOfArchive, Target
    <2>3. CASE UnparsedHeader
        BY <1>2, <2>3 DEF UnparsedHeader, Unparsed, Target
    <2> QED
        BY <2>1, <2>2, <2>3
<1>4. AtEnd \/ package.length < HeaderEnd \/ Entry.type \in Unparsed
    BY <1>3 DEF Unparsed
<1>5. /\ Count(package) = at - 1 /\ EndOf(Count(package)) = start
      /\ Rest(package) = package.length - start
      /\ Follower(package) = HeaderEnd - start
      /\ AtEnd <=> Count(package) = Len(package.entries)
      /\ ~AtEnd => /\ Count(package) < Len(package.entries)
                   /\ package.entries[Count(package) + 1] = Entry
    BY <1>1, <1>4, LastIsCounted
<1>6. PICK last \in Nat :
        /\ last = consumed - start
        /\ last = IF Rest(package) < Follower(package) THEN Rest(package)
                                                       ELSE Follower(package)
    <2>1. start <= consumed
        BY <1>1, <1>3
    <2>2. CASE consumed = package.length /\ consumed < HeaderEnd
        BY <1>1, <1>5, <2>1, <2>2
    <2>3. CASE consumed = HeaderEnd
        BY <1>1, <1>2, <1>5, <2>1, <2>3
    <2> QED
        BY <1>3, <2>2, <2>3
<1>7. WithinBudgets(package)
    <2>1. Rest(package) >= 0 /\ start + last = consumed
        BY <1>1, <1>2, <1>5, <1>6
    <2>2. CostOf(at - 1) + last = parsing
        BY <1>1, <1>2, <1>6
    <2> QED
        BY <1>2, <1>5, <1>6, <2>1, <2>2 DEF WithinBudgets, EndOf, CostOf
<1>8. EndsWell(package) \/ EndsUnnoticed(package)
    <2>1. at # 1 => Count(package) > 0
        <3>1. at \in Nat \ {0} /\ Count(package) = at - 1
            BY <1>5 DEF Typed, TypeOK
        <3> QED
            BY <3>1
    <2>2. CASE /\ consumed = package.length /\ consumed < HeaderEnd
               /\ ~package.torn /\ at # 1 /\ start <= consumed
               /\ consumed < start + Block \/ (~AtEnd /\ Entry.type = "damaged")
        <3>1. Rest(package) >= 0
            BY <1>1, <1>5, <2>2
        <3>2. CASE Rest(package) = 0
            BY <2>1, <2>2, <3>2 DEF EndsWell
        <3>3. CASE Rest(package) > 0
            <4>1. Rest(package) < Block \/ (~AtEnd /\ Entry.type = "damaged")
                BY <1>1, <1>5, <2>2
            <4> QED
                BY <1>5, <2>1, <2>2, <3>3, <4>1 DEF EndsUnnoticed
        <3> QED
            BY <1>1, <1>5, <3>1, <3>2, <3>3
    <2>3. CASE AtEnd /\ consumed = HeaderEnd
        <3>1. EndsInZeros(package)
            BY <1>1, <1>2, <1>5, <2>3 DEF EndsInZeros
        <3> QED
            BY <3>1 DEF EndsWell, EndsUnnoticed
    <2>4. CASE ~AtEnd /\ consumed = HeaderEnd /\ at # 1 /\ Entry.type = "damaged"
        <3>1. Rest(package) > 0 /\ ~(Rest(package) < Follower(package))
            BY <1>1, <1>2, <1>5, <2>4
        <3> QED
            BY <1>5, <2>1, <2>4, <3>1 DEF EndsUnnoticed
    <2> QED
        BY <1>3, <2>2, <2>3, <2>4
<1>9. SoundContainer(package.container)
    BY <1>2 DEF ContainerPassed
<1> QED
    BY <1>1, <1>5, <1>7, <1>8, <1>9, PassedAreSound DEF Passes, Accepted, Admitted

\* ... and what is rejected is not: not a stream that is read beyond a budget ...
LEMMA ReadOutIsRefused ==
    ASSUME Typed, Switch, Kept, Located, Accounted, ReadBlock, pc' = "invalid"
    PROVE  ~Accepted(package)
<1> SUFFICES ASSUME Accepted(package) PROVE FALSE
    OBVIOUS
<1>1. Placed /\ pc \in {"header", "skip", "body"}
    BY MemberIsPlaced DEF ReadBlock, Reading
<1>2. /\ consumed' \in Nat /\ consumed' <= package.length
      /\ \/ consumed' > MaxExpanded
         \/ /\ pc = "header" /\ parsing' = parsing + (consumed' - consumed)
            /\ parsing' > MaxMetadata
    BY <1>1, ReadIsWhole DEF ReadBlock, Reading
<1>3. consumed' <= Target
    BY ReadsUpToTarget
<1>4. /\ MaxExpanded \in Nat /\ MaxMetadata \in Nat /\ consumed \in Nat
      /\ start \in Nat /\ CostOf(at - 1) \in Nat
    BY <1>1, ArchiveAssumption DEF Typed, TypeOK, Placed
<1>5. CASE pc = "header"
    <2>1. consumed' <= MaxExpanded /\ CostOf(at - 1) + (consumed' - start) <= MaxMetadata
        BY <1>1, <1>2, <1>3, <1>5, AcceptedHeaderIsRead DEF Target
    <2>2. parsing = CostOf(at - 1) + (consumed - start)
        BY <1>5 DEF Accounted
    <2> QED
        BY <1>2, <1>4, <2>1, <2>2
<1>6. CASE pc # "header"
    <2>1. PayloadEnd <= MaxExpanded /\ PayloadEnd \in Nat
        <3>1. PayloadEnd <= MaxExpanded
            BY <1>1, <1>6, AcceptedPayloadIsRead DEF Accounted
        <3>2. ~AtEnd
            BY <1>1, <1>6 DEF Located, Placed
        <3> QED
            BY <1>1, <3>1, <3>2 DEF Placed
    <2>2. consumed' <= PayloadEnd
        BY <1>3, <1>6 DEF Target
    <2> QED
        BY <1>2, <1>4, <1>6, <2>1, <2>2
<1> QED
    BY <1>5, <1>6

\* ... neither a stream that is cut off within a header or a payload ...
LEMMA CutOffIsRefused ==
    ASSUME Typed, Kept, Located, Accounted, EndOfStream, pc' = "invalid"
    PROVE  ~Accepted(package)
<1> SUFFICES ASSUME Accepted(package) PROVE FALSE
    OBVIOUS
<1>1. Placed /\ pc \in {"header", "skip", "body"} /\ consumed < Target
    BY MemberIsPlaced DEF EndOfStream, Reading
<1>2. consumed = package.length
    <2>1. Asked # 0
        BY <1>1, AskedIsPositive
    <2> QED
        BY <2>1 DEF EndOfStream
<1>3. /\ package.length \in Nat /\ start \in Nat /\ HeaderEnd \in Nat
      /\ Block \in Nat \ {0} /\ at \in Nat
    BY <1>1 DEF Typed, TypeOK, Placed
<1>4. CASE pc = "header"
    <2>1. package.length < HeaderEnd
        BY <1>1, <1>2, <1>4 DEF Target
    <2>2. /\ Count(package) = at - 1 /\ Rest(package) = package.length - start
          /\ Follower(package) = HeaderEnd - start
          /\ AtEnd <=> Count(package) = Len(package.entries)
          /\ ~AtEnd => package.entries[Count(package) + 1] = Entry
        BY <1>1, <2>1, LastIsCounted
    <2>3. Rest(package) >= 0 /\ Rest(package) < Follower(package)
        BY <1>3, <2>1, <2>2 DEF Accepted, WithinBudgets
    <2>4. ~package.torn /\ Count(package) > 0
        BY <1>3, <2>2, <2>3 DEF Accepted, EndsWell, EndsInZeros, EndsUnnoticed
    <2>5. /\ at # 1 /\ consumed >= start
          /\ consumed < start + Block \/ (~AtEnd /\ Entry.type = "damaged")
        <3>1. \/ Rest(package) < Block
              \/ /\ Count(package) < Len(package.entries)
                 /\ package.entries[Count(package) + 1].type = "damaged"
            BY <1>3, <2>2, <2>3 DEF Accepted, EndsWell, EndsInZeros, EndsUnnoticed
        <3>2. Count(package) < Len(package.entries) => ~AtEnd
            BY <1>1, <2>2 DEF Placed
        <3>3. at # 1 /\ consumed >= start
            BY <1>2, <1>3, <2>2, <2>3, <2>4
        <3>4. Rest(package) < Block => consumed < start + Block
            BY <1>2, <1>3, <2>2
        <3> QED
            BY <2>2, <3>1, <3>2, <3>3, <3>4
    <2> QED
        BY <1>4, <2>4, <2>5 DEF EndOfStream, TakenForEnd
<1>5. CASE pc # "header"
    <2>1. PayloadEnd <= package.length
        BY <1>1, <1>5, AcceptedPayloadIsRead DEF Accounted
    <2>2. ~AtEnd
        BY <1>1, <1>5 DEF Located, Placed
    <2>3. PayloadEnd \in Nat
        BY <1>1, <2>2 DEF Placed
    <2> QED
        BY <1>1, <1>2, <1>3, <1>5, <2>1, <2>3 DEF Target
<1> QED
    BY <1>4, <1>5

\* ... nor one with a first header that is none, or an extended one that no header
\* follows ...
LEMMA UnparsedIsRefused ==
    ASSUME Typed, Located, UnparsedHeader, pc' = "invalid"
    PROVE  ~Accepted(package)
<1> SUFFICES ASSUME Accepted(package) PROVE FALSE
    OBVIOUS
<1>1. /\ Placed /\ ~AtEnd /\ consumed = HeaderEnd /\ Entry.type \in Unparsed
      /\ Entry.type = "headless" \/ at = 1
    BY MemberIsPlaced DEF UnparsedHeader, Target
<1>2. /\ package.length \in Nat /\ start \in Nat /\ HeaderEnd \in Nat
      /\ Block \in Nat \ {0} /\ start + Block <= HeaderEnd
      /\ HeaderEnd <= package.length
    BY <1>1 DEF Typed, TypeOK, Placed, Located
<1>3. /\ Count(package) = at - 1 /\ Rest(package) = package.length - start
      /\ Count(package) # Len(package.entries)
      /\ package.entries[Count(package) + 1] = Entry
    BY <1>1, LastIsCounted
<1>4. Rest(package) > 0 /\ ~(Rest(package) < Block)
    BY <1>2, <1>3
<1>5. Count(package) > 0 /\ Entry.type = "damaged"
    BY <1>3, <1>4 DEF Accepted, EndsWell, EndsInZeros, EndsUnnoticed
<1>6. at # 1
    BY <1>3, <1>5
<1> QED
    BY <1>1, <1>5, <1>6

\* ... nor a member that is refused when its header has been parsed.
LEMMA RefusedIsUnsound ==
    ASSUME Typed, Located, Accounted, Admitted, SeenIsCopied,
           InspectMember, pc' = "invalid"
    PROVE  ~SoundMembers(Present(package))
<1> SUFFICES ASSUME SoundMembers(Present(package)) PROVE FALSE
    OBVIOUS
<1>1. /\ Placed /\ pc = "header" /\ ~AtEnd /\ consumed = HeaderEnd
      /\ Entry.type \notin Unparsed
    BY MemberIsPlaced DEF InspectMember, Target
<1>2. at \in 1..Count(package) /\ Count(package) \in Nat
    BY <1>1 DEF Placed, Located
<1>3. /\ Len(Present(package)) = Count(package)
      /\ DOMAIN Present(package) = 1..Count(package)
      /\ \A i \in 1..Count(package) : Present(package)[i] = package.entries[i]
    BY PresentAreFirst DEF Typed
<1>4. Present(package)[at] = Entry
    BY <1>1, <1>2, <1>3 DEF Placed
<1>5. at <= MaxMembers /\ SafeMember(Entry)
    <2>1. Count(package) <= MaxMembers
        BY <1>3 DEF SoundMembers
    <2>2. MaxMembers \in Nat
        BY ArchiveAssumption
    <2> QED
        BY <1>2, <1>3, <1>4, <2>1, <2>2 DEF SoundMembers
<1>6. ~(at > MaxMembers)
    BY <1>2, <1>5, ArchiveAssumption
<1>7. Selected(Entry.name) /\ (~CopiedFile(Entry) \/ Key[Entry.name] \in seen)
    BY <1>5, <1>6 DEF InspectMember, NextMember
<1>8. CopiedFile(Entry)
    BY <1>2, <1>3, <1>4, <1>7 DEF SoundMembers
<1>9. PICK i \in extracted : KeyOf(i) = Key[Entry.name]
    BY <1>1, <1>7, <1>8 DEF SeenIsCopied
<1>10. i \in 1..at - 1 /\ Selected(package.entries[i].name)
    BY <1>9 DEF Admitted, FilesAreAdmitted
<1>11. i \in 1..Count(package) /\ i # at
    BY <1>2, <1>10
<1>12. Key[Present(package)[i].name] # Key[Present(package)[at].name]
    BY <1>2, <1>3, <1>4, <1>7, <1>10, <1>11 DEF SoundMembers
<1> QED
    BY <1>3, <1>4, <1>9, <1>11, <1>12 DEF KeyOf

\* So every outcome is the documented one.
LEMMA NextOutcome ==
    ASSUME Typed, Switch, Kept, Admitted, SeenIsCopied, ContainerPassed, Located,
           Accounted, OutcomeIsExact, [Next]_vars
    PROVE  OutcomeIsExact'
<1>1. ASSUME UNCHANGED <<package, pc, extracted>> PROVE OutcomeIsExact'
    BY <1>1 DEF OutcomeIsExact
<1>2. ASSUME UNCHANGED package, pc' = "invalid", ~Passes(package)
      PROVE  OutcomeIsExact'
    BY <1>2 DEF OutcomeIsExact, Passes, Accepted, SoundUpToEnd
<1>3. ASSUME UNCHANGED <<package, extracted>>, pc' = "extracted", Passes(package),
             extracted = {i \in DOMAIN Present(package) : Selected(package.entries[i].name)}
      PROVE  OutcomeIsExact'
    BY <1>3 DEF OutcomeIsExact, Passes, Accepted, SoundUpToEnd
<1>4. ASSUME pc' \notin {"extracted", "invalid"} PROVE OutcomeIsExact'
    BY <1>4 DEF OutcomeIsExact
<1>5. CASE OpenContainer
    <2>1. pc' = "invalid" => ~Passes(package)
        BY <1>5, ContainerIsChecked DEF OpenContainer, Passes
    <2> QED
        BY <1>2, <1>4, <1>5, <2>1 DEF OpenContainer
<1>6. CASE ReadBlock
    <2>1. pc' \in {"invalid", pc} /\ pc \notin {"extracted", "invalid"} /\ UNCHANGED package
        BY <1>6 DEF ReadBlock, Reading
    <2>2. pc' = "invalid" => ~Passes(package)
        BY <1>6, ReadOutIsRefused DEF Passes
    <2> QED
        BY <1>2, <1>4, <2>1, <2>2
<1>7. CASE EndOfStream \/ EndOfArchive \/ UnparsedHeader
    <2>1. UNCHANGED <<package, extracted>> /\ pc' \in {"extracted", "invalid"}
        BY <1>7 DEF EndOfStream, EndOfArchive, UnparsedHeader, files
    <2>2. CASE pc' = "extracted"
        BY <1>3, <1>7, <2>1, <2>2, ExtractedPasses
    <2>3. CASE pc' = "invalid"
        <3>1. EndOfStream \/ UnparsedHeader
            BY <1>7, <2>3 DEF EndOfArchive
        <3> QED
            BY <1>2, <2>1, <2>3, <3>1, CutOffIsRefused, UnparsedIsRefused DEF Passes
    <2> QED
        BY <2>1, <2>2, <2>3
<1>8. CASE InspectMember
    <2>1. UNCHANGED package /\ pc' \in {"invalid", "body", "skip", "header"}
        BY <1>8 DEF InspectMember, NextMember
    <2>2. pc' = "invalid" => ~Passes(package)
        BY <1>8, RefusedIsUnsound DEF Passes
    <2> QED
        BY <1>2, <1>4, <2>1, <2>2
<1>9. CASE EndSkip \/ EndBody \/ Fail
    BY <1>4, <1>9 DEF EndSkip, EndBody, Fail, NextMember
<1>10. CASE UNCHANGED vars
    BY <1>1, <1>10 DEF vars, files
<1> QED
    BY <1>5, <1>6, <1>7, <1>8, <1>9, <1>10 DEF Next

\* The inductive invariant of the outcome.
OutcomeInv ==
    /\ Typed /\ Switch /\ Kept /\ Admitted
    /\ Located /\ Accounted /\ SeenIsCopied /\ ContainerPassed
    /\ OutcomeIsExact

\* It is kept by every step.
LEMMA NextOutcomeInv == OutcomeInv /\ [Next]_vars => OutcomeInv'
<1> SUFFICES ASSUME OutcomeInv, [Next]_vars PROVE OutcomeInv'
    OBVIOUS
<1>1. /\ Typed /\ Switch /\ Kept /\ Admitted /\ Located /\ Accounted
      /\ SeenIsCopied /\ ContainerPassed /\ OutcomeIsExact
    BY DEF OutcomeInv
<1>2. Typed' /\ Switch' /\ Kept' /\ Admitted'
    BY <1>1, NextTyped, NextAdmitted
<1>3. Located' /\ Accounted'
    BY <1>1, <1>2, NextPlace
<1>4. SeenIsCopied' /\ ContainerPassed'
    BY <1>1, NextSeen, NextContainer
<1>5. OutcomeIsExact'
    BY <1>1, NextOutcome
<1> QED
    BY <1>2, <1>3, <1>4, <1>5 DEF OutcomeInv

\* For packages of any form and limits of any size extract_recipe decides, member
\* by member and looking at nothing twice, what is said of the archive as a whole:
\* it copies exactly the recipe and the bundles before the end of the stream, or
\* what tarfile takes for it, if all up to there keeps every rule.
THEOREM ExtractionIsExact == Spec => []OutcomeIsExact
<1>1. Init => OutcomeInv
    <2> SUFFICES ASSUME Init PROVE OutcomeInv
        OBVIOUS
    <2>1. SeenIsCopied /\ ContainerPassed /\ OutcomeIsExact
        BY DEF Init, SeenIsCopied, ContainerPassed, OutcomeIsExact
    <2> QED
        BY <2>1, InitTyped, InitAdmitted, InitPlace DEF OutcomeInv
<1>2. OutcomeInv => OutcomeIsExact
    BY DEF OutcomeInv
<1> QED
    BY <1>1, <1>2, NextOutcomeInv, PTL DEF Spec

\* A package that keeps every rule of the documentation, its end included, is
\* never found invalid; and what is extracted although it does not keep them all
\* is malformed in one of two ways: a header behind the first, or the first of the
\* zeros, is cut off or damaged, or the stream fails behind these zeros.
DocumentedButForDamage ==
    LET sound == SoundUpToEnd(package) /\ EndsWell(package) IN
    /\ sound => pc # "invalid"
    /\ pc = "extracted" /\ ~sound => SoundUpToEnd(package) /\ EndsUnnoticed(package)

\* The outcome differs from the documented one for such packages only.
THEOREM DamageIsTheException == Spec => []DocumentedButForDamage
<1>1. OutcomeIsExact => DocumentedButForDamage
    BY DEF OutcomeIsExact, DocumentedButForDamage
<1> QED
    BY <1>1, ExtractionIsExact, PTL
=============================================================================
