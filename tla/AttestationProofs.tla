--------------------------- MODULE AttestationProofs ---------------------------
(***************************************************************************)
(* Proofs about Attestation, for any number of callers and outputs.  The    *)
(* inductive invariant says what a caller has established when it comes to  *)
(* each step: its output is not the archive, the statement it signed is     *)
(* about the digest it read twice, the temporary file it links is whole,    *)
(* and the file it reports as created is still there.                       *)
(***************************************************************************)
EXTENDS Attestation, TLAPS

ArchiveAtPackage == files[Package] \in Archives \cup {Absent}

DestGiven == \A c \in Caller : pc[c] # "idle" => dest[c] \in Path

OutputIsNotPackage ==
    \A c \in Caller :
        pc[c] \in {"hash", "sign", "verify", "rehash", "create", "write", "link"}
            \/ outcome[c] = "created"
        => dest[c] \in Dest

Signed ==
    \A c \in Caller :
        /\ pc[c] \in {"sign", "verify"} => digest[c] \in Content
        /\ pc[c] = "verify" => bundle[c] \in Content
        /\ pc[c] = "rehash" => bundle[c] \in Content /\ bundle[c] = digest[c]

Reread ==
    \A c \in Caller :
        pc[c] \in {"create", "write", "link"} \/ outcome[c] = "created" =>
            /\ bundle[c] \in Content
            /\ bundle[c] = digest[c] /\ bundle[c] = reread[c]

TempIsWhole ==
    \A c \in Caller : pc[c] = "link" => temp[c] = File("bundle", bundle[c], c)

OutcomesAtEnd ==
    \A c \in Caller : outcome[c] # "none" => pc[c] \in {"unlink", "done"}

IInv ==
    /\ TypeOK
    /\ DestGiven /\ ArchiveAtPackage /\ OutputIsNotPackage
    /\ Signed /\ Reread /\ TempIsWhole /\ OutcomesAtEnd
    /\ NoStrayTemps /\ SuccessIsExclusive

\* The invariant holds before any caller starts.
LEMMA InitIInv == Init => IInv
  BY AttestationAssumption
     DEF Init, IInv, TypeOK, DestGiven, ArchiveAtPackage, OutputIsNotPackage, Signed, Reread,
         TempIsWhole, OutcomesAtEnd, NoStrayTemps, SuccessIsExclusive, Path,
         File, Earlier, Files, Archives, Outputs

\* Every step of a caller, and every change to the files, preserves it.
LEMMA NextIInv == IInv /\ [Next]_vars => IInv'
  <1> SUFFICES ASSUME IInv, [Next]_vars PROVE IInv'
    OBVIOUS
  <1> USE AttestationAssumption
      DEF IInv, TypeOK, DestGiven, Temporaries, ArchiveAtPackage, OutputIsNotPackage, Signed, Reread,
          TempIsWhole, OutcomesAtEnd, NoStrayTemps, SuccessIsExclusive,
          Path, Goto, Raise, Proceed, Finish, local, world
  <1>1. ASSUME NEW c \in Caller, NEW p \in Path, Begin(c, p) PROVE IInv'
    BY <1>1 DEF Begin
  <1>2. ASSUME NEW c \in Caller, CheckPackage(c) PROVE IInv'
    BY <1>2 DEF CheckPackage
  <1>3. ASSUME NEW c \in Caller, CheckDestination(c) PROVE IInv'
    BY <1>3 DEF CheckDestination, IsOutput
  <1>4. ASSUME NEW c \in Caller, Hash(c) PROVE IInv'
    BY <1>4 DEF Hash, PackageDigest, Archives
  <1>5. ASSUME NEW c \in Caller, HashFails(c) PROVE IInv'
    BY <1>5 DEF HashFails
  <1>6. ASSUME NEW c \in Caller, Sign(c) PROVE IInv'
    BY <1>6 DEF Sign
  <1>7. ASSUME NEW c \in Caller, SignFails(c) PROVE IInv'
    BY <1>7 DEF SignFails
  <1>8. ASSUME NEW c \in Caller, VerifyLocally(c) PROVE IInv'
    BY <1>8 DEF VerifyLocally, IsPayload
  <1>9. ASSUME NEW c \in Caller, Rehash(c) PROVE IInv'
    BY <1>9 DEF Rehash, PackageDigest, IsUnchanged, Archives
  <1>10. ASSUME NEW c \in Caller, CreateTemp(c) PROVE IInv'
    BY <1>10 DEF CreateTemp, File
  <1>11. ASSUME NEW c \in Caller, CreateFails(c) PROVE IInv'
    BY <1>11 DEF CreateFails
  <1>12. ASSUME NEW c \in Caller, WriteTemp(c) PROVE IInv'
    BY <1>12 DEF WriteTemp, Written, File
  <1>13. ASSUME NEW c \in Caller, WriteFails(c) PROVE IInv'
    BY <1>13 DEF WriteFails, Raises
  <1>14. ASSUME NEW c \in Caller, Link(c) PROVE IInv'
    BY <1>14 DEF Link, CanLink, OnExisting, File, Files, Outputs
  <1>15. ASSUME NEW c \in Caller, Unlink(c) PROVE IInv'
    BY <1>15 DEF Unlink
  <1>16. ASSUME NEW c \in Caller, Return(c) PROVE IInv'
    BY <1>16 DEF Return, Forget
  <1>17. ASSUME NEW c \in Caller, Crash(c) PROVE IInv'
    BY <1>17 DEF Crash, Forget
  <1>18. CASE ChangePackage
    BY <1>18 DEF ChangePackage, File, Files, Archives
  <1>19. CASE ChangeOutput
    BY <1>19 DEF ChangeOutput, Files
  <1>20. CASE UNCHANGED vars
    BY <1>20 DEF vars
  <1> QED
    BY <1>1, <1>2, <1>3, <1>4, <1>5, <1>6, <1>7, <1>8, <1>9, <1>10, <1>11,
       <1>12, <1>13, <1>14, <1>15, <1>16, <1>17, <1>18, <1>19, <1>20
       DEF Next, Step

\* The invariant holds at all times.
LEMMA AlwaysIInv == Spec => []IInv
  BY InitIInv, NextIInv, PTL DEF Spec

\* Every state has the form TypeOK says; in particular every file is the
\* archive, an earlier output, or a whole bundle of one caller.
THEOREM TypesAreRight == Spec => []TypeOK
  <1>1. IInv => TypeOK
    BY DEF IInv
  <1> QED
    BY <1>1, AlwaysIInv, PTL

\* However many callers race for one output of create_attestation, the one
\* that reports success wrote the file that is there.
THEOREM OneCallerSucceeds == Spec => []SuccessIsExclusive
  <1>1. IInv => SuccessIsExclusive
    BY DEF IInv
  <1> QED
    BY <1>1, AlwaysIInv, PTL

\* A created attestation is about the digest the archive had before and
\* after it was signed.
THEOREM AttestationIsTrue == Spec => []AttestsWhatItRead
  <1>1. IInv => AttestsWhatItRead
    BY DEF IInv, Reread, AttestsWhatItRead
  <1> QED
    BY <1>1, AlwaysIInv, PTL

\* No path through the try statement of create_attestation leaves its
\* temporary file behind.
THEOREM TempsAreRemoved == Spec => []NoStrayTemps
  <1>1. IInv => NoStrayTemps
    BY DEF IInv
  <1> QED
    BY <1>1, AlwaysIInv, PTL

\* Only the link of a caller changes the files, and it makes one new output.
LEMMA FilesChangeByLink ==
  ASSUME IInv, [Next]_vars, files' # files
  PROVE  \/ ChangePackage \/ ChangeOutput
         \/ \E c \in Caller :
               /\ dest[c] \in Dest /\ files[dest[c]] = Absent
               /\ files' = [files EXCEPT ![dest[c]] = temp[c]]
               /\ temp[c].kind = "bundle"
  <1> SUFFICES ASSUME NEW c \in Caller, Step(c)
               PROVE  /\ dest[c] \in Dest /\ files[dest[c]] = Absent
                      /\ files' = [files EXCEPT ![dest[c]] = temp[c]]
                      /\ temp[c].kind = "bundle"
    BY DEF Next, vars, Begin, Crash, world
  <1>1. Link(c)
    BY DEF Step, CheckPackage, CheckDestination, Hash, HashFails, Sign,
           SignFails, VerifyLocally, Rehash, CreateTemp, CreateFails,
           WriteTemp, WriteFails, Unlink, Return
  <1> QED
    <2>1. pc[c] = "link" /\ files[dest[c]] = Absent
      BY <1>1 DEF Link, CanLink
    <2>2. files' = [files EXCEPT ![dest[c]] = temp[c]]
      BY <1>1 DEF Link, CanLink
    <2>3. dest[c] \in Dest /\ temp[c] = File("bundle", bundle[c], c)
      BY <2>1 DEF IInv, OutputIsNotPackage, TempIsWhole
    <2> QED
      BY <2>1, <2>2, <2>3 DEF File

\* An existing attestation is never replaced, and a new one is there at once
\* and as a whole, in whatever order callers reach the exclusive os.link.
THEOREM OutputsAreNeverReplaced == Spec => OutputsAppearOnce
  <1>1. IInv /\ [Next]_vars => [OutputStep]_vars
    <2> SUFFICES ASSUME IInv, [Next]_vars, NEW p \in Dest, files'[p] # files[p]
                 PROVE  \/ removals' # removals
                        \/ files[p] = Absent /\ files'[p].kind = "bundle"
      BY DEF OutputStep
    <2>1. CASE ChangePackage
      BY <2>1, AttestationAssumption DEF ChangePackage, IInv, TypeOK
    <2>2. CASE ChangeOutput
      BY <2>2 DEF ChangeOutput, IInv, TypeOK
    <2>3. ASSUME NEW c \in Caller, files[dest[c]] = Absent,
                 files' = [files EXCEPT ![dest[c]] = temp[c]],
                 temp[c].kind = "bundle"
          PROVE  files[p] = Absent /\ files'[p].kind = "bundle"
      BY <2>3 DEF IInv, TypeOK, Path
    <2> QED
      BY <2>1, <2>2, <2>3, FilesChangeByLink
  <1> QED
    BY <1>1, AlwaysIInv, PTL DEF Spec, OutputsAppearOnce

\* create_attestation never writes the archive it attests.
THEOREM ArchiveIsNeverWritten == Spec => PackageUntouched
  <1>1. IInv /\ [Next]_vars =>
          [files'[Package] # files[Package] => changes' # changes]_vars
    <2> SUFFICES ASSUME IInv, [Next]_vars, files'[Package] # files[Package]
                 PROVE  changes' # changes
      OBVIOUS
    <2>1. CASE ChangePackage
      BY <2>1 DEF ChangePackage, IInv, TypeOK
    <2>2. ChangeOutput => FALSE
      BY AttestationAssumption DEF ChangeOutput, IInv, TypeOK
    <2>3. ASSUME NEW c \in Caller, dest[c] \in Dest,
                 files' = [files EXCEPT ![dest[c]] = temp[c]]
          PROVE  FALSE
      BY <2>3, AttestationAssumption DEF IInv, TypeOK
    <2> QED
      BY <2>1, <2>2, <2>3, FilesChangeByLink
  <1> QED
    BY <1>1, AlwaysIInv, PTL DEF Spec, PackageUntouched
=============================================================================
