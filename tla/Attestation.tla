------------------------------ MODULE Attestation ------------------------------
(***************************************************************************)
(* create_attestation and sign_in_toto_statement (attestation.py): several  *)
(* callers, each a process of its own, attest one package archive while the *)
(* archive is rewritten and their output files come and go.  A caller reads *)
(* the archive twice, before and after it signs, writes the bundle to a     *)
(* temporary file, and gives that file the name of the output with a link,  *)
(* which the file system refuses if there is such a file.                   *)
(***************************************************************************)
EXTENDS Naturals

CONSTANTS
    Caller,         \* processes that create attestations of the archive
    Package,        \* the path of the archive
    Dest,           \* other paths an attestation may be written to
    Content,        \* what the archive may hold, each by its digest
    None, Absent,
    MaxChanges,     \* how often others rewrite or remove the archive
    MaxRemovals     \* how often others create or remove an output

Path == Dest \cup {Package}

\* A file: the archive, or a bundle, whole or in part, and who wrote it.
File(kind, content, author) ==
    [kind |-> kind, digest |-> content, author |-> author]

Earlier == File("bundle", None, None)   \* an output of some other origin

Archives == [kind : {"package"}, digest : Content, author : {None}]
Outputs  == [kind : {"bundle"}, digest : Content, author : Caller]
Temporaries == [kind : {"partial", "bundle"}, digest : Content, author : Caller]
Files    == Archives \cup Outputs \cup {Earlier}

ASSUME AttestationAssumption ==
    /\ Package \notin Dest
    /\ None \notin Caller \cup Content \cup Path
    /\ Absent \notin Files
    /\ MaxChanges \in Nat /\ MaxRemovals \in Nat

VARIABLES
    pc, dest,
    digest,     \* of the archive, when it was first read
    bundle,     \* the digest that the signed statement is about
    temp,       \* the temporary file of the caller
    outcome,
    files,
    reread,     \* history: what the archive was the second time
    changes, removals

world == <<changes, removals>>
local == <<dest, digest, bundle, reread>>
vars  == <<pc, local, temp, outcome, files, world>>

Init ==
    /\ pc = [c \in Caller |-> "idle"]
    /\ dest = [c \in Caller |-> None]
    /\ digest = [c \in Caller |-> None]
    /\ bundle = [c \in Caller |-> None]
    /\ reread = [c \in Caller |-> None]
    /\ temp = [c \in Caller |-> Absent]
    /\ outcome = [c \in Caller |-> "none"]
    /\ \E content \in Content, outputs \in [Dest -> {Absent, Earlier}] :
          files = [p \in Path |-> IF p = Package
                                  THEN File("package", content, None)
                                  ELSE outputs[p]]
    /\ changes = 0 /\ removals = 0

Goto(c, label) == pc' = [pc EXCEPT ![c] = label]

Raise(c, o) == outcome' = [outcome EXCEPT ![c] = o]

Proceed(c, label) == Goto(c, label) /\ UNCHANGED outcome
Finish(c, o)      == Goto(c, "done") /\ Raise(c, o)

PackageDigest == files[Package].digest

-----------------------------------------------------------------------------
(* The checks.  Just before some definitions stands a faulty variant of them,
   a slip the code could have made; the properties are tried against it. *)

Begin(c, d) ==
    /\ pc[c] = "idle"
    /\ Goto(c, "package")
    /\ dest' = [dest EXCEPT ![c] = d]
    /\ UNCHANGED <<digest, bundle, reread, temp, outcome, files, world>>

CheckPackage(c) ==
    /\ pc[c] = "package"
    /\ IF files[Package] = Absent THEN Finish(c, "refused")
                                  ELSE Proceed(c, "destination")
    /\ UNCHANGED <<local, temp, files, world>>

IsFree(p) == files[p] = Absent
IsOutput(p) == p # Package /\ files[p] = Absent

CheckDestination(c) ==
    /\ pc[c] = "destination"
    /\ IF IsOutput(dest[c]) THEN Proceed(c, "hash") ELSE Finish(c, "refused")
    /\ UNCHANGED <<local, temp, files, world>>

Hash(c) ==
    /\ pc[c] = "hash" /\ files[Package] # Absent
    /\ digest' = [digest EXCEPT ![c] = PackageDigest]
    /\ Proceed(c, "sign")
    /\ UNCHANGED <<dest, bundle, reread, temp, files, world>>

\* The archive is missing or unreadable, or its name names no package.
HashFails(c) ==
    /\ pc[c] \in {"hash", "rehash"}
    /\ Finish(c, "failed")
    /\ UNCHANGED <<local, temp, files, world>>

-----------------------------------------------------------------------------
(* Signing *)

\* The bundle that comes back is not relied on to hold the payload signed.
Sign(c) ==
    /\ pc[c] = "sign"
    /\ \E payload \in Content : bundle' = [bundle EXCEPT ![c] = payload]
    /\ Proceed(c, "verify")
    /\ UNCHANGED <<dest, digest, reread, temp, files, world>>

\* No credential, no trust configuration, a service that does not answer, or
\* a bundle that does not verify.
SignFails(c) ==
    /\ pc[c] \in {"sign", "verify"}
    /\ Finish(c, "failed")
    /\ UNCHANGED <<local, temp, files, world>>

IsAnything(c) == TRUE
IsPayload(c) == bundle[c] = digest[c]

VerifyLocally(c) ==
    /\ pc[c] = "verify"
    /\ IF IsPayload(c) THEN Proceed(c, "rehash") ELSE Finish(c, "failed")
    /\ UNCHANGED <<local, temp, files, world>>

IsUnchanged(c) == PackageDigest = digest[c]

Rehash(c) ==
    /\ pc[c] = "rehash" /\ files[Package] # Absent
    /\ reread' = [reread EXCEPT ![c] = PackageDigest]
    /\ IF IsUnchanged(c) THEN Proceed(c, "create") ELSE Finish(c, "failed")
    /\ UNCHANGED <<dest, digest, bundle, temp, files, world>>

-----------------------------------------------------------------------------
(* Writing the output *)

CreateTemp(c) ==
    /\ pc[c] = "create"
    /\ temp' = [temp EXCEPT ![c] = File("partial", bundle[c], c)]
    /\ Proceed(c, "write")
    /\ UNCHANGED <<local, files, world>>

CreateFails(c) ==
    /\ pc[c] = "create"
    /\ Finish(c, "failed")
    /\ UNCHANGED <<local, temp, files, world>>

Written == "bundle"

WriteTemp(c) ==
    /\ pc[c] = "write"
    /\ temp' = [temp EXCEPT ![c] = File(Written, bundle[c], c)]
    /\ Proceed(c, "link")
    /\ UNCHANGED <<local, files, world>>

\* The body of the try statement raises.
RaisesAway(c) == Goto(c, "done")
Raises(c) == Goto(c, "unlink")

WriteFails(c) ==
    /\ pc[c] \in {"write", "link"}
    /\ Raises(c) /\ Raise(c, "failed")
    /\ UNCHANGED <<local, temp, files, world>>

ReplacesAnything(c) == TRUE
CanLink(c) == files[dest[c]] = Absent

ExistingIsFine == "created"
ExistingUntold == "FileExistsError"
OnExisting == "refused"

Link(c) ==
    /\ pc[c] = "link"
    /\ Goto(c, "unlink")
    /\ IF CanLink(c)
       THEN /\ files' = [files EXCEPT ![dest[c]] = temp[c]]
            /\ Raise(c, "created")
       ELSE Raise(c, OnExisting) /\ UNCHANGED files
    /\ UNCHANGED <<local, temp, world>>

Unlink(c) ==
    /\ pc[c] = "unlink"
    /\ temp' = [temp EXCEPT ![c] = Absent]
    /\ Proceed(c, "done")
    /\ UNCHANGED <<local, files, world>>

Forget(c) ==
    /\ Goto(c, "idle") /\ Raise(c, "none")
    /\ dest' = [dest EXCEPT ![c] = None]
    /\ digest' = [digest EXCEPT ![c] = None]
    /\ bundle' = [bundle EXCEPT ![c] = None]
    /\ reread' = [reread EXCEPT ![c] = None]

Return(c) ==
    /\ pc[c] = "done"
    /\ Forget(c)
    /\ UNCHANGED <<temp, files, world>>

-----------------------------------------------------------------------------
(* The environment *)

\* The process ends.  Its temporary file stays, under a random name that no
\* code path looks at, so it is not kept in the model.
Crash(c) ==
    /\ pc[c] # "idle"
    /\ Forget(c)
    /\ temp' = [temp EXCEPT ![c] = Absent]
    /\ UNCHANGED <<files, world>>

ChangePackage ==
    /\ changes < MaxChanges
    /\ changes' = changes + 1
    /\ \E file \in {Absent} \cup {File("package", d, None) : d \in Content} :
          files' = [files EXCEPT ![Package] = file]
    /\ UNCHANGED <<pc, local, temp, outcome, removals>>

ChangeOutput ==
    /\ removals < MaxRemovals
    /\ removals' = removals + 1
    /\ \E d \in Dest, file \in {Absent, Earlier} :
          files' = [files EXCEPT ![d] = file]
    /\ UNCHANGED <<pc, local, temp, outcome, changes>>

Step(c) ==
    \/ CheckPackage(c) \/ CheckDestination(c) \/ Hash(c) \/ HashFails(c)
    \/ Sign(c) \/ SignFails(c) \/ VerifyLocally(c) \/ Rehash(c)
    \/ CreateTemp(c) \/ CreateFails(c) \/ WriteTemp(c) \/ WriteFails(c)
    \/ Link(c) \/ Unlink(c) \/ Return(c)

Next ==
    \/ \E c \in Caller : Step(c) \/ Crash(c) \/ \E p \in Path : Begin(c, p)
    \/ ChangePackage \/ ChangeOutput

Spec == Init /\ [][Next]_vars

-----------------------------------------------------------------------------
(* Properties *)

TypeOK ==
    /\ pc \in [Caller -> {"idle", "package", "destination", "hash", "sign",
                         "verify", "rehash", "create", "write", "link",
                         "unlink", "done"}]
    /\ dest \in [Caller -> Path \cup {None}]
    /\ digest \in [Caller -> Content \cup {None}]
    /\ bundle \in [Caller -> Content \cup {None}]
    /\ reread \in [Caller -> Content \cup {None}]
    /\ temp \in [Caller -> Temporaries \cup {Absent}]
    /\ outcome \in [Caller -> {"none", "created", "refused", "failed"}]
    /\ files \in [Path -> Files \cup {Absent}]
    /\ changes \in 0..MaxChanges /\ removals \in 0..MaxRemovals

\* A path that no file has is the only one a caller writes to, and what it
\* writes is there at once and as a whole: no existing attestation is
\* replaced, however callers race, and no reader or crash finds a part of one
\* (create_attestation: a synced temporary file and an exclusive link).
OutputStep ==
    \A p \in Dest : files'[p] # files[p] =>
        \/ removals' # removals
        \/ files[p] = Absent /\ files'[p].kind = "bundle"

OutputsAppearOnce == [][OutputStep]_vars

\* A caller that reports success wrote the file that is there: of callers that
\* race for one output, one succeeds and the others are told it exists.
SuccessIsExclusive ==
    removals = 0 =>
        \A c \in Caller : outcome[c] = "created" =>
            files[dest[c]] = File("bundle", bundle[c], c)

\* An attestation, once it is written, is about the digest that its caller
\* found in the archive both before and after signing it.
AttestsWhatItRead ==
    \A c \in Caller : outcome[c] = "created" =>
        bundle[c] = digest[c] /\ bundle[c] = reread[c]

\* The archive is never written, not even when it disappears and an output of
\* the same path would be free.
PackageUntouched ==
    [][files'[Package] # files[Package] => changes' # changes]_vars

\* Whether the bundle is written, exists already or cannot be written: only
\* the death of its process leaves a temporary file.
NoStrayTemps ==
    \A c \in Caller : temp[c] # Absent => pc[c] \in {"write", "link", "unlink"}
=============================================================================
