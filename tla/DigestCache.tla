----------------------------- MODULE DigestCache -----------------------------
(***************************************************************************)
(* cache.py: the content-addressed sidecar cache, one step per system call  *)
(* that another thread, another process, a crash or a power loss can fall   *)
(* between.                                                                 *)
(*                                                                         *)
(* The cache directory holds sidecars/<digest>.json and                     *)
(* artifacts/<key>.sha256, whose content is a digest.  Both kinds of file   *)
(* are written by _atomic_write under <root>/.write-lock, through a         *)
(* temporary file that is synced and then renamed.  Readers take no lock.   *)
(*                                                                         *)
(* The lock is conda's, a POSIX record lock: it belongs to the process, so  *)
(* it does not exclude two threads of one process, and the first of them    *)
(* to leave drops it for both.                                              *)
(***************************************************************************)
EXTENDS Naturals, FiniteSets

CONSTANTS
    Thread, Process, ProcOf,    \* threads and the process each belongs to
    Key, Body, Digest, Sha256, Size, Limits, None,  \* as in EvidenceCache
    Empty,                      \* the content of a file not yet written
    Absent,                     \* no such file
    MaxTampering,               \* how often others may change the directory
    MaxOutages                  \* how often the machine may lose power

Content == Body \cup Digest \cup {Empty}
Path    == Digest \cup Key      \* sidecars by digest, pointer files by key

\* A file of the directory: its content, and whether that is on disk.
File(c, s) == [content |-> c, synced |-> s]
Files      == [content : Content, synced : BOOLEAN]

ASSUME CacheAssumption ==
    /\ ProcOf \in [Thread -> Process]
    /\ Sha256 \in [Content -> Digest]
    /\ Size \in [Content -> Nat]
    /\ Limits \subseteq Nat
    /\ Body \cap Digest = {} /\ Digest \cap Key = {} /\ Body \cap Key = {}
    /\ Empty \notin Body \cup Digest /\ Absent \notin Files
    /\ None \notin Thread \cup Process \cup Key \cup Body \cup Digest
    /\ MaxTampering \in Nat /\ MaxOutages \in Nat

VARIABLES
    pc,         \* where each thread is
    call,       \* the call each thread is making
    path,       \* the file a store is writing, or the sidecar a load reads
    answer,     \* the outcome a thread has reached in its call
    temp,       \* each thread's temporary file
    live,       \* the files of the directory, as programs see them
    disk,       \* the files that would be found after a power loss
    lockOwner,  \* the process that holds .write-lock
    tampering,  \* changes made to the directory by others
    outages     \* power losses

vars == <<pc, call, path, answer, temp, live, disk, lockOwner, tampering,
          outages>>

\* The vocabulary of calls and answers is the one of the abstract cache.
\* What the abstract cache contains is read off the directory: the bodies
\* that are found under their own digest, and the body each pointer leads to.
Holds(p, c) == live[p] # Absent /\ live[p].content = c

StoredBodies == {b \in Body : Holds(Sha256[b], b)}

BoundBody(k) ==
    IF \E b \in StoredBodies : Holds(k, Sha256[b])
    THEN CHOOSE b \in StoredBodies : Holds(k, Sha256[b])
    ELSE None

BoundBodies == [k \in Key |-> BoundBody(k)]

\* What load_sidecar answers from the present content of one file.
Verdict(p, limit) ==
    IF live[p] = Absent \/ Size[live[p].content] > limit
          \/ Sha256[live[p].content] # p
    THEN [kind |-> "miss", body |-> None]
    ELSE [kind |-> "hit", body |-> live[p].content]

\* A load by key is decided when it reads the pointer; what it will return
\* is what the file the pointer names holds.
DecidedAnswer(t) ==
    IF call[t].op = "find" /\ pc[t] \in {"stat", "read"}
    THEN Verdict(path[t], call[t].limit)
    ELSE answer[t]

DecidedAnswers == [t \in Thread |-> DecidedAnswer(t)]

Promise == INSTANCE EvidenceCache WITH
    stored  <- StoredBodies,
    binding <- BoundBodies,
    answer  <- DecidedAnswers

NoCall   == Promise!NoCall
NoAnswer == Promise!NoAnswer
Ok       == Promise!Ok
Miss     == Promise!Miss
IOError  == Promise!IOError
Refused  == Promise!Refused

-----------------------------------------------------------------------------
Writing == {"create", "write", "replace", "unlink"}  \* inside the lock
Reading == {"pointer", "stat", "read"}
Labels  == {"idle", "start", "lock", "done", "dead"} \cup Writing \cup Reading

Init ==
    /\ pc = [t \in Thread |-> "idle"]
    /\ call = [t \in Thread |-> NoCall]
    /\ path = [t \in Thread |-> None]
    /\ answer = [t \in Thread |-> NoAnswer]
    /\ temp = [t \in Thread |-> Absent]
    /\ live = [p \in Path |-> Absent]
    /\ disk = [p \in Path |-> Absent]
    /\ lockOwner = None
    /\ tampering = 0
    /\ outages = 0

Goto(t, label) == pc' = [pc EXCEPT ![t] = label]

Finish(t, a) ==
    /\ Goto(t, "done")
    /\ answer' = [answer EXCEPT ![t] = a]

outside   == <<tampering, outages>>
directory == <<live, disk>>

\* A caller enters one of the four methods.
Submit(t, c) ==
    /\ pc[t] = "idle"
    /\ Goto(t, "start")
    /\ call' = [call EXCEPT ![t] = c]
    /\ UNCHANGED <<path, answer, temp, directory, lockOwner, outside>>

Return(t) ==
    /\ pc[t] = "done"
    /\ Goto(t, "idle")
    /\ call' = [call EXCEPT ![t] = NoCall]
    /\ path' = [path EXCEPT ![t] = None]
    /\ answer' = [answer EXCEPT ![t] = NoAnswer]
    /\ UNCHANGED <<temp, directory, lockOwner, outside>>

-----------------------------------------------------------------------------
(* store_sidecar, store_artifact_sidecar and _atomic_write.  Just before some
   definitions stands a faulty variant of them, a slip the code could have
   made; no other definition uses it, the properties are tried against it. *)

\* The body is hashed and the hash compared with the one expected, before
\* anything is written.
StartStore(t) ==
    /\ pc[t] = "start" /\ call[t].op \in {"store", "bind"}
    /\ IF call[t].digest \in {None, Sha256[call[t].body]}
       THEN /\ Goto(t, "lock")
            /\ path' = [path EXCEPT ![t] = Sha256[call[t].body]]
            /\ UNCHANGED answer
       ELSE Finish(t, Refused) /\ UNCHANGED path
    /\ UNCHANGED <<call, temp, directory, lockOwner, outside>>

\* The bytes _atomic_write is given: a sidecar, or the digest of one.
DataOfArtifact(t) == IF path[t] \in Key THEN call[t].key ELSE call[t].body
Data(t) == IF path[t] \in Key THEN Sha256[call[t].body] ELSE call[t].body

\* A record lock excludes other processes only.
MayAlwaysLock(t) == TRUE
MayLock(t) == lockOwner \in {None, ProcOf[t]}

Lock(t) ==
    /\ pc[t] = "lock" /\ MayLock(t)
    /\ lockOwner' = ProcOf[t]
    /\ Goto(t, "create")
    /\ UNCHANGED <<call, path, answer, temp, directory, outside>>

\* Whoever closes the lock file drops the lock of the process, whether it has
\* been obtained by this thread, by another one or by none.
DroppedUnlessFailed(t) ==
    IF lockOwner = ProcOf[t] /\ answer[t] # IOError THEN None ELSE lockOwner
LockAfterwards(t) == IF lockOwner = ProcOf[t] THEN None ELSE lockOwner

\* The lock file cannot be opened; or it can, but not be written, or the lock is
\* not obtained in time (the LockError becomes an OSError), and it is closed.
LockFails(t) ==
    /\ pc[t] = "lock"
    /\ Finish(t, IOError)
    /\ lockOwner' \in {lockOwner, LockAfterwards(t)}
    /\ UNCHANGED <<call, path, temp, directory, outside>>

\* mkstemp finds a name that no other thread uses.
NamedByProcess(t) == CHOOSE s \in Thread : ProcOf[s] = ProcOf[t]
TempName(t) == t

\* The target is not touched until it is replaced.
DirectoryAtCreate(t) == live

CreateTemp(t) ==
    /\ pc[t] = "create"
    /\ temp' = [temp EXCEPT ![TempName(t)] = File(Empty, FALSE)]
    /\ live' = DirectoryAtCreate(t)
    /\ Goto(t, "write")
    /\ UNCHANGED <<call, path, answer, disk, lockOwner, outside>>

\* write, flush and fsync.
WrittenUnsynced(t) == File(Data(t), FALSE)
Written(t) == File(Data(t), TRUE)

WriteTemp(t) ==
    /\ pc[t] = "write"
    /\ temp' = [temp EXCEPT ![TempName(t)] = Written(t)]
    /\ Goto(t, "replace")
    /\ UNCHANGED <<call, path, answer, directory, lockOwner, outside>>

\* A write that stops short (the disk is full, fsync fails) is not retried:
\* the finally clause runs with the temporary file as it is.
Retry == "create"
AfterFailure == "unlink"

WriteFails(t) ==
    /\ pc[t] \in {"create", "write", "replace"}
    /\ Goto(t, AfterFailure)
    /\ answer' = [answer EXCEPT ![t] = IOError]
    /\ UNCHANGED <<call, path, temp, directory, lockOwner, outside>>

LastFile(t) == call[t].op = "store" \/ path[t] \in Key

ReplaceFile(t) ==
    /\ pc[t] = "replace"
    /\ live' = [live EXCEPT ![path[t]] = temp[TempName(t)]]
    /\ temp' = [temp EXCEPT ![TempName(t)] = Absent]
    /\ answer' = [answer EXCEPT ![t] = IF LastFile(t) THEN Ok ELSE NoAnswer]
    /\ Goto(t, "unlink")
    /\ UNCHANGED <<call, path, disk, lockOwner, outside>>

\* Leaving the lock on either path: the temporary file goes, the lock file is
\* closed, and store_artifact_sidecar goes on to the pointer file
\* unless storing the body raised.
RemovedUnlessFailed(t) == IF answer[t] = IOError THEN temp[t] ELSE Absent
TempAfterwards(t) == Absent

GoesOnRegardless(t) == ~LastFile(t)
GoesOn(t) == answer[t] = NoAnswer

Unlock(t) ==
    /\ pc[t] = "unlink"
    /\ temp' = [temp EXCEPT ![TempName(t)] = TempAfterwards(t)]
    /\ lockOwner' = LockAfterwards(t)
    /\ IF GoesOn(t)
       THEN Goto(t, "lock") /\ path' = [path EXCEPT ![t] = call[t].key]
       ELSE Goto(t, "done") /\ UNCHANGED path
    /\ UNCHANGED <<call, answer, directory, outside>>

-----------------------------------------------------------------------------
(* load_artifact_sidecar and load_sidecar *)

StartLoad(t) ==
    /\ pc[t] = "start" /\ call[t].op \in {"load", "find"}
    /\ IF call[t].op = "find"
       THEN Goto(t, "pointer") /\ UNCHANGED path
       ELSE Goto(t, "stat") /\ path' = [path EXCEPT ![t] = call[t].digest]
    /\ UNCHANGED <<call, answer, temp, directory, lockOwner, outside>>

\* A pointer file that is absent, or that does not hold a digest, is a miss.
ReadPointer(t) ==
    /\ pc[t] = "pointer"
    /\ LET file == live[call[t].key] IN
       IF file # Absent /\ file.content \in Digest
       THEN /\ Goto(t, "stat")
            /\ path' = [path EXCEPT ![t] = file.content]
            /\ UNCHANGED answer
       ELSE Finish(t, Miss) /\ UNCHANGED path
    /\ UNCHANGED <<call, temp, directory, lockOwner, outside>>

StatSidecar(t) ==
    /\ pc[t] = "stat"
    /\ LET file == live[path[t]] IN
       IF file = Absent \/ Size[file.content] > call[t].limit
       THEN Finish(t, Miss)
       ELSE Goto(t, "read") /\ UNCHANGED answer
    /\ UNCHANGED <<call, path, temp, directory, lockOwner, outside>>

\* Open and read: the file may have been removed, replaced or rewritten
\* since the stat, so its length and its hash are those of the bytes read.
FoundUnchecked(t) ==
    IF live[path[t]] = Absent THEN Miss ELSE Promise!Hit(live[path[t]].content)
Found(t) == Verdict(path[t], call[t].limit)

ReadSidecar(t) ==
    /\ pc[t] = "read"
    /\ Finish(t, Found(t))
    /\ UNCHANGED <<call, path, temp, directory, lockOwner, outside>>

ReadFails(t) ==
    /\ pc[t] \in Reading
    /\ Finish(t, IOError)
    /\ UNCHANGED <<call, path, temp, directory, lockOwner, outside>>

-----------------------------------------------------------------------------
(* The environment *)

\* The temporary file of a dead thread stays in the directory under a random
\* name that no code path reads again, so it is not kept in the model.
Kill(T) ==
    /\ pc' = [t \in Thread |-> IF t \in T THEN "dead" ELSE pc[t]]
    /\ call' = [t \in Thread |-> IF t \in T THEN NoCall ELSE call[t]]
    /\ path' = [t \in Thread |-> IF t \in T THEN None ELSE path[t]]
    /\ answer' = [t \in Thread |-> IF t \in T THEN NoAnswer ELSE answer[t]]
    /\ temp' = [t \in Thread |-> IF t \in T THEN Absent ELSE temp[t]]

\* A process dies at any point; the operating system drops its lock.
Crash(p) ==
    /\ \E t \in Thread : ProcOf[t] = p /\ pc[t] \notin {"idle", "dead"}
    /\ Kill({t \in Thread : ProcOf[t] = p})
    /\ lockOwner' = IF lockOwner = p THEN None ELSE lockOwner
    /\ UNCHANGED <<directory, outside>>

Restart(t) ==
    /\ pc[t] = "dead"
    /\ Goto(t, "idle")
    /\ UNCHANGED <<call, path, answer, temp, directory, lockOwner, outside>>

\* The kernel writes a directory entry back.  It matters only while the
\* power may still fail.
WriteBack(p) ==
    /\ outages < MaxOutages
    /\ disk' = [disk EXCEPT ![p] = live[p]]
    /\ UNCHANGED <<pc, call, path, answer, temp, live, lockOwner, outside>>

\* After a power loss the directory is the one on disk, and a file whose data
\* was not synced before it was renamed is found empty.
PowerLoss ==
    /\ outages < MaxOutages
    /\ outages' = outages + 1
    /\ live' = [p \in Path |->
                   IF disk[p] # Absent /\ ~disk[p].synced
                   THEN File(Empty, TRUE) ELSE disk[p]]
    /\ disk' = live'
    /\ Kill(Thread)
    /\ lockOwner' = None
    /\ UNCHANGED tampering

\* Someone else removes or overwrites a file of the cache directory.
Tamper(p, file) ==
    /\ tampering < MaxTampering
    /\ tampering' = tampering + 1
    /\ live' = [live EXCEPT ![p] = file]
    /\ disk' = [disk EXCEPT ![p] = file]
    /\ UNCHANGED <<pc, call, path, answer, temp, lockOwner, outages>>

-----------------------------------------------------------------------------
Store(t) ==
    \/ StartStore(t) \/ Lock(t) \/ LockFails(t) \/ CreateTemp(t)
    \/ WriteTemp(t) \/ WriteFails(t) \/ ReplaceFile(t) \/ Unlock(t)

Load(t) ==
    \/ StartLoad(t) \/ ReadPointer(t) \/ StatSidecar(t) \/ ReadSidecar(t)
    \/ ReadFails(t)

Step(t) == Store(t) \/ Load(t) \/ Return(t)

Environment ==
    \/ \E p \in Process : Crash(p)
    \/ \E t \in Thread : Restart(t)
    \/ \E p \in Path : WriteBack(p)
    \/ PowerLoss
    \/ \E p \in Path, c \in Content : Tamper(p, File(c, TRUE))
    \/ \E p \in Path : Tamper(p, Absent)

Next ==
    \/ \E t \in Thread : Step(t) \/ \E c \in Promise!Calls : Submit(t, c)
    \/ Environment

Spec == Init /\ [][Next]_vars

\* Threads run, and a call once made is carried on with; nothing obliges
\* anyone to make a call, to crash, to restart or to touch the directory.
Fairness == \A t \in Thread : WF_vars(Step(t))

FairSpec == Spec /\ Fairness

-----------------------------------------------------------------------------
(* Properties *)

TypeOK ==
    /\ pc \in [Thread -> Labels]
    /\ call \in [Thread -> Promise!Calls \cup {NoCall}]
    /\ path \in [Thread -> Path \cup {None}]
    /\ answer \in [Thread -> [kind : {"none", "ok", "refused", "miss", "error",
                                      "hit"},
                              body : Content \cup {None}]]
    /\ temp \in [Thread -> Files \cup {Absent}]
    /\ live \in [Path -> Files \cup {Absent}]
    /\ disk \in [Path -> Files \cup {Absent}]
    /\ lockOwner \in Process \cup {None}
    /\ tampering \in 0..MaxTampering /\ outages \in 0..MaxOutages

\* A file under sidecars/ has the digest it is named after, and a pointer file
\* holds a digest, whatever writers of other processes or of other threads
\* do, wherever a process dies and wherever the power fails (_atomic_write:
\* a synced temporary file, then a rename).
WellFormed(files) ==
    \A p \in Path : files[p] # Absent =>
        IF p \in Key THEN files[p].content \in Digest
                     ELSE Sha256[files[p].content] = p

NoTornFiles == tampering = 0 => WellFormed(live) /\ WellFormed(disk)

\* A pointer file names a sidecar that is there, at every moment at which a
\* reader or a crash may find it (store_artifact_sidecar writes the sidecar
\* first).  Directories are not synced, so a power loss may break this.
PointersLead ==
    tampering = 0 /\ outages = 0 =>
        \A k \in Key : live[k] # Absent => live[live[k].content] # Absent

\* No temporary file outlives the write that made it, on the error paths
\* included; only the death of its process leaves one behind.
NoStrayTemps == \A t \in Thread : temp[t] # Absent => pc[t] \in Writing

\* A process holds the lock only while one of its threads is writing, and
\* writers of two processes are never inside together when every process
\* writes from one thread.
LockHeldByWriter ==
    lockOwner # None =>
        \E t \in Thread : ProcOf[t] = lockOwner /\ pc[t] \in Writing

OneThreadEach == \A s, t \in Thread : ProcOf[s] = ProcOf[t] => s = t

WritersExclude ==
    OneThreadEach =>
        \A s, t \in Thread :
            pc[s] \in Writing /\ pc[t] \in Writing => s = t

\* Whatever others do to the directory while a load is running, the bytes it
\* returns are within the caller's limit and have the digest that was asked
\* for, or that the pointer file named when it was read.
LoadsRecheck ==
    \A t \in Thread : answer[t].kind = "hit" =>
        /\ Size[answer[t].body] <= call[t].limit
        /\ Sha256[answer[t].body] = path[t]
        /\ call[t].op = "load" => path[t] = call[t].digest

\* No step of the cache, and no crash, takes a file away: evidence that was
\* stored for an offline install is not lost to a later call that fails.
FilesStay ==
    \A p \in Path :
        live[p] # Absent => \/ live'[p] # Absent
                           \/ tampering' # tampering \/ outages' # outages

FilesAreNeverLost == [][FilesStay]_vars

\* The cache implements EvidenceCache while nobody else touches the directory
\* (runs of this property set MaxTampering and MaxOutages to 0).
ImplementsPromise == Promise!Spec

\* Whoever gets the lock lets go of it, wherever it fails, dies or meets others
\* of its process: no install is kept waiting for ever by another.
LockIsLetGo == \A p \in Process : lockOwner = p ~> lockOwner # p
=============================================================================
