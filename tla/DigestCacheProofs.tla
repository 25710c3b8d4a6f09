--------------------------- MODULE DigestCacheProofs ---------------------------
(***************************************************************************)
(* Proofs about DigestCache, for any number of threads, processes, keys,    *)
(* bodies, crashes, power losses and changes by others.  What a thread does *)
(* to the directory depends only on what it established before: that it     *)
(* writes a sidecar under its digest or a digest under its key, that its    *)
(* temporary file is whole and synced when it is renamed, and that the      *)
(* sidecar is there when the pointer to it is written.                      *)
(***************************************************************************)
EXTENDS DigestCache, TLAPS

\* What each kind of call carries.
WellMade(c) ==
    /\ c.op \in {"store", "bind"} => c.body \in Body
    /\ c.op \in {"bind", "find"} => c.key \in Key
    /\ c.op = "load" => c.digest \in Digest
    /\ c.limit \in Nat

CallsWellMade == \A t \in Thread : WellMade(call[t])

\* The thread is storing, and path is the file it has come to; it goes on to
\* the pointer only in a call that has one to write.
Storing(t) ==
    /\ call[t].op \in {"store", "bind"}
    /\ \/ path[t] = Sha256[call[t].body]
       \/ call[t].op = "bind" /\ path[t] = call[t].key

StoresOnTheirWay ==
    \A t \in Thread :
        /\ pc[t] \in Writing \cup {"lock"} => Storing(t)
        /\ pc[t] = "unlink" /\ answer[t] = NoAnswer => call[t].op = "bind"

LoadsOnTheirWay ==
    \A t \in Thread :
        /\ pc[t] = "pointer" => call[t].op = "find"
        /\ pc[t] \in {"stat", "read"} =>
              /\ path[t] \in Digest
              /\ call[t].op = "load" => path[t] = call[t].digest

AnswersAtEnd ==
    \A t \in Thread :
        answer[t].kind # "none" => pc[t] \in {"unlink", "done"}

TempsWhole ==
    \A t \in Thread : pc[t] = "replace" => temp[t] = File(Data(t), TRUE)

AllSynced ==
    \A p \in Path : /\ live[p] # Absent => live[p].synced
                    /\ disk[p] # Absent => disk[p].synced

\* A thread that goes on to the pointer has stored the sidecar.
SidecarFirst ==
    tampering = 0 /\ outages = 0 =>
        \A t \in Thread :
            \/ pc[t] \in Writing \cup {"lock"} /\ path[t] \in Key
            \/ pc[t] = "unlink" /\ answer[t] = NoAnswer
            => live[Sha256[call[t].body]] # Absent

\* A thread inside holds the lock, as long as it is the only one of its process.
HolderInside ==
    OneThreadEach =>
        \A t \in Thread : pc[t] \in Writing => lockOwner = ProcOf[t]

IInv ==
    /\ TypeOK
    /\ CallsWellMade /\ StoresOnTheirWay /\ LoadsOnTheirWay /\ AnswersAtEnd
    /\ TempsWhole /\ AllSynced /\ NoStrayTemps
    /\ NoTornFiles /\ LoadsRecheck
    /\ SidecarFirst /\ PointersLead
    /\ HolderInside /\ LockHeldByWriter

USE DEF Goto, Finish, outside, directory, Labels, Writing, Reading,
        NoCall, NoAnswer, Ok, Miss, IOError, Refused,
        Promise!NoCall, Promise!NoAnswer, Promise!Ok, Promise!Miss,
        Promise!IOError, Promise!Refused, Promise!Answer, Promise!Call

-----------------------------------------------------------------------------
(* What the calls and files are *)

\* A call that a caller can make, or none, carries what its kind needs.
LEMMA CallsAreWellMade == \A c \in Promise!Calls \cup {NoCall} : WellMade(c)
  BY CacheAssumption DEF Promise!Calls, WellMade

\* A file has a content, and no file is Absent.
LEMMA FilesHaveContent ==
  /\ \A c \in Content, s \in BOOLEAN :
        File(c, s) \in Files /\ File(c, s) # Absent
  /\ \A c, s : File(c, s).content = c
  /\ \A c : File(c, TRUE).synced
  /\ \A f \in Files : f.content \in Content /\ f # Absent
  BY CacheAssumption DEF File, Files

\* What a storing thread writes is a sidecar under its digest, or a digest
\* under the key.
LEMMA DataFitsPath ==
  ASSUME CallsWellMade, NEW t \in Thread, Storing(t)
  PROVE  /\ path[t] \in Path /\ Data(t) \in Content
         /\ call[t].body \in Body /\ Sha256[call[t].body] \in Digest
         /\ IF path[t] \in Key THEN Data(t) \in Digest
                               ELSE Sha256[Data(t)] = path[t]
         /\ path[t] \in Key => path[t] = call[t].key /\ call[t].op = "bind"
         /\ path[t] \notin Key => path[t] = Sha256[call[t].body]
  BY CacheAssumption
     DEF CallsWellMade, WellMade, Storing, Data, Path, Content

-----------------------------------------------------------------------------
(* One lemma for each part of the invariant: every step preserves it *)

\* The types.
LEMMA NextTypeOK ==
  ASSUME TypeOK, CallsWellMade, StoresOnTheirWay, LoadsOnTheirWay, [Next]_vars
  PROVE  TypeOK'
  <1>1. ASSUME NEW t \in Thread, NEW c \in Promise!Calls, Submit(t, c)
        PROVE  TypeOK'
    BY <1>1 DEF TypeOK, Submit
  <1>2. ASSUME NEW t \in Thread, Return(t) PROVE TypeOK'
    BY <1>2 DEF TypeOK, Return
  <1>3. ASSUME NEW t \in Thread, StartStore(t) PROVE TypeOK'
    <2>1. Sha256[call[t].body] \in Path
      BY <1>3, CacheAssumption
         DEF StartStore, CallsWellMade, WellMade, Path, Content
    <2>2. CASE /\ pc' = [pc EXCEPT ![t] = "lock"] /\ UNCHANGED answer
               /\ path' = [path EXCEPT ![t] = Sha256[call[t].body]]
      BY <1>3, <2>1, <2>2 DEF TypeOK, StartStore
    <2>3. CASE Finish(t, Refused) /\ UNCHANGED path
      BY <1>3, <2>3 DEF TypeOK, StartStore
    <2> QED
      BY <1>3, <2>2, <2>3 DEF StartStore
  <1>4. ASSUME NEW t \in Thread, Lock(t) PROVE TypeOK'
    BY <1>4, CacheAssumption DEF TypeOK, Lock
  <1>5. ASSUME NEW t \in Thread, LockFails(t) PROVE TypeOK'
    BY <1>5 DEF TypeOK, LockFails, LockAfterwards
  <1>6. ASSUME NEW t \in Thread, CreateTemp(t) PROVE TypeOK'
    BY <1>6, FilesHaveContent DEF TypeOK, CreateTemp, TempName,
       DirectoryAtCreate, Content
  <1>7. ASSUME NEW t \in Thread, WriteTemp(t) PROVE TypeOK'
    BY <1>7, FilesHaveContent, DataFitsPath DEF TypeOK, WriteTemp, TempName,
       Written, StoresOnTheirWay
  <1>8. ASSUME NEW t \in Thread, WriteFails(t) PROVE TypeOK'
    BY <1>8 DEF TypeOK, WriteFails, AfterFailure
  <1>9. ASSUME NEW t \in Thread, ReplaceFile(t) PROVE TypeOK'
    BY <1>9 DEF TypeOK, ReplaceFile, TempName
  <1>10. ASSUME NEW t \in Thread, Unlock(t) PROVE TypeOK'
    BY <1>10, CacheAssumption DEF TypeOK, Unlock, TempName, TempAfterwards,
       StoresOnTheirWay, CallsWellMade, WellMade, Path, LockAfterwards,
       GoesOn
  <1>11. ASSUME NEW t \in Thread, StartLoad(t) PROVE TypeOK'
    BY <1>11 DEF TypeOK, StartLoad, CallsWellMade, WellMade, Path
  <1>12. ASSUME NEW t \in Thread, ReadPointer(t) PROVE TypeOK'
    <2>1. CASE /\ live[call[t].key].content \in Digest
               /\ pc' = [pc EXCEPT ![t] = "stat"] /\ UNCHANGED answer
               /\ path' = [path EXCEPT ![t] = live[call[t].key].content]
      BY <1>12, <2>1 DEF TypeOK, ReadPointer, Path
    <2>2. CASE Finish(t, Miss) /\ UNCHANGED path
      BY <1>12, <2>2 DEF TypeOK, ReadPointer
    <2> QED
      BY <1>12, <2>1, <2>2 DEF ReadPointer
  <1>13. ASSUME NEW t \in Thread, StatSidecar(t) PROVE TypeOK'
    <2>1. CASE pc' = [pc EXCEPT ![t] = "read"] /\ UNCHANGED answer
      BY <1>13, <2>1 DEF TypeOK, StatSidecar
    <2>2. CASE Finish(t, Miss)
      BY <1>13, <2>2 DEF TypeOK, StatSidecar
    <2> QED
      BY <1>13, <2>1, <2>2 DEF StatSidecar
  <1>14. ASSUME NEW t \in Thread, ReadSidecar(t) PROVE TypeOK'
    BY <1>14, FilesHaveContent DEF TypeOK, ReadSidecar, Found, Verdict,
       LoadsOnTheirWay, Path
  <1>15. ASSUME NEW t \in Thread, ReadFails(t) PROVE TypeOK'
    BY <1>15 DEF TypeOK, ReadFails
  <1>16. ASSUME NEW t \in Thread, Restart(t) PROVE TypeOK'
    BY <1>16 DEF TypeOK, Restart
  <1>17. ASSUME NEW p \in Process, Crash(p) PROVE TypeOK'
    BY <1>17 DEF TypeOK, Crash, Kill
  <1>18. ASSUME NEW p \in Path, WriteBack(p) PROVE TypeOK'
    BY <1>18 DEF TypeOK, WriteBack
  <1>19. CASE PowerLoss
    <2>1. live' \in [Path -> Files \cup {Absent}] /\ disk' = live'
      BY <1>19, FilesHaveContent DEF TypeOK, PowerLoss, Content
    <2>2. pc' \in [Thread -> Labels] /\ path' \in [Thread -> Path \cup {None}]
      BY <1>19 DEF TypeOK, PowerLoss, Kill
    <2>3. call' \in [Thread -> Promise!Calls \cup {NoCall}]
      BY <1>19 DEF TypeOK, PowerLoss, Kill
    <2>4. temp' \in [Thread -> Files \cup {Absent}]
      BY <1>19 DEF TypeOK, PowerLoss, Kill
    <2>5. answer' \in [Thread -> [kind : {"none", "ok", "refused", "miss",
                                           "error", "hit"},
                                  body : Content \cup {None}]]
      BY <1>19 DEF TypeOK, PowerLoss, Kill
    <2>6. /\ lockOwner' = None /\ tampering' = tampering
          /\ outages' \in 0..MaxOutages
      BY <1>19, CacheAssumption DEF TypeOK, PowerLoss
    <2> QED
      BY <2>1, <2>2, <2>3, <2>4, <2>5, <2>6 DEF TypeOK
  <1>20. ASSUME NEW p \in Path, NEW f \in Files \cup {Absent},
               f # Absent => f.synced, Tamper(p, f)
        PROVE  TypeOK'
    BY <1>20, CacheAssumption DEF TypeOK, Tamper
  <1>21. CASE UNCHANGED vars
    BY <1>21 DEF TypeOK, vars
  <1> QED
    BY <1>1, <1>2, <1>3, <1>4, <1>5, <1>6, <1>7, <1>8, <1>9, <1>10, <1>11,
       <1>12, <1>13, <1>14, <1>15, <1>16, <1>17, <1>18, <1>19, <1>20, <1>21,
       FilesHaveContent DEF Next, Step, Store, Load, Environment

\* Calls carry what their kind needs.
LEMMA NextCalls ==
  ASSUME TypeOK, CallsWellMade, [Next]_vars
  PROVE  CallsWellMade'
  <1>1. ASSUME NEW t \in Thread, NEW c \in Promise!Calls, Submit(t, c)
        PROVE  CallsWellMade'
    BY <1>1, CallsAreWellMade DEF TypeOK, CallsWellMade, Submit
  <1>2. ASSUME NEW t \in Thread,
              \/ Return(t) \/ StartStore(t) \/ Lock(t) \/ LockFails(t)
              \/ CreateTemp(t) \/ WriteTemp(t) \/ WriteFails(t)
              \/ ReplaceFile(t) \/ Unlock(t) \/ StartLoad(t)
              \/ ReadPointer(t) \/ StatSidecar(t) \/ ReadSidecar(t)
              \/ ReadFails(t) \/ Restart(t)
        PROVE  CallsWellMade'
    BY <1>2, CallsAreWellMade DEF TypeOK, CallsWellMade, Return, StartStore,
       Lock, LockFails, CreateTemp, TempName, DirectoryAtCreate, WriteTemp,
       TempName, Written, WriteFails, AfterFailure, ReplaceFile, TempName,
       Unlock, TempName, TempAfterwards, StartLoad, ReadPointer,
       StatSidecar, ReadSidecar, Found, Verdict, ReadFails, Restart
  <1>3. ASSUME NEW p \in Process, Crash(p) PROVE CallsWellMade'
    BY <1>3, CallsAreWellMade DEF TypeOK, CallsWellMade, Crash, Kill
  <1>4. ASSUME NEW p \in Path, WriteBack(p) PROVE CallsWellMade'
    BY <1>4, CallsAreWellMade DEF TypeOK, CallsWellMade, WriteBack
  <1>5. CASE PowerLoss
    BY <1>5, CallsAreWellMade DEF TypeOK, CallsWellMade, PowerLoss, Kill
  <1>6. ASSUME NEW p \in Path, NEW f \in Files \cup {Absent},
               f # Absent => f.synced, Tamper(p, f)
        PROVE  CallsWellMade'
    BY <1>6, CallsAreWellMade DEF TypeOK, CallsWellMade, Tamper
  <1>7. CASE UNCHANGED vars
    BY <1>7, CallsAreWellMade DEF TypeOK, CallsWellMade, vars
  <1> QED
    BY <1>1, <1>2, <1>3, <1>4, <1>5, <1>6, <1>7, FilesHaveContent DEF Next,
       Step, Store, Load, Environment

\* A storing thread stays on its way.
LEMMA NextStores ==
  ASSUME TypeOK, CallsWellMade, StoresOnTheirWay, AnswersAtEnd, [Next]_vars
  PROVE  StoresOnTheirWay'
  <1>1. ASSUME NEW t \in Thread, NEW c \in Promise!Calls, Submit(t, c)
        PROVE  StoresOnTheirWay'
    BY <1>1 DEF TypeOK, StoresOnTheirWay, Storing, Submit
  <1>2. ASSUME NEW t \in Thread, Return(t) PROVE StoresOnTheirWay'
    BY <1>2 DEF TypeOK, StoresOnTheirWay, Storing, Return
  <1>3. ASSUME NEW t \in Thread, StartStore(t) PROVE StoresOnTheirWay'
    BY <1>3 DEF TypeOK, StoresOnTheirWay, Storing, StartStore, AnswersAtEnd
  <1>4. ASSUME NEW t \in Thread, Lock(t) PROVE StoresOnTheirWay'
    BY <1>4 DEF TypeOK, StoresOnTheirWay, Storing, Lock
  <1>5. ASSUME NEW t \in Thread, LockFails(t) PROVE StoresOnTheirWay'
    BY <1>5 DEF TypeOK, StoresOnTheirWay, Storing, LockFails
  <1>6. ASSUME NEW t \in Thread, CreateTemp(t) PROVE StoresOnTheirWay'
    BY <1>6 DEF TypeOK, StoresOnTheirWay, Storing, CreateTemp, TempName,
       DirectoryAtCreate
  <1>7. ASSUME NEW t \in Thread, WriteTemp(t) PROVE StoresOnTheirWay'
    BY <1>7 DEF TypeOK, StoresOnTheirWay, Storing, WriteTemp, TempName,
       Written
  <1>8. ASSUME NEW t \in Thread, WriteFails(t) PROVE StoresOnTheirWay'
    BY <1>8 DEF TypeOK, StoresOnTheirWay, Storing, WriteFails, AfterFailure
  <1>9. ASSUME NEW t \in Thread, ReplaceFile(t) PROVE StoresOnTheirWay'
    BY <1>9, DataFitsPath DEF TypeOK, StoresOnTheirWay, Storing,
       ReplaceFile, TempName, LastFile
  <1>10. ASSUME NEW t \in Thread, Unlock(t) PROVE StoresOnTheirWay'
    BY <1>10 DEF TypeOK, StoresOnTheirWay, Storing, Unlock, TempName,
       TempAfterwards, GoesOn
  <1>11. ASSUME NEW t \in Thread, StartLoad(t) PROVE StoresOnTheirWay'
    BY <1>11 DEF TypeOK, StoresOnTheirWay, Storing, StartLoad
  <1>12. ASSUME NEW t \in Thread, ReadPointer(t) PROVE StoresOnTheirWay'
    BY <1>12 DEF TypeOK, StoresOnTheirWay, Storing, ReadPointer
  <1>13. ASSUME NEW t \in Thread, StatSidecar(t) PROVE StoresOnTheirWay'
    BY <1>13 DEF TypeOK, StoresOnTheirWay, Storing, StatSidecar
  <1>14. ASSUME NEW t \in Thread, ReadSidecar(t) PROVE StoresOnTheirWay'
    BY <1>14 DEF TypeOK, StoresOnTheirWay, Storing, ReadSidecar, Found,
       Verdict
  <1>15. ASSUME NEW t \in Thread, ReadFails(t) PROVE StoresOnTheirWay'
    BY <1>15 DEF TypeOK, StoresOnTheirWay, Storing, ReadFails
  <1>16. ASSUME NEW t \in Thread, Restart(t) PROVE StoresOnTheirWay'
    BY <1>16 DEF TypeOK, StoresOnTheirWay, Storing, Restart
  <1>17. ASSUME NEW p \in Process, Crash(p) PROVE StoresOnTheirWay'
    BY <1>17 DEF TypeOK, StoresOnTheirWay, Storing, Crash, Kill
  <1>18. ASSUME NEW p \in Path, WriteBack(p) PROVE StoresOnTheirWay'
    BY <1>18 DEF TypeOK, StoresOnTheirWay, Storing, WriteBack
  <1>19. CASE PowerLoss
    BY <1>19 DEF TypeOK, StoresOnTheirWay, Storing, PowerLoss, Kill
  <1>20. ASSUME NEW p \in Path, NEW f \in Files \cup {Absent},
               f # Absent => f.synced, Tamper(p, f)
        PROVE  StoresOnTheirWay'
    BY <1>20 DEF TypeOK, StoresOnTheirWay, Storing, Tamper
  <1>21. CASE UNCHANGED vars
    BY <1>21 DEF TypeOK, StoresOnTheirWay, Storing, vars
  <1> QED
    BY <1>1, <1>2, <1>3, <1>4, <1>5, <1>6, <1>7, <1>8, <1>9, <1>10, <1>11,
       <1>12, <1>13, <1>14, <1>15, <1>16, <1>17, <1>18, <1>19, <1>20, <1>21,
       FilesHaveContent DEF Next, Step, Store, Load, Environment

\* A loading thread stays on its way.
LEMMA NextLoads ==
  ASSUME TypeOK, CallsWellMade, LoadsOnTheirWay, [Next]_vars
  PROVE  LoadsOnTheirWay'
  <1>1. ASSUME NEW t \in Thread, NEW c \in Promise!Calls, Submit(t, c)
        PROVE  LoadsOnTheirWay'
    BY <1>1 DEF TypeOK, LoadsOnTheirWay, Submit
  <1>2. ASSUME NEW t \in Thread, Return(t) PROVE LoadsOnTheirWay'
    BY <1>2 DEF TypeOK, LoadsOnTheirWay, Return
  <1>3. ASSUME NEW t \in Thread, StartStore(t) PROVE LoadsOnTheirWay'
    BY <1>3 DEF TypeOK, LoadsOnTheirWay, StartStore
  <1>4. ASSUME NEW t \in Thread, Lock(t) PROVE LoadsOnTheirWay'
    BY <1>4 DEF TypeOK, LoadsOnTheirWay, Lock
  <1>5. ASSUME NEW t \in Thread, LockFails(t) PROVE LoadsOnTheirWay'
    BY <1>5 DEF TypeOK, LoadsOnTheirWay, LockFails
  <1>6. ASSUME NEW t \in Thread, CreateTemp(t) PROVE LoadsOnTheirWay'
    BY <1>6 DEF TypeOK, LoadsOnTheirWay, CreateTemp, TempName,
       DirectoryAtCreate
  <1>7. ASSUME NEW t \in Thread, WriteTemp(t) PROVE LoadsOnTheirWay'
    BY <1>7 DEF TypeOK, LoadsOnTheirWay, WriteTemp, TempName, Written
  <1>8. ASSUME NEW t \in Thread, WriteFails(t) PROVE LoadsOnTheirWay'
    BY <1>8 DEF TypeOK, LoadsOnTheirWay, WriteFails, AfterFailure
  <1>9. ASSUME NEW t \in Thread, ReplaceFile(t) PROVE LoadsOnTheirWay'
    BY <1>9 DEF TypeOK, LoadsOnTheirWay, ReplaceFile, TempName
  <1>10. ASSUME NEW t \in Thread, Unlock(t) PROVE LoadsOnTheirWay'
    BY <1>10 DEF TypeOK, LoadsOnTheirWay, Unlock, TempName, TempAfterwards
  <1>11. ASSUME NEW t \in Thread, StartLoad(t) PROVE LoadsOnTheirWay'
    BY <1>11 DEF TypeOK, LoadsOnTheirWay, StartLoad, CallsWellMade, WellMade
  <1>12. ASSUME NEW t \in Thread, ReadPointer(t) PROVE LoadsOnTheirWay'
    BY <1>12 DEF TypeOK, LoadsOnTheirWay, ReadPointer
  <1>13. ASSUME NEW t \in Thread, StatSidecar(t) PROVE LoadsOnTheirWay'
    BY <1>13 DEF TypeOK, LoadsOnTheirWay, StatSidecar
  <1>14. ASSUME NEW t \in Thread, ReadSidecar(t) PROVE LoadsOnTheirWay'
    BY <1>14 DEF TypeOK, LoadsOnTheirWay, ReadSidecar, Found, Verdict
  <1>15. ASSUME NEW t \in Thread, ReadFails(t) PROVE LoadsOnTheirWay'
    BY <1>15 DEF TypeOK, LoadsOnTheirWay, ReadFails
  <1>16. ASSUME NEW t \in Thread, Restart(t) PROVE LoadsOnTheirWay'
    BY <1>16 DEF TypeOK, LoadsOnTheirWay, Restart
  <1>17. ASSUME NEW p \in Process, Crash(p) PROVE LoadsOnTheirWay'
    BY <1>17 DEF TypeOK, LoadsOnTheirWay, Crash, Kill
  <1>18. ASSUME NEW p \in Path, WriteBack(p) PROVE LoadsOnTheirWay'
    BY <1>18 DEF TypeOK, LoadsOnTheirWay, WriteBack
  <1>19. CASE PowerLoss
    BY <1>19 DEF TypeOK, LoadsOnTheirWay, PowerLoss, Kill
  <1>20. ASSUME NEW p \in Path, NEW f \in Files \cup {Absent},
               f # Absent => f.synced, Tamper(p, f)
        PROVE  LoadsOnTheirWay'
    BY <1>20 DEF TypeOK, LoadsOnTheirWay, Tamper
  <1>21. CASE UNCHANGED vars
    BY <1>21 DEF TypeOK, LoadsOnTheirWay, vars
  <1> QED
    BY <1>1, <1>2, <1>3, <1>4, <1>5, <1>6, <1>7, <1>8, <1>9, <1>10, <1>11,
       <1>12, <1>13, <1>14, <1>15, <1>16, <1>17, <1>18, <1>19, <1>20, <1>21,
       FilesHaveContent DEF Next, Step, Store, Load, Environment

\* Only a thread at the end of its call has an answer.
LEMMA NextAnswers ==
  ASSUME TypeOK, AnswersAtEnd, [Next]_vars
  PROVE  AnswersAtEnd'
  <1>1. ASSUME NEW t \in Thread, NEW c \in Promise!Calls, Submit(t, c)
        PROVE  AnswersAtEnd'
    BY <1>1 DEF TypeOK, AnswersAtEnd, Submit
  <1>2. ASSUME NEW t \in Thread, Return(t) PROVE AnswersAtEnd'
    BY <1>2 DEF TypeOK, AnswersAtEnd, Return
  <1>3. ASSUME NEW t \in Thread, StartStore(t) PROVE AnswersAtEnd'
    BY <1>3 DEF TypeOK, AnswersAtEnd, StartStore
  <1>4. ASSUME NEW t \in Thread, Lock(t) PROVE AnswersAtEnd'
    BY <1>4 DEF TypeOK, AnswersAtEnd, Lock
  <1>5. ASSUME NEW t \in Thread, LockFails(t) PROVE AnswersAtEnd'
    BY <1>5 DEF TypeOK, AnswersAtEnd, LockFails
  <1>6. ASSUME NEW t \in Thread, CreateTemp(t) PROVE AnswersAtEnd'
    BY <1>6 DEF TypeOK, AnswersAtEnd, CreateTemp, TempName,
       DirectoryAtCreate
  <1>7. ASSUME NEW t \in Thread, WriteTemp(t) PROVE AnswersAtEnd'
    BY <1>7 DEF TypeOK, AnswersAtEnd, WriteTemp, TempName, Written
  <1>8. ASSUME NEW t \in Thread, WriteFails(t) PROVE AnswersAtEnd'
    BY <1>8 DEF TypeOK, AnswersAtEnd, WriteFails, AfterFailure
  <1>9. ASSUME NEW t \in Thread, ReplaceFile(t) PROVE AnswersAtEnd'
    BY <1>9 DEF TypeOK, AnswersAtEnd, ReplaceFile, TempName
  <1>10. ASSUME NEW t \in Thread, Unlock(t) PROVE AnswersAtEnd'
    BY <1>10 DEF TypeOK, AnswersAtEnd, Unlock, TempName, TempAfterwards,
       GoesOn
  <1>11. ASSUME NEW t \in Thread, StartLoad(t) PROVE AnswersAtEnd'
    BY <1>11 DEF TypeOK, AnswersAtEnd, StartLoad
  <1>12. ASSUME NEW t \in Thread, ReadPointer(t) PROVE AnswersAtEnd'
    BY <1>12 DEF TypeOK, AnswersAtEnd, ReadPointer
  <1>13. ASSUME NEW t \in Thread, StatSidecar(t) PROVE AnswersAtEnd'
    BY <1>13 DEF TypeOK, AnswersAtEnd, StatSidecar
  <1>14. ASSUME NEW t \in Thread, ReadSidecar(t) PROVE AnswersAtEnd'
    BY <1>14 DEF TypeOK, AnswersAtEnd, ReadSidecar, Found, Verdict
  <1>15. ASSUME NEW t \in Thread, ReadFails(t) PROVE AnswersAtEnd'
    BY <1>15 DEF TypeOK, AnswersAtEnd, ReadFails
  <1>16. ASSUME NEW t \in Thread, Restart(t) PROVE AnswersAtEnd'
    BY <1>16 DEF TypeOK, AnswersAtEnd, Restart
  <1>17. ASSUME NEW p \in Process, Crash(p) PROVE AnswersAtEnd'
    BY <1>17 DEF TypeOK, AnswersAtEnd, Crash, Kill
  <1>18. ASSUME NEW p \in Path, WriteBack(p) PROVE AnswersAtEnd'
    BY <1>18 DEF TypeOK, AnswersAtEnd, WriteBack
  <1>19. CASE PowerLoss
    BY <1>19 DEF TypeOK, AnswersAtEnd, PowerLoss, Kill
  <1>20. ASSUME NEW p \in Path, NEW f \in Files \cup {Absent},
               f # Absent => f.synced, Tamper(p, f)
        PROVE  AnswersAtEnd'
    BY <1>20 DEF TypeOK, AnswersAtEnd, Tamper
  <1>21. CASE UNCHANGED vars
    BY <1>21 DEF TypeOK, AnswersAtEnd, vars
  <1> QED
    BY <1>1, <1>2, <1>3, <1>4, <1>5, <1>6, <1>7, <1>8, <1>9, <1>10, <1>11,
       <1>12, <1>13, <1>14, <1>15, <1>16, <1>17, <1>18, <1>19, <1>20, <1>21,
       FilesHaveContent DEF Next, Step, Store, Load, Environment

\* A file about to be renamed is whole and synced.
LEMMA NextTemps ==
  ASSUME TypeOK, TempsWhole, [Next]_vars
  PROVE  TempsWhole'
  <1>1. ASSUME NEW t \in Thread, NEW c \in Promise!Calls, Submit(t, c)
        PROVE  TempsWhole'
    BY <1>1 DEF TypeOK, TempsWhole, Data, Submit
  <1>2. ASSUME NEW t \in Thread, Return(t) PROVE TempsWhole'
    BY <1>2 DEF TypeOK, TempsWhole, Data, Return
  <1>3. ASSUME NEW t \in Thread, StartStore(t) PROVE TempsWhole'
    BY <1>3 DEF TypeOK, TempsWhole, Data, StartStore
  <1>4. ASSUME NEW t \in Thread, Lock(t) PROVE TempsWhole'
    BY <1>4 DEF TypeOK, TempsWhole, Data, Lock
  <1>5. ASSUME NEW t \in Thread, LockFails(t) PROVE TempsWhole'
    BY <1>5 DEF TypeOK, TempsWhole, Data, LockFails
  <1>6. ASSUME NEW t \in Thread, CreateTemp(t) PROVE TempsWhole'
    BY <1>6 DEF TypeOK, TempsWhole, Data, CreateTemp, TempName,
       DirectoryAtCreate
  <1>7. ASSUME NEW t \in Thread, WriteTemp(t) PROVE TempsWhole'
    BY <1>7 DEF TypeOK, TempsWhole, Data, WriteTemp, TempName, Written
  <1>8. ASSUME NEW t \in Thread, WriteFails(t) PROVE TempsWhole'
    BY <1>8 DEF TypeOK, TempsWhole, Data, WriteFails, AfterFailure
  <1>9. ASSUME NEW t \in Thread, ReplaceFile(t) PROVE TempsWhole'
    BY <1>9 DEF TypeOK, TempsWhole, Data, ReplaceFile, TempName
  <1>10. ASSUME NEW t \in Thread, Unlock(t) PROVE TempsWhole'
    BY <1>10 DEF TypeOK, TempsWhole, Data, Unlock, TempName, TempAfterwards
  <1>11. ASSUME NEW t \in Thread, StartLoad(t) PROVE TempsWhole'
    BY <1>11 DEF TypeOK, TempsWhole, Data, StartLoad
  <1>12. ASSUME NEW t \in Thread, ReadPointer(t) PROVE TempsWhole'
    BY <1>12 DEF TypeOK, TempsWhole, Data, ReadPointer
  <1>13. ASSUME NEW t \in Thread, StatSidecar(t) PROVE TempsWhole'
    BY <1>13 DEF TypeOK, TempsWhole, Data, StatSidecar
  <1>14. ASSUME NEW t \in Thread, ReadSidecar(t) PROVE TempsWhole'
    BY <1>14 DEF TypeOK, TempsWhole, Data, ReadSidecar, Found, Verdict
  <1>15. ASSUME NEW t \in Thread, ReadFails(t) PROVE TempsWhole'
    BY <1>15 DEF TypeOK, TempsWhole, Data, ReadFails
  <1>16. ASSUME NEW t \in Thread, Restart(t) PROVE TempsWhole'
    BY <1>16 DEF TypeOK, TempsWhole, Data, Restart
  <1>17. ASSUME NEW p \in Process, Crash(p) PROVE TempsWhole'
    BY <1>17 DEF TypeOK, TempsWhole, Data, Crash, Kill
  <1>18. ASSUME NEW p \in Path, WriteBack(p) PROVE TempsWhole'
    BY <1>18 DEF TypeOK, TempsWhole, Data, WriteBack
  <1>19. CASE PowerLoss
    BY <1>19 DEF TypeOK, TempsWhole, Data, PowerLoss, Kill
  <1>20. ASSUME NEW p \in Path, NEW f \in Files \cup {Absent},
               f # Absent => f.synced, Tamper(p, f)
        PROVE  TempsWhole'
    BY <1>20 DEF TypeOK, TempsWhole, Data, Tamper
  <1>21. CASE UNCHANGED vars
    BY <1>21 DEF TypeOK, TempsWhole, Data, vars
  <1> QED
    BY <1>1, <1>2, <1>3, <1>4, <1>5, <1>6, <1>7, <1>8, <1>9, <1>10, <1>11,
       <1>12, <1>13, <1>14, <1>15, <1>16, <1>17, <1>18, <1>19, <1>20, <1>21,
       FilesHaveContent DEF Next, Step, Store, Load, Environment

\* So every file of the directory is synced.
LEMMA NextSynced ==
  ASSUME TypeOK, TempsWhole, AllSynced, [Next]_vars
  PROVE  AllSynced'
  <1>1. ASSUME NEW t \in Thread, NEW c \in Promise!Calls, Submit(t, c)
        PROVE  AllSynced'
    BY <1>1 DEF TypeOK, AllSynced, Submit
  <1>2. ASSUME NEW t \in Thread,
              \/ Return(t) \/ StartStore(t) \/ Lock(t) \/ LockFails(t)
              \/ CreateTemp(t) \/ WriteTemp(t) \/ WriteFails(t) \/ Unlock(t)
              \/ StartLoad(t) \/ ReadPointer(t) \/ StatSidecar(t)
              \/ ReadSidecar(t) \/ ReadFails(t) \/ Restart(t)
        PROVE  AllSynced'
    BY <1>2 DEF TypeOK, AllSynced, Return, StartStore, Lock, LockFails,
       CreateTemp, TempName, DirectoryAtCreate, WriteTemp, TempName,
       Written, WriteFails, AfterFailure, Unlock, TempName, TempAfterwards,
       StartLoad, ReadPointer, StatSidecar, ReadSidecar, Found, Verdict,
       ReadFails, Restart
  <1>3. ASSUME NEW t \in Thread, ReplaceFile(t) PROVE AllSynced'
    <2>1. temp[t].synced
      BY <1>3, FilesHaveContent DEF ReplaceFile, TempsWhole
    <2>2. live' = [live EXCEPT ![path[t]] = temp[t]] /\ UNCHANGED disk
      BY <1>3 DEF ReplaceFile, TempName
    <2> QED
      BY <2>1, <2>2 DEF TypeOK, AllSynced
  <1>4. ASSUME NEW p \in Process, Crash(p) PROVE AllSynced'
    BY <1>4 DEF TypeOK, AllSynced, Crash, Kill
  <1>5. ASSUME NEW p \in Path, WriteBack(p) PROVE AllSynced'
    BY <1>5 DEF TypeOK, AllSynced, WriteBack
  <1>6. CASE PowerLoss
    BY <1>6, FilesHaveContent DEF TypeOK, AllSynced, PowerLoss, Kill
  <1>7. ASSUME NEW p \in Path, NEW f \in Files \cup {Absent},
               f # Absent => f.synced, Tamper(p, f)
        PROVE  AllSynced'
    BY <1>7 DEF TypeOK, AllSynced, Tamper
  <1>8. CASE UNCHANGED vars
    BY <1>8 DEF TypeOK, AllSynced, vars
  <1> QED
    BY <1>1, <1>2, <1>3, <1>4, <1>5, <1>6, <1>7, <1>8, FilesHaveContent DEF
       Next, Step, Store, Load, Environment

\* No thread outside a write has a temporary file.
LEMMA NextStray ==
  ASSUME TypeOK, NoStrayTemps, [Next]_vars
  PROVE  NoStrayTemps'
  <1>1. ASSUME NEW t \in Thread, NEW c \in Promise!Calls, Submit(t, c)
        PROVE  NoStrayTemps'
    BY <1>1 DEF TypeOK, NoStrayTemps, Submit
  <1>2. ASSUME NEW t \in Thread,
              \/ Return(t) \/ StartStore(t) \/ Lock(t) \/ LockFails(t)
              \/ CreateTemp(t) \/ WriteTemp(t) \/ WriteFails(t)
              \/ ReplaceFile(t) \/ Unlock(t) \/ StartLoad(t)
              \/ ReadPointer(t) \/ StatSidecar(t) \/ ReadSidecar(t)
              \/ ReadFails(t) \/ Restart(t)
        PROVE  NoStrayTemps'
    BY <1>2 DEF TypeOK, NoStrayTemps, Return, StartStore, Lock, LockFails,
       CreateTemp, TempName, DirectoryAtCreate, WriteTemp, TempName,
       Written, WriteFails, AfterFailure, ReplaceFile, TempName, Unlock,
       TempName, TempAfterwards, StartLoad, ReadPointer, StatSidecar,
       ReadSidecar, Found, Verdict, ReadFails, Restart
  <1>3. ASSUME NEW p \in Process, Crash(p) PROVE NoStrayTemps'
    BY <1>3 DEF TypeOK, NoStrayTemps, Crash, Kill
  <1>4. ASSUME NEW p \in Path, WriteBack(p) PROVE NoStrayTemps'
    BY <1>4 DEF TypeOK, NoStrayTemps, WriteBack
  <1>5. CASE PowerLoss
    BY <1>5 DEF TypeOK, NoStrayTemps, PowerLoss, Kill
  <1>6. ASSUME NEW p \in Path, NEW f \in Files \cup {Absent},
               f # Absent => f.synced, Tamper(p, f)
        PROVE  NoStrayTemps'
    BY <1>6 DEF TypeOK, NoStrayTemps, Tamper
  <1>7. CASE UNCHANGED vars
    BY <1>7 DEF TypeOK, NoStrayTemps, vars
  <1> QED
    BY <1>1, <1>2, <1>3, <1>4, <1>5, <1>6, <1>7, FilesHaveContent DEF Next,
       Step, Store, Load, Environment

\* No file is torn.
LEMMA NextTorn ==
  ASSUME TypeOK, CallsWellMade, StoresOnTheirWay, TempsWhole, AllSynced, NoTornFiles, [Next]_vars
  PROVE  NoTornFiles'
  <1>1. ASSUME NEW t \in Thread, NEW c \in Promise!Calls, Submit(t, c)
        PROVE  NoTornFiles'
    BY <1>1 DEF TypeOK, NoTornFiles, WellFormed, Submit
  <1>2. ASSUME NEW t \in Thread,
              \/ Return(t) \/ StartStore(t) \/ Lock(t) \/ LockFails(t)
              \/ CreateTemp(t) \/ WriteTemp(t) \/ WriteFails(t) \/ Unlock(t)
              \/ StartLoad(t) \/ ReadPointer(t) \/ StatSidecar(t)
              \/ ReadSidecar(t) \/ ReadFails(t) \/ Restart(t)
        PROVE  NoTornFiles'
    BY <1>2 DEF TypeOK, NoTornFiles, WellFormed, Return, StartStore, Lock,
       LockFails, CreateTemp, TempName, DirectoryAtCreate, WriteTemp,
       TempName, Written, WriteFails, AfterFailure, Unlock, TempName,
       TempAfterwards, StartLoad, ReadPointer, StatSidecar, ReadSidecar,
       Found, Verdict, ReadFails, Restart
  <1>3. ASSUME NEW t \in Thread, ReplaceFile(t) PROVE NoTornFiles'
    <2>1. temp[t].content = Data(t) /\ Storing(t)
      BY <1>3, FilesHaveContent DEF ReplaceFile, TempsWhole, StoresOnTheirWay
    <2>2. IF path[t] \in Key THEN temp[t].content \in Digest
                             ELSE Sha256[temp[t].content] = path[t]
      BY <2>1, DataFitsPath
    <2>3. /\ live' = [live EXCEPT ![path[t]] = temp[t]]
          /\ UNCHANGED <<disk, tampering>>
      BY <1>3 DEF ReplaceFile, TempName
    <2> QED
      BY <2>2, <2>3 DEF TypeOK, NoTornFiles, WellFormed
  <1>4. ASSUME NEW p \in Process, Crash(p) PROVE NoTornFiles'
    BY <1>4 DEF TypeOK, NoTornFiles, WellFormed, Crash, Kill
  <1>5. ASSUME NEW p \in Path, WriteBack(p) PROVE NoTornFiles'
    BY <1>5 DEF TypeOK, NoTornFiles, WellFormed, WriteBack
  <1>6. CASE PowerLoss
    BY <1>6 DEF TypeOK, NoTornFiles, WellFormed, PowerLoss, Kill, AllSynced
  <1>7. ASSUME NEW p \in Path, NEW f \in Files \cup {Absent},
               f # Absent => f.synced, Tamper(p, f)
        PROVE  NoTornFiles'
    BY <1>7 DEF TypeOK, NoTornFiles, WellFormed, Tamper
  <1>8. CASE UNCHANGED vars
    BY <1>8 DEF TypeOK, NoTornFiles, WellFormed, vars
  <1> QED
    BY <1>1, <1>2, <1>3, <1>4, <1>5, <1>6, <1>7, <1>8, FilesHaveContent DEF
       Next, Step, Store, Load, Environment

\* What a load returns has been checked.
LEMMA NextRecheck ==
  ASSUME TypeOK, CallsWellMade, LoadsOnTheirWay, LoadsRecheck, AnswersAtEnd, [Next]_vars
  PROVE  LoadsRecheck'
  <1>1. ASSUME NEW t \in Thread, NEW c \in Promise!Calls, Submit(t, c)
        PROVE  LoadsRecheck'
    BY <1>1 DEF TypeOK, LoadsRecheck, Submit, AnswersAtEnd
  <1>2. ASSUME NEW t \in Thread, Return(t) PROVE LoadsRecheck'
    BY <1>2 DEF TypeOK, LoadsRecheck, Return
  <1>3. ASSUME NEW t \in Thread, StartStore(t) PROVE LoadsRecheck'
    BY <1>3 DEF TypeOK, LoadsRecheck, StartStore, AnswersAtEnd
  <1>4. ASSUME NEW t \in Thread, Lock(t) PROVE LoadsRecheck'
    BY <1>4 DEF TypeOK, LoadsRecheck, Lock
  <1>5. ASSUME NEW t \in Thread, LockFails(t) PROVE LoadsRecheck'
    BY <1>5 DEF TypeOK, LoadsRecheck, LockFails
  <1>6. ASSUME NEW t \in Thread, CreateTemp(t) PROVE LoadsRecheck'
    BY <1>6 DEF TypeOK, LoadsRecheck, CreateTemp, TempName,
       DirectoryAtCreate
  <1>7. ASSUME NEW t \in Thread, WriteTemp(t) PROVE LoadsRecheck'
    BY <1>7 DEF TypeOK, LoadsRecheck, WriteTemp, TempName, Written
  <1>8. ASSUME NEW t \in Thread, WriteFails(t) PROVE LoadsRecheck'
    BY <1>8 DEF TypeOK, LoadsRecheck, WriteFails, AfterFailure
  <1>9. ASSUME NEW t \in Thread, ReplaceFile(t) PROVE LoadsRecheck'
    BY <1>9 DEF TypeOK, LoadsRecheck, ReplaceFile, TempName
  <1>10. ASSUME NEW t \in Thread, Unlock(t) PROVE LoadsRecheck'
    BY <1>10 DEF TypeOK, LoadsRecheck, Unlock, TempName, TempAfterwards,
       GoesOn
  <1>11. ASSUME NEW t \in Thread, StartLoad(t) PROVE LoadsRecheck'
    BY <1>11 DEF TypeOK, LoadsRecheck, StartLoad, AnswersAtEnd
  <1>12. ASSUME NEW t \in Thread, ReadPointer(t) PROVE LoadsRecheck'
    BY <1>12 DEF TypeOK, LoadsRecheck, ReadPointer, AnswersAtEnd
  <1>13. ASSUME NEW t \in Thread, StatSidecar(t) PROVE LoadsRecheck'
    BY <1>13 DEF TypeOK, LoadsRecheck, StatSidecar
  <1>14. ASSUME NEW t \in Thread, ReadSidecar(t) PROVE LoadsRecheck'
    BY <1>14, CacheAssumption, FilesHaveContent DEF TypeOK, LoadsRecheck,
       ReadSidecar, Found, Verdict, LoadsOnTheirWay, CallsWellMade, WellMade
  <1>15. ASSUME NEW t \in Thread, ReadFails(t) PROVE LoadsRecheck'
    BY <1>15 DEF TypeOK, LoadsRecheck, ReadFails
  <1>16. ASSUME NEW t \in Thread, Restart(t) PROVE LoadsRecheck'
    BY <1>16 DEF TypeOK, LoadsRecheck, Restart
  <1>17. ASSUME NEW p \in Process, Crash(p) PROVE LoadsRecheck'
    BY <1>17 DEF TypeOK, LoadsRecheck, Crash, Kill
  <1>18. ASSUME NEW p \in Path, WriteBack(p) PROVE LoadsRecheck'
    BY <1>18 DEF TypeOK, LoadsRecheck, WriteBack
  <1>19. CASE PowerLoss
    BY <1>19 DEF TypeOK, LoadsRecheck, PowerLoss, Kill
  <1>20. ASSUME NEW p \in Path, NEW f \in Files \cup {Absent},
               f # Absent => f.synced, Tamper(p, f)
        PROVE  LoadsRecheck'
    BY <1>20 DEF TypeOK, LoadsRecheck, Tamper
  <1>21. CASE UNCHANGED vars
    BY <1>21 DEF TypeOK, LoadsRecheck, vars
  <1> QED
    BY <1>1, <1>2, <1>3, <1>4, <1>5, <1>6, <1>7, <1>8, <1>9, <1>10, <1>11,
       <1>12, <1>13, <1>14, <1>15, <1>16, <1>17, <1>18, <1>19, <1>20, <1>21,
       FilesHaveContent DEF Next, Step, Store, Load, Environment

\* A thread comes to the pointer only with its sidecar in place.
LEMMA NextSidecar ==
  ASSUME TypeOK, CallsWellMade, StoresOnTheirWay, TempsWhole, AnswersAtEnd, SidecarFirst, [Next]_vars
  PROVE  SidecarFirst'
  <1>1. ASSUME NEW t \in Thread, NEW c \in Promise!Calls, Submit(t, c)
        PROVE  SidecarFirst'
    BY <1>1 DEF TypeOK, SidecarFirst, Submit
  <1>2. ASSUME NEW t \in Thread, Return(t) PROVE SidecarFirst'
    BY <1>2 DEF TypeOK, SidecarFirst, Return
  <1>3. ASSUME NEW t \in Thread, StartStore(t) PROVE SidecarFirst'
    BY <1>3, CacheAssumption DEF TypeOK, SidecarFirst, StartStore,
       CallsWellMade, WellMade, Content
  <1>4. ASSUME NEW t \in Thread, Lock(t) PROVE SidecarFirst'
    BY <1>4 DEF TypeOK, SidecarFirst, Lock
  <1>5. ASSUME NEW t \in Thread, LockFails(t) PROVE SidecarFirst'
    BY <1>5 DEF TypeOK, SidecarFirst, LockFails
  <1>6. ASSUME NEW t \in Thread, CreateTemp(t) PROVE SidecarFirst'
    BY <1>6 DEF TypeOK, SidecarFirst, CreateTemp, TempName,
       DirectoryAtCreate
  <1>7. ASSUME NEW t \in Thread, WriteTemp(t) PROVE SidecarFirst'
    BY <1>7 DEF TypeOK, SidecarFirst, WriteTemp, TempName, Written
  <1>8. ASSUME NEW t \in Thread, WriteFails(t) PROVE SidecarFirst'
    BY <1>8 DEF TypeOK, SidecarFirst, WriteFails, AfterFailure
  <1>9. ASSUME NEW t \in Thread, ReplaceFile(t) PROVE SidecarFirst'
    <2>1. temp[t] # Absent /\ Storing(t)
      BY <1>9, DataFitsPath, FilesHaveContent
         DEF ReplaceFile, TempsWhole, StoresOnTheirWay
    <2>2. /\ live' = [live EXCEPT ![path[t]] = temp[t]]
          /\ UNCHANGED <<call, path, tampering, outages>>
      BY <1>9 DEF ReplaceFile, TempName
    <2>3. \A p : live[p] # Absent /\ p \in Path => live'[p] # Absent
      BY <2>1, <2>2 DEF TypeOK
    <2>4. \A s \in Thread : Storing(s) => Sha256[call[s].body] \in Path
      BY DataFitsPath DEF Path
    <2>5. SUFFICES ASSUME tampering = 0, outages = 0, NEW s \in Thread,
                          \/ pc'[s] \in Writing \cup {"lock"} /\ path[s] \in Key
                          \/ pc'[s] = "unlink" /\ answer'[s] = NoAnswer
                   PROVE  live'[Sha256[call[s].body]] # Absent
      BY <2>2 DEF SidecarFirst
    <2>6. CASE s # t
      <3>1. pc'[s] = pc[s] /\ answer'[s] = answer[s]
        BY <1>9, <2>6 DEF ReplaceFile, TypeOK
      <3>2. live[Sha256[call[s].body]] # Absent /\ Storing(s)
        BY <2>5, <3>1 DEF SidecarFirst, StoresOnTheirWay
      <3> QED
        BY <2>3, <2>4, <3>2
    <2>7. CASE s = t /\ path[t] \in Key
      <3>1. live[Sha256[call[t].body]] # Absent
        BY <1>9, <2>5, <2>7 DEF SidecarFirst, ReplaceFile
      <3> QED
        BY <2>1, <2>3, <2>4, <2>7, <3>1
    <2>8. CASE s = t /\ path[t] \notin Key
      BY <2>1, <2>2, <2>8, DataFitsPath DEF TypeOK
    <2> QED
      BY <2>6, <2>7, <2>8
  <1>10. ASSUME NEW t \in Thread, Unlock(t) PROVE SidecarFirst'
    BY <1>10 DEF TypeOK, SidecarFirst, Unlock, TempName, TempAfterwards,
       GoesOn
  <1>11. ASSUME NEW t \in Thread, StartLoad(t) PROVE SidecarFirst'
    BY <1>11 DEF TypeOK, SidecarFirst, StartLoad
  <1>12. ASSUME NEW t \in Thread, ReadPointer(t) PROVE SidecarFirst'
    BY <1>12 DEF TypeOK, SidecarFirst, ReadPointer
  <1>13. ASSUME NEW t \in Thread, StatSidecar(t) PROVE SidecarFirst'
    BY <1>13 DEF TypeOK, SidecarFirst, StatSidecar
  <1>14. ASSUME NEW t \in Thread, ReadSidecar(t) PROVE SidecarFirst'
    BY <1>14 DEF TypeOK, SidecarFirst, ReadSidecar, Found, Verdict
  <1>15. ASSUME NEW t \in Thread, ReadFails(t) PROVE SidecarFirst'
    BY <1>15 DEF TypeOK, SidecarFirst, ReadFails
  <1>16. ASSUME NEW t \in Thread, Restart(t) PROVE SidecarFirst'
    BY <1>16 DEF TypeOK, SidecarFirst, Restart
  <1>17. ASSUME NEW p \in Process, Crash(p) PROVE SidecarFirst'
    BY <1>17 DEF TypeOK, SidecarFirst, Crash, Kill
  <1>18. ASSUME NEW p \in Path, WriteBack(p) PROVE SidecarFirst'
    BY <1>18 DEF TypeOK, SidecarFirst, WriteBack
  <1>19. CASE PowerLoss
    BY <1>19 DEF TypeOK, SidecarFirst, PowerLoss, Kill
  <1>20. ASSUME NEW p \in Path, NEW f \in Files \cup {Absent},
               f # Absent => f.synced, Tamper(p, f)
        PROVE  SidecarFirst'
    BY <1>20 DEF TypeOK, SidecarFirst, Tamper
  <1>21. CASE UNCHANGED vars
    BY <1>21 DEF TypeOK, SidecarFirst, vars
  <1> QED
    BY <1>1, <1>2, <1>3, <1>4, <1>5, <1>6, <1>7, <1>8, <1>9, <1>10, <1>11,
       <1>12, <1>13, <1>14, <1>15, <1>16, <1>17, <1>18, <1>19, <1>20, <1>21,
       FilesHaveContent DEF Next, Step, Store, Load, Environment

\* A pointer leads to a sidecar.
LEMMA NextPointers ==
  ASSUME TypeOK, CallsWellMade, StoresOnTheirWay, TempsWhole, NoTornFiles, SidecarFirst, PointersLead, [Next]_vars
  PROVE  PointersLead'
  <1>1. ASSUME NEW t \in Thread, NEW c \in Promise!Calls, Submit(t, c)
        PROVE  PointersLead'
    BY <1>1 DEF TypeOK, PointersLead, Submit
  <1>2. ASSUME NEW t \in Thread,
              \/ Return(t) \/ StartStore(t) \/ Lock(t) \/ LockFails(t)
              \/ CreateTemp(t) \/ WriteTemp(t) \/ WriteFails(t) \/ Unlock(t)
              \/ StartLoad(t) \/ ReadPointer(t) \/ StatSidecar(t)
              \/ ReadSidecar(t) \/ ReadFails(t) \/ Restart(t)
        PROVE  PointersLead'
    BY <1>2 DEF TypeOK, PointersLead, Return, StartStore, Lock, LockFails,
       CreateTemp, TempName, DirectoryAtCreate, WriteTemp, TempName,
       Written, WriteFails, AfterFailure, Unlock, TempName, TempAfterwards,
       StartLoad, ReadPointer, StatSidecar, ReadSidecar, Found, Verdict,
       ReadFails, Restart
  <1>3. ASSUME NEW t \in Thread, ReplaceFile(t) PROVE PointersLead'
    <2>1. temp[t] = File(Data(t), TRUE) /\ Storing(t)
      BY <1>3 DEF ReplaceFile, TempsWhole, StoresOnTheirWay
    <2>2. /\ live' = [live EXCEPT ![path[t]] = temp[t]]
          /\ UNCHANGED <<tampering, outages>>
      BY <1>3 DEF ReplaceFile, TempName
    <2>3. path[t] \in Path /\ temp[t] # Absent
      BY <2>1, DataFitsPath, FilesHaveContent
    <2>4. SUFFICES ASSUME tampering = 0, outages = 0, NEW k \in Key,
                          live'[k] # Absent
                   PROVE  live'[live'[k].content] # Absent
      BY <2>2 DEF PointersLead
    <2>5. CASE k = path[t]
      <3>1. live'[k].content = Sha256[call[t].body]
        <4>1. live'[k] = File(Data(t), TRUE)
          BY <2>1, <2>2, <2>3, <2>5 DEF TypeOK
        <4>2. Data(t) = Sha256[call[t].body]
          BY <2>5 DEF Data
        <4> QED
          BY <4>1, <4>2, FilesHaveContent
      <3>2. live[Sha256[call[t].body]] # Absent
        BY <1>3, <2>4, <2>5 DEF SidecarFirst, ReplaceFile
      <3>3. Sha256[call[t].body] \in Path
        BY <2>1, DataFitsPath DEF Path
      <3> QED
        BY <2>2, <2>3, <3>1, <3>2, <3>3 DEF TypeOK
    <2>6. CASE k # path[t]
      <3>1. live'[k] = live[k] /\ k \in Path
        BY <2>2, <2>6 DEF TypeOK, Path
      <3>2. live[k].content \in Path
        BY <2>4, <3>1 DEF NoTornFiles, WellFormed, Path
      <3>3. live[live[k].content] # Absent
        BY <2>4, <3>1 DEF PointersLead
      <3> QED
        BY <2>2, <2>3, <3>1, <3>2, <3>3 DEF TypeOK
    <2> QED
      BY <2>5, <2>6
  <1>4. ASSUME NEW p \in Process, Crash(p) PROVE PointersLead'
    BY <1>4 DEF TypeOK, PointersLead, Crash, Kill
  <1>5. ASSUME NEW p \in Path, WriteBack(p) PROVE PointersLead'
    BY <1>5 DEF TypeOK, PointersLead, WriteBack
  <1>6. CASE PowerLoss
    BY <1>6 DEF TypeOK, PointersLead, PowerLoss, Kill
  <1>7. ASSUME NEW p \in Path, NEW f \in Files \cup {Absent},
               f # Absent => f.synced, Tamper(p, f)
        PROVE  PointersLead'
    BY <1>7 DEF TypeOK, PointersLead, Tamper
  <1>8. CASE UNCHANGED vars
    BY <1>8 DEF TypeOK, PointersLead, vars
  <1> QED
    BY <1>1, <1>2, <1>3, <1>4, <1>5, <1>6, <1>7, <1>8, FilesHaveContent DEF
       Next, Step, Store, Load, Environment

\* The lock keeps single-threaded processes apart.
LEMMA NextHolder ==
  ASSUME TypeOK, HolderInside, [Next]_vars
  PROVE  HolderInside'
  <1>1. ASSUME NEW t \in Thread, NEW c \in Promise!Calls, Submit(t, c)
        PROVE  HolderInside'
    BY <1>1 DEF TypeOK, HolderInside, OneThreadEach, Submit
  <1>2. ASSUME NEW t \in Thread, Return(t) PROVE HolderInside'
    BY <1>2 DEF TypeOK, HolderInside, OneThreadEach, Return
  <1>3. ASSUME NEW t \in Thread, StartStore(t) PROVE HolderInside'
    BY <1>3 DEF TypeOK, HolderInside, OneThreadEach, StartStore
  <1>4. ASSUME NEW t \in Thread, Lock(t) PROVE HolderInside'
    <2>1. \A s \in Thread : OneThreadEach /\ s # t => pc[s] \notin Writing
      BY <1>4, CacheAssumption DEF Lock, MayLock, HolderInside, OneThreadEach
    <2>2. \A s \in Thread : s # t => pc'[s] = pc[s]
      BY <1>4 DEF TypeOK, Lock
    <2> QED
      BY <1>4, <2>1, <2>2 DEF Lock, HolderInside, OneThreadEach
  <1>5. ASSUME NEW t \in Thread, LockFails(t) PROVE HolderInside'
    BY <1>5 DEF TypeOK, HolderInside, OneThreadEach, LockFails, LockAfterwards
  <1>6. ASSUME NEW t \in Thread, CreateTemp(t) PROVE HolderInside'
    BY <1>6 DEF TypeOK, HolderInside, OneThreadEach, CreateTemp, TempName,
       DirectoryAtCreate
  <1>7. ASSUME NEW t \in Thread, WriteTemp(t) PROVE HolderInside'
    BY <1>7 DEF TypeOK, HolderInside, OneThreadEach, WriteTemp, TempName,
       Written
  <1>8. ASSUME NEW t \in Thread, WriteFails(t) PROVE HolderInside'
    BY <1>8 DEF TypeOK, HolderInside, OneThreadEach, WriteFails,
       AfterFailure
  <1>9. ASSUME NEW t \in Thread, ReplaceFile(t) PROVE HolderInside'
    BY <1>9 DEF TypeOK, HolderInside, OneThreadEach, ReplaceFile, TempName
  <1>10. ASSUME NEW t \in Thread, Unlock(t) PROVE HolderInside'
    BY <1>10 DEF TypeOK, HolderInside, OneThreadEach, Unlock, TempName,
       TempAfterwards, LockAfterwards
  <1>11. ASSUME NEW t \in Thread, StartLoad(t) PROVE HolderInside'
    BY <1>11 DEF TypeOK, HolderInside, OneThreadEach, StartLoad
  <1>12. ASSUME NEW t \in Thread, ReadPointer(t) PROVE HolderInside'
    BY <1>12 DEF TypeOK, HolderInside, OneThreadEach, ReadPointer
  <1>13. ASSUME NEW t \in Thread, StatSidecar(t) PROVE HolderInside'
    BY <1>13 DEF TypeOK, HolderInside, OneThreadEach, StatSidecar
  <1>14. ASSUME NEW t \in Thread, ReadSidecar(t) PROVE HolderInside'
    BY <1>14 DEF TypeOK, HolderInside, OneThreadEach, ReadSidecar, Found,
       Verdict
  <1>15. ASSUME NEW t \in Thread, ReadFails(t) PROVE HolderInside'
    BY <1>15 DEF TypeOK, HolderInside, OneThreadEach, ReadFails
  <1>16. ASSUME NEW t \in Thread, Restart(t) PROVE HolderInside'
    BY <1>16 DEF TypeOK, HolderInside, OneThreadEach, Restart
  <1>17. ASSUME NEW p \in Process, Crash(p) PROVE HolderInside'
    BY <1>17, CacheAssumption DEF TypeOK, HolderInside, OneThreadEach,
       Crash, Kill
  <1>18. ASSUME NEW p \in Path, WriteBack(p) PROVE HolderInside'
    BY <1>18 DEF TypeOK, HolderInside, OneThreadEach, WriteBack
  <1>19. CASE PowerLoss
    BY <1>19 DEF TypeOK, HolderInside, OneThreadEach, PowerLoss, Kill
  <1>20. ASSUME NEW p \in Path, NEW f \in Files \cup {Absent},
               f # Absent => f.synced, Tamper(p, f)
        PROVE  HolderInside'
    BY <1>20 DEF TypeOK, HolderInside, OneThreadEach, Tamper
  <1>21. CASE UNCHANGED vars
    BY <1>21 DEF TypeOK, HolderInside, OneThreadEach, vars
  <1> QED
    BY <1>1, <1>2, <1>3, <1>4, <1>5, <1>6, <1>7, <1>8, <1>9, <1>10, <1>11,
       <1>12, <1>13, <1>14, <1>15, <1>16, <1>17, <1>18, <1>19, <1>20, <1>21,
       FilesHaveContent DEF Next, Step, Store, Load, Environment

\* The lock is held for a thread that is writing.
LEMMA NextHeld ==
  ASSUME TypeOK, LockHeldByWriter, [Next]_vars
  PROVE  LockHeldByWriter'
  <1>1. ASSUME NEW t \in Thread, NEW c \in Promise!Calls, Submit(t, c)
        PROVE  LockHeldByWriter'
    BY <1>1 DEF TypeOK, LockHeldByWriter, Submit
  <1>2. ASSUME NEW t \in Thread, Return(t) PROVE LockHeldByWriter'
    BY <1>2 DEF TypeOK, LockHeldByWriter, Return
  <1>3. ASSUME NEW t \in Thread, StartStore(t) PROVE LockHeldByWriter'
    BY <1>3 DEF TypeOK, LockHeldByWriter, StartStore
  <1>4. ASSUME NEW t \in Thread, Lock(t) PROVE LockHeldByWriter'
    BY <1>4 DEF TypeOK, LockHeldByWriter, Lock
  <1>5. ASSUME NEW t \in Thread, LockFails(t) PROVE LockHeldByWriter'
    BY <1>5 DEF TypeOK, LockHeldByWriter, LockFails, LockAfterwards
  <1>6. ASSUME NEW t \in Thread, CreateTemp(t) PROVE LockHeldByWriter'
    BY <1>6 DEF TypeOK, LockHeldByWriter, CreateTemp, TempName,
       DirectoryAtCreate
  <1>7. ASSUME NEW t \in Thread, WriteTemp(t) PROVE LockHeldByWriter'
    BY <1>7 DEF TypeOK, LockHeldByWriter, WriteTemp, TempName, Written
  <1>8. ASSUME NEW t \in Thread, WriteFails(t) PROVE LockHeldByWriter'
    BY <1>8 DEF TypeOK, LockHeldByWriter, WriteFails, AfterFailure
  <1>9. ASSUME NEW t \in Thread, ReplaceFile(t) PROVE LockHeldByWriter'
    BY <1>9 DEF TypeOK, LockHeldByWriter, ReplaceFile, TempName
  <1>10. ASSUME NEW t \in Thread, Unlock(t) PROVE LockHeldByWriter'
    BY <1>10 DEF TypeOK, LockHeldByWriter, Unlock, TempName, TempAfterwards,
       LockAfterwards
  <1>11. ASSUME NEW t \in Thread, StartLoad(t) PROVE LockHeldByWriter'
    BY <1>11 DEF TypeOK, LockHeldByWriter, StartLoad
  <1>12. ASSUME NEW t \in Thread, ReadPointer(t) PROVE LockHeldByWriter'
    BY <1>12 DEF TypeOK, LockHeldByWriter, ReadPointer
  <1>13. ASSUME NEW t \in Thread, StatSidecar(t) PROVE LockHeldByWriter'
    BY <1>13 DEF TypeOK, LockHeldByWriter, StatSidecar
  <1>14. ASSUME NEW t \in Thread, ReadSidecar(t) PROVE LockHeldByWriter'
    BY <1>14 DEF TypeOK, LockHeldByWriter, ReadSidecar, Found, Verdict
  <1>15. ASSUME NEW t \in Thread, ReadFails(t) PROVE LockHeldByWriter'
    BY <1>15 DEF TypeOK, LockHeldByWriter, ReadFails
  <1>16. ASSUME NEW t \in Thread, Restart(t) PROVE LockHeldByWriter'
    BY <1>16 DEF TypeOK, LockHeldByWriter, Restart
  <1>17. ASSUME NEW p \in Process, Crash(p) PROVE LockHeldByWriter'
    BY <1>17 DEF TypeOK, LockHeldByWriter, Crash, Kill
  <1>18. ASSUME NEW p \in Path, WriteBack(p) PROVE LockHeldByWriter'
    BY <1>18 DEF TypeOK, LockHeldByWriter, WriteBack
  <1>19. CASE PowerLoss
    BY <1>19 DEF TypeOK, LockHeldByWriter, PowerLoss, Kill
  <1>20. ASSUME NEW p \in Path, NEW f \in Files \cup {Absent},
               f # Absent => f.synced, Tamper(p, f)
        PROVE  LockHeldByWriter'
    BY <1>20 DEF TypeOK, LockHeldByWriter, Tamper
  <1>21. CASE UNCHANGED vars
    BY <1>21 DEF TypeOK, LockHeldByWriter, vars
  <1> QED
    BY <1>1, <1>2, <1>3, <1>4, <1>5, <1>6, <1>7, <1>8, <1>9, <1>10, <1>11,
       <1>12, <1>13, <1>14, <1>15, <1>16, <1>17, <1>18, <1>19, <1>20, <1>21,
       FilesHaveContent DEF Next, Step, Store, Load, Environment

-----------------------------------------------------------------------------
(* The theorems *)

\* The invariant holds in the empty directory.
LEMMA InitIInv == Init => IInv
  BY CacheAssumption, CallsAreWellMade
     DEF Init, IInv, TypeOK, CallsWellMade, StoresOnTheirWay, LoadsOnTheirWay,
         AnswersAtEnd, TempsWhole, AllSynced, NoStrayTemps, NoTornFiles,
         WellFormed, LoadsRecheck, SidecarFirst, PointersLead,
         HolderInside, LockHeldByWriter, Path

\* Every step preserves it.
LEMMA NextIInv == IInv /\ [Next]_vars => IInv'
  BY NextTypeOK, NextCalls, NextStores, NextLoads, NextAnswers, NextTemps,
     NextSynced, NextStray, NextTorn, NextRecheck, NextSidecar, NextPointers,
     NextHolder, NextHeld
     DEF IInv

\* It holds at all times.
LEMMA AlwaysIInv == Spec => []IInv
  BY InitIInv, NextIInv, PTL DEF Spec

\* Every state has the form TypeOK says: among other things, a pointer file or
\* a sidecar is only ever a file with a content, and answers are answers.
THEOREM TypesAreRight == Spec => []TypeOK
  <1>1. IInv => TypeOK
    BY DEF IInv
  <1> QED
    BY <1>1, AlwaysIInv, PTL

\* No file under a sidecar's name has another digest, and no pointer file
\* anything but a digest, after any crash or power loss (_atomic_write).
THEOREM FilesAreWhole == Spec => []NoTornFiles
  <1>1. IInv => NoTornFiles
    BY DEF IInv
  <1> QED
    BY <1>1, AlwaysIInv, PTL

\* Whatever writers do, and wherever processes die, a pointer file leads to a
\* sidecar (store_artifact_sidecar), for every interleaving of any number of
\* them.
THEOREM PointersNeverDangle == Spec => []PointersLead
  <1>1. IInv => PointersLead
    BY DEF IInv
  <1> QED
    BY <1>1, AlwaysIInv, PTL

\* No path through _atomic_write leaves a temporary file, but the death of
\* its process.
THEOREM TempsAreRemoved == Spec => []NoStrayTemps
  <1>1. IInv => NoStrayTemps
    BY DEF IInv
  <1> QED
    BY <1>1, AlwaysIInv, PTL

\* What load_sidecar and load_artifact_sidecar return has the digest asked for
\* or named by the pointer, and the length allowed, whatever is done to the
\* directory meanwhile.
THEOREM LoadsAreChecked == Spec => []LoadsRecheck
  <1>1. IInv => LoadsRecheck
    BY DEF IInv
  <1> QED
    BY <1>1, AlwaysIInv, PTL

\* A process holds .write-lock only while one of its threads is writing: no
\* path out of _atomic_write keeps it.
THEOREM LockIsReleased == Spec => []LockHeldByWriter
  <1>1. IInv => LockHeldByWriter
    BY DEF IInv
  <1> QED
    BY <1>1, AlwaysIInv, PTL

\* Writers of processes of one thread each are never inside together.
THEOREM WritersAreApart == Spec => []WritersExclude
  <1>1. IInv => WritersExclude
    BY DEF IInv, HolderInside, WritersExclude, OneThreadEach
  <1> QED
    BY <1>1, AlwaysIInv, PTL

\* A step keeps the files there are, but for power losses and others.
LEMMA StepKeepsFiles == IInv /\ [Next]_vars => [FilesStay]_vars
  <1> SUFFICES ASSUME IInv, [Next]_vars,
                      NEW p \in Path, live[p] # Absent, live'[p] = Absent
               PROVE  tampering' # tampering \/ outages' # outages
    BY DEF FilesStay
  <1> USE DEF IInv, TypeOK
  <1>1. ASSUME NEW t \in Thread, ReplaceFile(t) PROVE FALSE
    <2>1. temp[t] # Absent
      <3>1. temp[t] = File(Data(t), TRUE) /\ Storing(t)
        BY <1>1 DEF ReplaceFile, TempsWhole, StoresOnTheirWay
      <3>2. Data(t) \in Content
        BY <3>1, DataFitsPath
      <3> QED
        BY <3>1, <3>2, FilesHaveContent
    <2> QED
      BY <1>1, <2>1 DEF ReplaceFile, TempName
  <1>2. ASSUME NEW t \in Thread, Step(t) PROVE FALSE
    BY <1>1, <1>2
       DEF Step, Store, Load, Return, StartStore, Lock, LockFails, CreateTemp,
           DirectoryAtCreate, WriteTemp, WriteFails, Unlock, StartLoad,
           ReadPointer, StatSidecar, ReadSidecar, ReadFails
  <1>3. ASSUME NEW t \in Thread, NEW c \in Promise!Calls, Submit(t, c)
        PROVE  FALSE
    BY <1>3 DEF Submit
  <1>4. ASSUME Environment PROVE tampering' # tampering \/ outages' # outages
    <2>1. CASE UNCHANGED live
      BY <2>1
    <2>2. CASE PowerLoss
      BY <2>2, CacheAssumption DEF PowerLoss
    <2>3. ASSUME NEW q \in Path, NEW f, Tamper(q, f)
          PROVE  tampering' # tampering
      BY <2>3, CacheAssumption DEF Tamper
    <2> QED
      BY <1>4, <2>1, <2>2, <2>3
         DEF Environment, Crash, Restart, WriteBack
  <1>5. CASE UNCHANGED vars
    BY <1>5 DEF vars
  <1> QED
    BY <1>2, <1>3, <1>4, <1>5 DEF Next

\* No call and no crash takes a file away, however stores race.
THEOREM FilesNeverVanish == Spec => FilesAreNeverLost
  BY StepKeepsFiles, AlwaysIInv, PTL DEF Spec, FilesAreNeverLost
=============================================================================
