------------------------- MODULE DigestCacheRefinement -------------------------
(***************************************************************************)
(* DigestCache implements EvidenceCache: proof of ImplementsPromise, for    *)
(* any number of threads, processes and keys, and wherever processes die,   *)
(* as long as nobody else changes the directory, the power does not fail,   *)
(* and no two bodies have the same SHA-256.                                 *)
(*                                                                         *)
(* Renaming a sidecar into place is what keeps a body, renaming a pointer   *)
(* file is what binds a key, and a load by key is decided when it reads the *)
(* pointer.  That the two files of a bound body, and the readers that take  *)
(* no lock, look like one atomic cache rests on two facts: a pointer always *)
(* leads to a sidecar, and a sidecar that is there never changes.           *)
(***************************************************************************)
EXTENDS DigestCacheProofs

Undisturbed  == MaxTampering = 0 /\ MaxOutages = 0
NoCollisions == \A a, b \in Body : Sha256[a] = Sha256[b] => a = b

\* What stands under a digest is a body.
SidecarsAreBodies ==
    \A d \in Digest : live[d] # Absent => live[d].content \in Body

\* A call is of the kind its thread is carrying out, and a store that is
\* carried out has the digest the caller expects.
CallsCarriedOut ==
    \A t \in Thread :
        /\ pc[t] \in {"idle", "dead"} => call[t] = NoCall
        /\ pc[t] \in Reading => call[t].op \in {"load", "find"}
        /\ pc[t] \in Writing \cup {"lock"} => ~Promise!Mismatched(call[t])

\* A call has its answer when it is done, and none before it is underway to it.
AnsweredWhenDone ==
    \A t \in Thread :
        /\ pc[t] \notin {"unlink", "done"} => answer[t] = NoAnswer
        /\ pc[t] = "done" => answer[t] # NoAnswer

\* A load by key that has read the pointer will find the sidecar.
FindsSucceed ==
    \A t \in Thread :
        pc[t] \in {"stat", "read"} /\ call[t].op = "find" =>
            live[path[t]] # Absent

RInv ==
    /\ Undisturbed /\ NoCollisions
    /\ IInv
    /\ SidecarsAreBodies /\ CallsCarriedOut /\ AnsweredWhenDone /\ FindsSucceed

USE DEF Goto, Finish, outside, directory, Labels, Writing, Reading,
        NoCall, NoAnswer, Ok, Miss, IOError, Refused,
        Promise!NoCall, Promise!NoAnswer, Promise!Ok, Promise!Miss,
        Promise!IOError, Promise!Refused, Promise!Answer, Promise!Call

-----------------------------------------------------------------------------
(* The invariant *)

\* Undisturbed, only threads and the deaths of processes take steps.
LEMMA QuietSteps ==
  ASSUME TypeOK, Undisturbed, [Next]_vars
  PROVE  /\ tampering = 0 /\ outages = 0
         /\ \/ \E t \in Thread : \/ Step(t) \/ Restart(t)
                                 \/ \E c \in Promise!Calls : Submit(t, c)
            \/ \E p \in Process : Crash(p)
            \/ UNCHANGED vars
  <1>1. tampering = 0 /\ outages = 0
    BY DEF TypeOK, Undisturbed
  <1>2. /\ ~PowerLoss /\ \A p : ~WriteBack(p)
        /\ \A p, f : ~Tamper(p, f)
    BY <1>1 DEF Undisturbed, PowerLoss, WriteBack, Tamper
  <1> QED
    BY <1>1, <1>2 DEF Next, Environment

\* Sidecars are bodies.
LEMMA NextBodies ==
  ASSUME IInv, Undisturbed, SidecarsAreBodies, [Next]_vars
  PROVE  SidecarsAreBodies'
  <1>1. ASSUME NEW t \in Thread, ReplaceFile(t) PROVE SidecarsAreBodies'
    <2>1. temp[t].content = Data(t) /\ Storing(t)
      BY <1>1, FilesHaveContent DEF IInv, ReplaceFile, TempsWhole, StoresOnTheirWay
    <2>2. live' = [live EXCEPT ![path[t]] = temp[t]]
      BY <1>1 DEF ReplaceFile, TempName
    <2>3. path[t] \in Digest => temp[t].content \in Body
      BY <2>1, DataFitsPath, CacheAssumption DEF IInv, Data
    <2> QED
      BY <2>2, <2>3 DEF SidecarsAreBodies, IInv, TypeOK, Path
  <1>2. CASE UNCHANGED live
    BY <1>2 DEF SidecarsAreBodies
  <1> QED
    BY <1>1, <1>2, QuietSteps DEF IInv, Step, Store, Load, Submit, Return, StartStore,
       Lock, LockFails, CreateTemp, DirectoryAtCreate, WriteTemp, WriteFails,
       Unlock, StartLoad, ReadPointer, StatSidecar, ReadSidecar, ReadFails,
       Restart, Crash, vars

\* Calls are carried out as they were made.
LEMMA NextCarriedOut ==
  ASSUME TypeOK, Undisturbed, LoadsOnTheirWay, CallsCarriedOut, [Next]_vars
  PROVE  CallsCarriedOut'
  <1>1. ASSUME NEW t \in Thread, NEW c \in Promise!Calls, Submit(t, c) PROVE CallsCarriedOut'
    BY <1>1 DEF TypeOK, CallsCarriedOut, Submit
  <1>2. ASSUME NEW t \in Thread, Return(t) PROVE CallsCarriedOut'
    BY <1>2 DEF TypeOK, CallsCarriedOut, Return
  <1>3. ASSUME NEW t \in Thread, StartStore(t) PROVE CallsCarriedOut'
    BY <1>3 DEF TypeOK, CallsCarriedOut, StartStore, Promise!Mismatched
  <1>4. ASSUME NEW t \in Thread, Lock(t) PROVE CallsCarriedOut'
    BY <1>4 DEF TypeOK, CallsCarriedOut, Lock
  <1>5. ASSUME NEW t \in Thread, LockFails(t) PROVE CallsCarriedOut'
    BY <1>5 DEF TypeOK, CallsCarriedOut, LockFails
  <1>6. ASSUME NEW t \in Thread, CreateTemp(t) PROVE CallsCarriedOut'
    BY <1>6 DEF TypeOK, CallsCarriedOut, CreateTemp, DirectoryAtCreate
  <1>7. ASSUME NEW t \in Thread, WriteTemp(t) PROVE CallsCarriedOut'
    BY <1>7 DEF TypeOK, CallsCarriedOut, WriteTemp
  <1>8. ASSUME NEW t \in Thread, WriteFails(t) PROVE CallsCarriedOut'
    BY <1>8 DEF TypeOK, CallsCarriedOut, WriteFails, AfterFailure
  <1>9. ASSUME NEW t \in Thread, ReplaceFile(t) PROVE CallsCarriedOut'
    BY <1>9 DEF TypeOK, CallsCarriedOut, ReplaceFile
  <1>10. ASSUME NEW t \in Thread, Unlock(t) PROVE CallsCarriedOut'
    BY <1>10 DEF TypeOK, CallsCarriedOut, Unlock, GoesOn
  <1>11. ASSUME NEW t \in Thread, StartLoad(t) PROVE CallsCarriedOut'
    BY <1>11 DEF TypeOK, CallsCarriedOut, StartLoad
  <1>12. ASSUME NEW t \in Thread, ReadPointer(t) PROVE CallsCarriedOut'
    BY <1>12 DEF TypeOK, CallsCarriedOut, ReadPointer
  <1>13. ASSUME NEW t \in Thread, StatSidecar(t) PROVE CallsCarriedOut'
    BY <1>13 DEF TypeOK, CallsCarriedOut, StatSidecar
  <1>14. ASSUME NEW t \in Thread, ReadSidecar(t) PROVE CallsCarriedOut'
    BY <1>14 DEF TypeOK, CallsCarriedOut, ReadSidecar, Found
  <1>15. ASSUME NEW t \in Thread, ReadFails(t) PROVE CallsCarriedOut'
    BY <1>15 DEF TypeOK, CallsCarriedOut, ReadFails
  <1>16. ASSUME NEW t \in Thread, Restart(t) PROVE CallsCarriedOut'
    BY <1>16 DEF TypeOK, CallsCarriedOut, Restart
  <1>17. ASSUME NEW p \in Process, Crash(p) PROVE CallsCarriedOut'
    BY <1>17 DEF TypeOK, CallsCarriedOut, Crash, Kill
  <1>18. CASE UNCHANGED vars
    BY <1>18 DEF TypeOK, CallsCarriedOut, vars
  <1> QED
    BY <1>1, <1>2, <1>3, <1>4, <1>5, <1>6, <1>7, <1>8, <1>9, <1>10, <1>11,
       <1>12, <1>13, <1>14, <1>15, <1>16, <1>17, <1>18, QuietSteps
       DEF Step, Store, Load

\* Answers come at the end of calls, and at the end there is one.
LEMMA NextAnswered ==
  ASSUME TypeOK, Undisturbed, AnsweredWhenDone, [Next]_vars
  PROVE  AnsweredWhenDone'
  <1>1. ASSUME NEW t \in Thread, NEW c \in Promise!Calls, Submit(t, c) PROVE AnsweredWhenDone'
    BY <1>1 DEF TypeOK, AnsweredWhenDone, Submit
  <1>2. ASSUME NEW t \in Thread, Return(t) PROVE AnsweredWhenDone'
    BY <1>2 DEF TypeOK, AnsweredWhenDone, Return
  <1>3. ASSUME NEW t \in Thread, StartStore(t) PROVE AnsweredWhenDone'
    BY <1>3 DEF TypeOK, AnsweredWhenDone, StartStore
  <1>4. ASSUME NEW t \in Thread, Lock(t) PROVE AnsweredWhenDone'
    BY <1>4 DEF TypeOK, AnsweredWhenDone, Lock
  <1>5. ASSUME NEW t \in Thread, LockFails(t) PROVE AnsweredWhenDone'
    BY <1>5 DEF TypeOK, AnsweredWhenDone, LockFails
  <1>6. ASSUME NEW t \in Thread, CreateTemp(t) PROVE AnsweredWhenDone'
    BY <1>6 DEF TypeOK, AnsweredWhenDone, CreateTemp, DirectoryAtCreate
  <1>7. ASSUME NEW t \in Thread, WriteTemp(t) PROVE AnsweredWhenDone'
    BY <1>7 DEF TypeOK, AnsweredWhenDone, WriteTemp
  <1>8. ASSUME NEW t \in Thread, WriteFails(t) PROVE AnsweredWhenDone'
    BY <1>8 DEF TypeOK, AnsweredWhenDone, WriteFails, AfterFailure
  <1>9. ASSUME NEW t \in Thread, ReplaceFile(t) PROVE AnsweredWhenDone'
    BY <1>9 DEF TypeOK, AnsweredWhenDone, ReplaceFile
  <1>10. ASSUME NEW t \in Thread, Unlock(t) PROVE AnsweredWhenDone'
    BY <1>10 DEF TypeOK, AnsweredWhenDone, Unlock, GoesOn
  <1>11. ASSUME NEW t \in Thread, StartLoad(t) PROVE AnsweredWhenDone'
    BY <1>11 DEF TypeOK, AnsweredWhenDone, StartLoad
  <1>12. ASSUME NEW t \in Thread, ReadPointer(t) PROVE AnsweredWhenDone'
    BY <1>12 DEF TypeOK, AnsweredWhenDone, ReadPointer
  <1>13. ASSUME NEW t \in Thread, StatSidecar(t) PROVE AnsweredWhenDone'
    BY <1>13 DEF TypeOK, AnsweredWhenDone, StatSidecar
  <1>14. ASSUME NEW t \in Thread, ReadSidecar(t) PROVE AnsweredWhenDone'
    BY <1>14 DEF TypeOK, AnsweredWhenDone, ReadSidecar, Found, Verdict
  <1>15. ASSUME NEW t \in Thread, ReadFails(t) PROVE AnsweredWhenDone'
    BY <1>15 DEF TypeOK, AnsweredWhenDone, ReadFails
  <1>16. ASSUME NEW t \in Thread, Restart(t) PROVE AnsweredWhenDone'
    BY <1>16 DEF TypeOK, AnsweredWhenDone, Restart
  <1>17. ASSUME NEW p \in Process, Crash(p) PROVE AnsweredWhenDone'
    BY <1>17 DEF TypeOK, AnsweredWhenDone, Crash, Kill
  <1>18. CASE UNCHANGED vars
    BY <1>18 DEF TypeOK, AnsweredWhenDone, vars
  <1> QED
    BY <1>1, <1>2, <1>3, <1>4, <1>5, <1>6, <1>7, <1>8, <1>9, <1>10, <1>11,
       <1>12, <1>13, <1>14, <1>15, <1>16, <1>17, <1>18, QuietSteps
       DEF Step, Store, Load

\* Pointers lead to sidecars, and sidecars stay.
LEMMA NextFinds ==
  ASSUME IInv, Undisturbed, FindsSucceed, [Next]_vars
  PROVE  FindsSucceed'
  <1> USE DEF IInv
  <1>1. ASSUME NEW t \in Thread, NEW c \in Promise!Calls, Submit(t, c) PROVE FindsSucceed'
    BY <1>1 DEF TypeOK, FindsSucceed, Submit
  <1>2. ASSUME NEW t \in Thread, Return(t) PROVE FindsSucceed'
    BY <1>2 DEF TypeOK, FindsSucceed, Return
  <1>3. ASSUME NEW t \in Thread, StartStore(t) PROVE FindsSucceed'
    BY <1>3 DEF TypeOK, FindsSucceed, StartStore
  <1>4. ASSUME NEW t \in Thread, Lock(t) PROVE FindsSucceed'
    BY <1>4 DEF TypeOK, FindsSucceed, Lock
  <1>5. ASSUME NEW t \in Thread, LockFails(t) PROVE FindsSucceed'
    BY <1>5 DEF TypeOK, FindsSucceed, LockFails
  <1>6. ASSUME NEW t \in Thread, CreateTemp(t) PROVE FindsSucceed'
    BY <1>6 DEF TypeOK, FindsSucceed, CreateTemp, DirectoryAtCreate
  <1>7. ASSUME NEW t \in Thread, WriteTemp(t) PROVE FindsSucceed'
    BY <1>7 DEF TypeOK, FindsSucceed, WriteTemp
  <1>8. ASSUME NEW t \in Thread, WriteFails(t) PROVE FindsSucceed'
    BY <1>8 DEF TypeOK, FindsSucceed, WriteFails, AfterFailure
  <1>9. ASSUME NEW t \in Thread, ReplaceFile(t) PROVE FindsSucceed'
    <2>1. temp[t] # Absent
      BY <1>9, DataFitsPath, FilesHaveContent
         DEF ReplaceFile, TempsWhole, StoresOnTheirWay
    <2>2. live' = [live EXCEPT ![path[t]] = temp[t]] /\ UNCHANGED <<call, path>>
      BY <1>9 DEF ReplaceFile, TempName
    <2>3. \A s \in Thread : pc'[s] \in {"stat", "read"} => pc[s] = pc'[s]
      BY <1>9 DEF TypeOK, ReplaceFile
    <2> QED
      BY <2>1, <2>2, <2>3 DEF TypeOK, FindsSucceed, LoadsOnTheirWay, Path
  <1>10. ASSUME NEW t \in Thread, Unlock(t) PROVE FindsSucceed'
    BY <1>10 DEF TypeOK, FindsSucceed, Unlock, GoesOn
  <1>11. ASSUME NEW t \in Thread, StartLoad(t) PROVE FindsSucceed'
    BY <1>11 DEF TypeOK, FindsSucceed, StartLoad
  <1>12. ASSUME NEW t \in Thread, ReadPointer(t) PROVE FindsSucceed'
    <2>1. call[t].key \in Key
      BY <1>12 DEF ReadPointer, LoadsOnTheirWay, CallsWellMade, WellMade
    <2>2. live[call[t].key] # Absent => live[live[call[t].key].content] # Absent
      BY <2>1, QuietSteps DEF PointersLead
    <2> QED
      BY <1>12, <2>2 DEF TypeOK, FindsSucceed, ReadPointer
  <1>13. ASSUME NEW t \in Thread, StatSidecar(t) PROVE FindsSucceed'
    BY <1>13 DEF TypeOK, FindsSucceed, StatSidecar
  <1>14. ASSUME NEW t \in Thread, ReadSidecar(t) PROVE FindsSucceed'
    BY <1>14 DEF TypeOK, FindsSucceed, ReadSidecar, Found
  <1>15. ASSUME NEW t \in Thread, ReadFails(t) PROVE FindsSucceed'
    BY <1>15 DEF TypeOK, FindsSucceed, ReadFails
  <1>16. ASSUME NEW t \in Thread, Restart(t) PROVE FindsSucceed'
    BY <1>16 DEF TypeOK, FindsSucceed, Restart
  <1>17. ASSUME NEW p \in Process, Crash(p) PROVE FindsSucceed'
    BY <1>17 DEF TypeOK, FindsSucceed, Crash, Kill
  <1>18. CASE UNCHANGED vars
    BY <1>18 DEF TypeOK, FindsSucceed, vars
  <1> QED
    BY <1>1, <1>2, <1>3, <1>4, <1>5, <1>6, <1>7, <1>8, <1>9, <1>10, <1>11,
       <1>12, <1>13, <1>14, <1>15, <1>16, <1>17, <1>18, QuietSteps
       DEF Step, Store, Load

\* The invariant holds before any call.
LEMMA InitRInv == Undisturbed /\ NoCollisions /\ Init => RInv
  BY InitIInv, CacheAssumption
     DEF RInv, Init, SidecarsAreBodies, CallsCarriedOut, AnsweredWhenDone,
         FindsSucceed, Path

\* Every step preserves it.
LEMMA NextRInv == RInv /\ [Next]_vars => RInv'
  <1> SUFFICES ASSUME RInv, [Next]_vars PROVE RInv'
    OBVIOUS
  <1>1. /\ Undisturbed /\ NoCollisions /\ IInv
        /\ SidecarsAreBodies /\ CallsCarriedOut /\ AnsweredWhenDone /\ FindsSucceed
    BY DEF RInv
  <1>2. IInv'
    BY <1>1, NextIInv
  <1>3. SidecarsAreBodies' /\ FindsSucceed'
    BY <1>1, NextBodies, NextFinds
  <1>4. CallsCarriedOut' /\ AnsweredWhenDone'
    BY <1>1, NextCarriedOut, NextAnswered DEF IInv
  <1> QED
    BY <1>1, <1>2, <1>3, <1>4 DEF RInv, Undisturbed, NoCollisions

-----------------------------------------------------------------------------
(* What the directory means *)

\* Under a digest stands the body that has it, and a pointer leads to one.
FilesLead ==
    /\ \A d \in Digest : live[d] # Absent =>
          live[d].content \in Body /\ Sha256[live[d].content] = d
    /\ \A k \in Key : live[k] # Absent =>
          live[k].content \in Digest /\ live[live[k].content] # Absent

\* The bodies that are kept are those under whose digest there is a file.
Kept == {b \in Body : live[Sha256[b]] # Absent}

\* A key is bound to the body its pointer leads to.
Led == [k \in Key |->
            IF live[k] = Absent THEN None ELSE live[live[k].content].content]

Meaning == FilesLead /\ StoredBodies = Kept /\ BoundBodies = Led

LEMMA FilesMean == RInv => Meaning
  <1> SUFFICES ASSUME RInv PROVE Meaning
    OBVIOUS
  <1> USE DEF RInv
  <1>1. FilesLead
    <2>1. tampering = 0 /\ outages = 0
      BY DEF IInv, TypeOK, Undisturbed
    <2>2. WellFormed(live)
      BY <2>1 DEF IInv, NoTornFiles
    <2>3. ASSUME NEW d \in Digest, live[d] # Absent
          PROVE  live[d].content \in Body /\ Sha256[live[d].content] = d
      BY <2>2, <2>3, CacheAssumption DEF WellFormed, SidecarsAreBodies, Path
    <2>4. ASSUME NEW k \in Key, live[k] # Absent
          PROVE  live[k].content \in Digest /\ live[live[k].content] # Absent
      BY <2>1, <2>2, <2>4 DEF WellFormed, IInv, PointersLead, Path
    <2> QED
      BY <2>3, <2>4 DEF FilesLead
  <1>2. \A b \in Body : Sha256[b] \in Digest
    BY CacheAssumption DEF Content
  <1>3. StoredBodies = Kept
    <2>1. ASSUME NEW b \in Body, live[Sha256[b]] # Absent
          PROVE  live[Sha256[b]].content = b
      BY <1>1, <1>2, <2>1 DEF FilesLead, NoCollisions
    <2> QED
      BY <2>1 DEF StoredBodies, Kept, Holds
  <1>4. ASSUME NEW k \in Key
        PROVE  BoundBody(k) =
                  IF live[k] = Absent THEN None ELSE live[live[k].content].content
    <2>1. CASE live[k] = Absent
      BY <2>1 DEF BoundBody, Holds
    <2>2. CASE live[k] # Absent
      <3>1. PICK b : b = live[live[k].content].content
        OBVIOUS
      <3>2. b \in StoredBodies /\ Holds(k, Sha256[b])
        BY <1>1, <1>3, <2>2, <3>1 DEF FilesLead, Kept, Holds
      <3>3. \A c \in StoredBodies : Holds(k, Sha256[c]) => c = b
        BY <1>3, <3>2 DEF Kept, Holds, NoCollisions
      <3>4. BoundBody(k) = CHOOSE c \in StoredBodies : Holds(k, Sha256[c])
        BY <3>2 DEF BoundBody
      <3>5. BoundBody(k) = b
        BY <3>2, <3>3, <3>4
      <3> QED
        BY <2>2, <3>1, <3>5
    <2> QED
      BY <2>1, <2>2
  <1>5. BoundBodies = Led
    BY <1>4 DEF BoundBodies, Led
  <1> QED
    BY <1>1, <1>3, <1>5 DEF Meaning

\* What a load says of a file under a digest.
LEMMA VerdictOnBody ==
  ASSUME FilesLead, NEW d \in Digest, live[d] # Absent, NEW limit \in Nat
  PROVE  Verdict(d, limit) = Promise!HitWithin(live[d].content, limit)
  BY CacheAssumption DEF FilesLead, Verdict, Promise!HitWithin, Promise!Hit, Content

-----------------------------------------------------------------------------
(* What a step leaves alone *)

\* A thread's step is its own.
LEMMA StepsAreOwn ==
  ASSUME TypeOK, NEW t \in Thread,
         \/ Step(t) \/ Restart(t) \/ \E c \in Promise!Calls : Submit(t, c)
  PROVE  \A s \in Thread \ {t} :
            /\ pc'[s] = pc[s] /\ call'[s] = call[s]
            /\ path'[s] = path[s] /\ answer'[s] = answer[s]
  BY DEF TypeOK, Step, Store, Load, Return, StartStore, Lock, LockFails,
     CreateTemp, WriteTemp, WriteFails, ReplaceFile, Unlock, StartLoad,
     ReadPointer, StatSidecar, ReadSidecar, ReadFails, Restart, Submit

\* A sidecar that is there is there after the step, and is the same.
LEMMA SidecarsStay ==
  ASSUME RInv, Meaning, Meaning', [Next]_vars, NEW d \in Digest, live[d] # Absent
  PROVE  live'[d] # Absent /\ live'[d].content = live[d].content
  <1>1. live'[d] # Absent
    <2>1. RInv'
      BY NextRInv
    <2>2. UNCHANGED <<tampering, outages>>
      BY <2>1 DEF RInv, IInv, TypeOK, Undisturbed
    <2>3. [FilesStay]_vars
      BY StepKeepsFiles DEF RInv
    <2> QED
      BY <2>2, <2>3 DEF FilesStay, vars, Path
  <1>2. /\ live[d].content \in Body /\ Sha256[live[d].content] = d
        /\ live'[d].content \in Body /\ Sha256[live'[d].content] = d
    BY <1>1 DEF Meaning, FilesLead
  <1> QED
    BY <1>1, <1>2 DEF RInv, NoCollisions

\* So a thread's step decides no other thread's answer.
LEMMA DecidesOwnAnswer ==
  ASSUME RInv, Meaning, Meaning', [Next]_vars, NEW t \in Thread,
         \/ Step(t) \/ Restart(t) \/ \E c \in Promise!Calls : Submit(t, c)
  PROVE  DecidedAnswers' = [DecidedAnswers EXCEPT ![t] = DecidedAnswer(t)']
  <1>1. ASSUME NEW s \in Thread \ {t}
        PROVE  DecidedAnswer(s)' = DecidedAnswer(s)
    <2>1. /\ pc'[s] = pc[s] /\ call'[s] = call[s]
          /\ path'[s] = path[s] /\ answer'[s] = answer[s]
      BY StepsAreOwn DEF RInv, IInv
    <2>2. CASE pc[s] \in {"stat", "read"} /\ call[s].op = "find"
      <3>1. path[s] \in Digest /\ live[path[s]] # Absent
        BY <2>2 DEF RInv, IInv, LoadsOnTheirWay, FindsSucceed
      <3>2. live'[path[s]] # Absent /\ live'[path[s]].content = live[path[s]].content
        BY <3>1, SidecarsStay
      <3> QED
        BY <2>1, <2>2, <3>1, <3>2 DEF DecidedAnswer, Verdict
    <2>3. CASE ~(pc[s] \in {"stat", "read"} /\ call[s].op = "find")
      BY <2>1, <2>3 DEF DecidedAnswer
    <2> QED
      BY <2>2, <2>3
  <1> QED
    BY <1>1 DEF DecidedAnswers

\* Where no file is renamed, the cache stays as it is.
LEMMA CacheStays ==
  ASSUME Meaning, Meaning', UNCHANGED live
  PROVE  UNCHANGED <<StoredBodies, BoundBodies>>
  BY DEF Meaning, Kept, Led

-----------------------------------------------------------------------------
(* Every step of the files is a step of the cache, or none *)

\* A step that changes nothing the callers can see.
LEMMA StepIsHidden ==
  ASSUME RInv, Meaning, Meaning', [Next]_vars, NEW t \in Thread,
         Step(t) \/ Restart(t), UNCHANGED <<live, call>>,
         DecidedAnswer(t)' = DecidedAnswer(t)
  PROVE  UNCHANGED Promise!cacheVars
  <1>1. DecidedAnswers' = DecidedAnswers
    BY DecidesOwnAnswer DEF DecidedAnswers
  <1> QED
    BY <1>1, CacheStays DEF Promise!cacheVars

\* A step that only decides the answer of its thread.
LEMMA StepDecides ==
  ASSUME RInv, Meaning, Meaning', [Next]_vars, NEW t \in Thread,
         Step(t), UNCHANGED <<live, call>>, NEW a, DecidedAnswer(t)' = a
  PROVE  Promise!Decide(t, a) /\ UNCHANGED <<StoredBodies, BoundBodies, call>>
  BY DecidesOwnAnswer, CacheStays DEF Promise!Decide

\* Before a load has read the pointer or a store has an answer, none is
\* decided.
LEMMA Undecided ==
  ASSUME RInv, NEW t \in Thread,
         pc[t] \notin {"unlink", "done"},
         pc[t] \in {"stat", "read"} => call[t].op # "find"
  PROVE  DecidedAnswers[t] = NoAnswer /\ answer[t] = NoAnswer
  BY DEF RInv, AnsweredWhenDone, DecidedAnswers, DecidedAnswer

\* Making a call, and returning from it.
LEMMA SubmitMaps ==
  ASSUME RInv, Meaning, Meaning', [Next]_vars,
         NEW t \in Thread, NEW c \in Promise!Calls, Submit(t, c)
  PROVE  Promise!Submit(t, c)
  <1>1. call[t] = NoCall /\ UNCHANGED live
    BY DEF Submit, RInv, CallsCarriedOut
  <1>2. DecidedAnswer(t)' = DecidedAnswer(t)
    BY DEF Submit, DecidedAnswer, RInv, IInv, TypeOK
  <1>3. DecidedAnswers' = DecidedAnswers
    BY <1>2, DecidesOwnAnswer DEF DecidedAnswers
  <1> QED
    BY <1>1, <1>3, CacheStays DEF Submit, Promise!Submit

LEMMA ReturnMaps ==
  ASSUME RInv, Meaning, Meaning', [Next]_vars, NEW t \in Thread, Return(t)
  PROVE  Promise!Return(t)
  <1>1. DecidedAnswers[t] # NoAnswer
    BY DEF Return, RInv, AnsweredWhenDone, DecidedAnswers, DecidedAnswer
  <1>2. DecidedAnswer(t)' = NoAnswer
    BY DEF Return, DecidedAnswer, RInv, IInv, TypeOK
  <1>3. DecidedAnswers' = [DecidedAnswers EXCEPT ![t] = NoAnswer]
    BY <1>2, DecidesOwnAnswer DEF Step
  <1> QED
    BY <1>1, <1>3, CacheStays DEF Return, Promise!Return, Promise!Decide

\* A store begins, and is refused when the body is not the one expected.
LEMMA StartStoreMaps ==
  ASSUME RInv, Meaning, Meaning', [Next]_vars, NEW t \in Thread, StartStore(t)
  PROVE  Promise!Refuse(t) \/ UNCHANGED Promise!cacheVars
  <1>1. UNCHANGED <<live, call>> /\ Step(t)
    BY DEF StartStore, Step, Store
  <1>2. CASE call[t].digest \in {None, Sha256[call[t].body]}
    <2>1. DecidedAnswer(t)' = DecidedAnswer(t)
      BY <1>2 DEF StartStore, DecidedAnswer, RInv, IInv, TypeOK
    <2> QED
      BY <1>1, <2>1, StepIsHidden
  <1>3. CASE call[t].digest \notin {None, Sha256[call[t].body]}
    <2>1. Promise!Mismatched(call[t])
      BY <1>3 DEF StartStore, RInv, IInv, TypeOK, Promise!Mismatched, Promise!Calls
    <2>2. DecidedAnswer(t)' = Refused
      BY <1>3 DEF StartStore, DecidedAnswer, RInv, IInv, TypeOK
    <2> QED
      BY <1>1, <2>1, <2>2, StepDecides DEF Promise!Refuse
  <1> QED
    BY <1>2, <1>3

\* Locking, writing and unlocking are not seen.
LEMMA WritingIsHidden ==
  ASSUME RInv, Meaning, Meaning', [Next]_vars, NEW t \in Thread,
         \/ Lock(t) \/ CreateTemp(t) \/ WriteTemp(t) \/ Unlock(t)
         \/ StartLoad(t) \/ Restart(t)
  PROVE  UNCHANGED Promise!cacheVars
  <1>1. UNCHANGED <<live, call, answer>> /\ (Step(t) \/ Restart(t))
    BY DEF Lock, CreateTemp, DirectoryAtCreate, WriteTemp, Unlock, StartLoad,
       Restart, Step, Store, Load
  <1>2. /\ pc[t] \notin {"stat", "read"}
        /\ pc'[t] \in {"stat", "read"} => call[t].op # "find"
    BY DEF Lock, CreateTemp, WriteTemp, Unlock, StartLoad, Restart, RInv, IInv,
       TypeOK
  <1>3. DecidedAnswer(t)' = DecidedAnswer(t)
    BY <1>1, <1>2 DEF DecidedAnswer
  <1> QED
    BY <1>1, <1>3, StepIsHidden

\* Errors end a call.
LEMMA FailuresMap ==
  ASSUME RInv, Meaning, Meaning', [Next]_vars, NEW t \in Thread,
         LockFails(t) \/ WriteFails(t) \/ ReadFails(t)
  PROVE  Promise!Fail(t)
  <1>1. UNCHANGED <<live, call>> /\ Step(t)
    BY DEF LockFails, WriteFails, ReadFails, Step, Store, Load
  <1>2. call[t] # NoCall
    BY DEF LockFails, WriteFails, ReadFails, RInv, IInv, StoresOnTheirWay,
       Storing, CallsCarriedOut
  <1>3. Promise!IsLoad(call[t]) \/ DecidedAnswers[t] = NoAnswer
    BY Undecided DEF LockFails, WriteFails, ReadFails, RInv, CallsCarriedOut,
       Promise!IsLoad
  <1>4. DecidedAnswer(t)' = IOError
    BY DEF LockFails, WriteFails, ReadFails, AfterFailure, DecidedAnswer, RInv,
       IInv, TypeOK
  <1> QED
    BY <1>1, <1>2, <1>3, <1>4, StepDecides DEF Promise!Fail

\* Renaming the sidecar into place keeps the body, and binds no key.
LEMMA RenamedSidecarKeeps ==
  ASSUME RInv, Meaning, Meaning', [Next]_vars, NEW t \in Thread,
         ReplaceFile(t), path[t] \notin Key
  PROVE  Promise!Keep(t)
  <1>1. /\ Storing(t) /\ temp[t].content = Data(t) /\ temp[t] # Absent
        /\ call[t].op \in {"store", "bind"} /\ ~Promise!Mismatched(call[t])
    <2>1. Storing(t) /\ temp[t] = File(Data(t), TRUE)
      BY DEF RInv, IInv, ReplaceFile, TempsWhole, StoresOnTheirWay
    <2>2. Data(t) \in Content
      BY <2>1, DataFitsPath DEF RInv, IInv
    <2>3. temp[t].content = Data(t) /\ temp[t] # Absent
      BY <2>1, <2>2, FilesHaveContent
    <2> QED
      BY <2>1, <2>3 DEF RInv, ReplaceFile, Storing, CallsCarriedOut
  <1>2. PICK b \in Body : b = call[t].body /\ path[t] = Sha256[b]
    BY <1>1, DataFitsPath DEF RInv, IInv
  <1>3. /\ live' = [live EXCEPT ![Sha256[b]] = temp[t]]
        /\ Sha256[b] \in Digest /\ Sha256[b] \notin Key
    BY <1>2, CacheAssumption DEF ReplaceFile, TempName, Content
  <1>4. StoredBodies' = StoredBodies \cup {b}
    <2>1. Kept' = Kept \cup {b}
      BY <1>1, <1>3, CacheAssumption
         DEF Kept, RInv, IInv, TypeOK, NoCollisions, Path, Content
    <2> QED
      BY <2>1 DEF Meaning
  <1>5. BoundBodies' = BoundBodies
    <2>1. ASSUME NEW k \in Key
          PROVE  /\ live'[k] = live[k]
                 /\ live[k] # Absent =>
                      live'[live[k].content].content = live[live[k].content].content
      BY <1>3, SidecarsStay DEF RInv, IInv, TypeOK, Path, Meaning, FilesLead
    <2>2. Led' = Led
      BY <2>1 DEF Led
    <2> QED
      BY <2>2 DEF Meaning
  <1>6. DecidedAnswers[t] = NoAnswer
    BY Undecided DEF ReplaceFile
  <1>7. /\ UNCHANGED call /\ Step(t)
        /\ DecidedAnswer(t)' = IF call[t].op = "store" THEN Ok ELSE NoAnswer
    BY DEF ReplaceFile, LastFile, Step, Store, DecidedAnswer, RInv, IInv, TypeOK
  <1>8. DecidedAnswers' = [DecidedAnswers EXCEPT ![t] =
                              IF call[t].op = "store" THEN Ok ELSE NoAnswer]
    BY <1>7, DecidesOwnAnswer
  <1>9. IF call[t].op = "store" THEN Promise!Decide(t, Ok)
                                ELSE UNCHANGED DecidedAnswers
    BY <1>6, <1>8 DEF DecidedAnswers, Promise!Decide
  <1> QED
    BY <1>1, <1>2, <1>4, <1>5, <1>6, <1>7, <1>9
       DEF Promise!Keep, Promise!IsStore

\* Renaming the pointer file into place binds the key to a body that is kept.
LEMMA RenamedPointerBinds ==
  ASSUME RInv, Meaning, Meaning', [Next]_vars, NEW t \in Thread,
         ReplaceFile(t), path[t] \in Key
  PROVE  Promise!Bind(t)
  <1>1. Storing(t) /\ temp[t].content = Data(t) /\ temp[t] # Absent
    <2>1. Storing(t) /\ temp[t] = File(Data(t), TRUE)
      BY DEF RInv, IInv, ReplaceFile, TempsWhole, StoresOnTheirWay
    <2>2. Data(t) \in Content
      BY <2>1, DataFitsPath DEF RInv, IInv
    <2> QED
      BY <2>1, <2>2, FilesHaveContent
  <1>2. PICK b \in Body, k \in Key :
          /\ b = call[t].body /\ k = call[t].key
          /\ path[t] = k /\ call[t].op = "bind" /\ temp[t].content = Sha256[b]
    BY <1>1, DataFitsPath DEF RInv, IInv, Data
  <1>3. /\ live' = [live EXCEPT ![k] = temp[t]]
        /\ \A d \in Digest : d # k /\ live'[d] = live[d]
    BY <1>2, CacheAssumption DEF ReplaceFile, TempName, RInv, IInv, TypeOK, Path
  <1>4. Sha256[b] \in Digest /\ live[Sha256[b]] # Absent
    BY <1>2, CacheAssumption
       DEF ReplaceFile, RInv, IInv, TypeOK, Undisturbed, SidecarFirst, Content
  <1>5. b \in StoredBodies /\ live[Sha256[b]].content = b
    BY <1>4 DEF Meaning, Kept, FilesLead, RInv, NoCollisions
  <1>6. StoredBodies' = StoredBodies
    <2>1. Kept' = Kept
      BY <1>3, CacheAssumption DEF Kept, Content
    <2> QED
      BY <2>1 DEF Meaning
  <1>7. BoundBodies' = [BoundBodies EXCEPT ![k] = b]
    <2>1. /\ live'[k] = temp[t] /\ live'[k] # Absent
          /\ live'[live'[k].content].content = b
      BY <1>1, <1>2, <1>3, <1>4, <1>5 DEF RInv, IInv, TypeOK, Path
    <2>2. ASSUME NEW j \in Key \ {k}
          PROVE  /\ live'[j] = live[j]
                 /\ live[j] # Absent =>
                      live'[live[j].content].content = live[live[j].content].content
      BY <1>3 DEF RInv, IInv, TypeOK, Path, Meaning, FilesLead
    <2>3. Led' = [Led EXCEPT ![k] = b]
      BY <2>1, <2>2 DEF Led
    <2> QED
      BY <2>3 DEF Meaning
  <1>8. DecidedAnswers[t] = NoAnswer
    BY Undecided DEF ReplaceFile
  <1>9. UNCHANGED call /\ Step(t) /\ DecidedAnswer(t)' = Ok
    BY DEF ReplaceFile, LastFile, Step, Store, DecidedAnswer, RInv, IInv, TypeOK
  <1>10. Promise!Decide(t, Ok)
    BY <1>9, DecidesOwnAnswer DEF Promise!Decide
  <1> QED
    BY <1>2, <1>5, <1>6, <1>7, <1>8, <1>9, <1>10 DEF Promise!Bind

\* A load by key is decided where it reads the pointer.
LEMMA ReadPointerMaps ==
  ASSUME RInv, Meaning, Meaning', [Next]_vars, NEW t \in Thread, ReadPointer(t)
  PROVE  Promise!AnswerLoad(t)
  <1>1. UNCHANGED <<live, call>> /\ Step(t)
    BY DEF ReadPointer, Step, Load
  <1>2. PICK k \in Key, limit \in Nat :
          k = call[t].key /\ limit = call[t].limit /\ call[t].op = "find"
    BY DEF ReadPointer, RInv, IInv, LoadsOnTheirWay, CallsWellMade, WellMade
  <1>3. DecidedAnswers[t] = NoAnswer
    BY Undecided DEF ReadPointer
  <1>4. CASE live[k] = Absent
    <2>1. BoundBodies[k] = None
      BY <1>4 DEF Meaning, Led
    <2>2. DecidedAnswer(t)' = Miss
      BY <1>2, <1>4 DEF ReadPointer, DecidedAnswer, RInv, IInv, TypeOK
    <2> QED
      BY <1>1, <1>2, <1>3, <2>1, <2>2, StepDecides DEF Promise!AnswerLoad
  <1>5. CASE live[k] # Absent
    <2>1. PICK d \in Digest : d = live[k].content /\ live[d] # Absent
      BY <1>5 DEF Meaning, FilesLead
    <2>2. BoundBodies[k] = live[d].content /\ live[d].content \in Body
      BY <1>5, <2>1 DEF Meaning, Led, FilesLead
    <2>3. DecidedAnswer(t)' = Verdict(d, limit)'
      BY <1>1, <1>2, <1>5, <2>1
         DEF ReadPointer, DecidedAnswer, RInv, IInv, TypeOK
    <2>4. DecidedAnswer(t)' = Promise!HitWithin(live[d].content, limit)
      BY <1>1, <2>1, <2>3, VerdictOnBody DEF Meaning, Verdict
    <2>5. BoundBodies[k] # None
      BY <2>2, CacheAssumption
    <2> QED
      BY <1>1, <1>2, <1>3, <2>2, <2>4, <2>5, StepDecides DEF Promise!AnswerLoad
  <1> QED
    BY <1>4, <1>5

\* A load by digest is decided where it finds no sidecar, or one too long, or
\* where it reads the sidecar.
LEMMA FoundMaps ==
  ASSUME RInv, Meaning, Meaning', [Next]_vars, NEW t \in Thread,
         pc[t] \in {"stat", "read"}, call[t].op = "load",
         Step(t), UNCHANGED <<live, call>>,
         DecidedAnswer(t)' = Verdict(path[t], call[t].limit)
  PROVE  Promise!AnswerLoad(t)
  <1>1. PICK d \in Digest, limit \in Nat :
          d = path[t] /\ d = call[t].digest /\ limit = call[t].limit
    BY DEF RInv, IInv, LoadsOnTheirWay, CallsWellMade, WellMade
  <1>2. DecidedAnswers[t] = NoAnswer
    BY Undecided
  <1>3. CASE live[d] = Absent
    <2>1. \A b \in StoredBodies : Sha256[b] # d
      BY <1>3 DEF Meaning, Kept
    <2>2. DecidedAnswer(t)' = Miss
      BY <1>1, <1>3 DEF Verdict
    <2> QED
      BY <1>1, <1>2, <2>1, <2>2, StepDecides DEF Promise!AnswerLoad
  <1>4. CASE live[d] # Absent
    <2>1. PICK b \in StoredBodies : b = live[d].content /\ Sha256[b] = d
      BY <1>4 DEF Meaning, Kept, FilesLead
    <2>2. DecidedAnswer(t)' = Promise!HitWithin(b, limit)
      BY <1>1, <1>4, <2>1, VerdictOnBody DEF Meaning
    <2> QED
      BY <1>1, <1>2, <2>1, <2>2, StepDecides DEF Promise!AnswerLoad
  <1> QED
    BY <1>3, <1>4

\* In a load by key, what the pointer decided is what the sidecar says.
LEMMA StatSidecarMaps ==
  ASSUME RInv, Meaning, Meaning', [Next]_vars, NEW t \in Thread, StatSidecar(t)
  PROVE  Promise!AnswerLoad(t) \/ UNCHANGED Promise!cacheVars
  <1>1. UNCHANGED <<live, call, path>> /\ Step(t)
    BY DEF StatSidecar, Step, Load
  <1>2. CASE live[path[t]] = Absent \/ Size[live[path[t]].content] > call[t].limit
    <2>1. DecidedAnswer(t)' = Miss /\ Verdict(path[t], call[t].limit) = Miss
      BY <1>2 DEF StatSidecar, DecidedAnswer, Verdict, RInv, IInv, TypeOK
    <2>2. CASE call[t].op = "find"
      BY <1>1, <2>1, <2>2, StepIsHidden DEF StatSidecar, DecidedAnswer
    <2>3. CASE call[t].op # "find"
      BY <1>1, <2>1, <2>3, FoundMaps DEF StatSidecar, RInv, CallsCarriedOut
    <2> QED
      BY <2>2, <2>3
  <1>3. CASE ~(live[path[t]] = Absent \/ Size[live[path[t]].content] > call[t].limit)
    <2>1. DecidedAnswer(t)' = DecidedAnswer(t)
      BY <1>1, <1>3 DEF StatSidecar, DecidedAnswer, Verdict, RInv, IInv, TypeOK
    <2> QED
      BY <1>1, <2>1, StepIsHidden
  <1> QED
    BY <1>2, <1>3

LEMMA ReadSidecarMaps ==
  ASSUME RInv, Meaning, Meaning', [Next]_vars, NEW t \in Thread, ReadSidecar(t)
  PROVE  Promise!AnswerLoad(t) \/ UNCHANGED Promise!cacheVars
  <1>1. UNCHANGED <<live, call, path>> /\ Step(t)
    BY DEF ReadSidecar, Step, Load
  <1>2. DecidedAnswer(t)' = Verdict(path[t], call[t].limit)
    BY DEF ReadSidecar, DecidedAnswer, Found, RInv, IInv, TypeOK
  <1>3. CASE call[t].op = "find"
    BY <1>1, <1>2, <1>3, StepIsHidden DEF ReadSidecar, DecidedAnswer
  <1>4. CASE call[t].op # "find"
    BY <1>1, <1>2, <1>4, FoundMaps DEF ReadSidecar, RInv, CallsCarriedOut
  <1> QED
    BY <1>3, <1>4

\* The death of a process takes its calls away, and nothing else.
LEMMA CrashMaps ==
  ASSUME RInv, Meaning, Meaning', [Next]_vars, NEW p \in Process, Crash(p)
  PROVE  \E T \in SUBSET Thread : Promise!Crash(T)
  <1>1. PICK T \in SUBSET Thread : T = {t \in Thread : ProcOf[t] = p}
    OBVIOUS
  <1>2. Kill(T) /\ UNCHANGED live
    BY <1>1 DEF Crash
  <1>3. ASSUME NEW t \in Thread
        PROVE  DecidedAnswer(t)' =
                  IF t \in T THEN NoAnswer ELSE DecidedAnswers[t]
    BY <1>2 DEF Kill, DecidedAnswers, DecidedAnswer, Verdict
  <1>4. DecidedAnswers' =
          [t \in Thread |-> IF t \in T THEN NoAnswer ELSE DecidedAnswers[t]]
    BY <1>3 DEF DecidedAnswers
  <1> QED
    BY <1>2, <1>4, CacheStays DEF Kill, Promise!Crash

\* Where the files stay, the cache stays.
LEMMA StutterMaps == UNCHANGED vars => UNCHANGED Promise!cacheVars
  <1> SUFFICES ASSUME UNCHANGED vars PROVE UNCHANGED Promise!cacheVars
    OBVIOUS
  <1>1. UNCHANGED <<pc, call, path, answer, live>>
    BY DEF vars
  <1>2. StoredBodies' = StoredBodies
    BY <1>1 DEF StoredBodies, Holds
  <1>3. BoundBodies' = BoundBodies
    BY <1>1, <1>2 DEF BoundBodies, BoundBody, Holds
  <1>4. DecidedAnswers' = DecidedAnswers
    BY <1>1 DEF DecidedAnswers, DecidedAnswer, Verdict
  <1> QED
    BY <1>1, <1>2, <1>3, <1>4 DEF Promise!cacheVars

-----------------------------------------------------------------------------
(* The refinement *)

LEMMA InitMaps == RInv /\ Init => Promise!Init
  <1> SUFFICES ASSUME RInv, Init PROVE Promise!Init
    OBVIOUS
  <1>1. \A b \in Body : Sha256[b] \in Path
    BY CacheAssumption DEF Path, Content
  <1>2. StoredBodies = {}
    BY <1>1 DEF Init, StoredBodies, Holds
  <1>3. BoundBodies = [k \in Key |-> None]
    BY <1>2 DEF BoundBodies, BoundBody
  <1>4. DecidedAnswers = [t \in Thread |-> NoAnswer]
    BY DEF Init, DecidedAnswers, DecidedAnswer
  <1> QED
    BY <1>2, <1>3, <1>4 DEF Init, Promise!Init

LEMMA StepMaps ==
  RInv /\ Meaning /\ Meaning' /\ [Next]_vars => [Promise!Next]_(Promise!cacheVars)
  <1> SUFFICES ASSUME RInv, Meaning, Meaning', [Next]_vars
               PROVE  Promise!Next \/ UNCHANGED Promise!cacheVars
    BY Zenon
  <1>1. ASSUME NEW t \in Thread, NEW c \in Promise!Calls, Submit(t, c)
        PROVE  Promise!Next
    BY <1>1, SubmitMaps DEF Promise!Next
  <1>2. ASSUME NEW t \in Thread, Store(t)
        PROVE  Promise!Next \/ UNCHANGED Promise!cacheVars
    <2>1. CASE StartStore(t)
      BY <2>1, StartStoreMaps DEF Promise!Next
    <2>2. CASE Lock(t) \/ CreateTemp(t) \/ WriteTemp(t) \/ Unlock(t)
      BY <2>2, WritingIsHidden
    <2>3. CASE LockFails(t) \/ WriteFails(t)
      BY <2>3, FailuresMap DEF Promise!Next
    <2>4. CASE ReplaceFile(t)
      BY <2>4, RenamedSidecarKeeps, RenamedPointerBinds DEF Promise!Next
    <2> QED
      BY <1>2, <2>1, <2>2, <2>3, <2>4 DEF Store
  <1>3. ASSUME NEW t \in Thread, Load(t)
        PROVE  Promise!Next \/ UNCHANGED Promise!cacheVars
    <2>1. CASE StartLoad(t)
      BY <2>1, WritingIsHidden
    <2>2. CASE ReadPointer(t)
      BY <2>2, ReadPointerMaps DEF Promise!Next
    <2>3. CASE StatSidecar(t)
      BY <2>3, StatSidecarMaps DEF Promise!Next
    <2>4. CASE ReadSidecar(t)
      BY <2>4, ReadSidecarMaps DEF Promise!Next
    <2>5. CASE ReadFails(t)
      BY <2>5, FailuresMap DEF Promise!Next
    <2> QED
      BY <1>3, <2>1, <2>2, <2>3, <2>4, <2>5 DEF Load
  <1>4. ASSUME NEW t \in Thread, Return(t) PROVE Promise!Next
    BY <1>4, ReturnMaps DEF Promise!Next
  <1>5. ASSUME NEW t \in Thread, Restart(t) PROVE UNCHANGED Promise!cacheVars
    BY <1>5, WritingIsHidden
  <1>6. ASSUME NEW p \in Process, Crash(p) PROVE Promise!Next
    BY <1>6, CrashMaps DEF Promise!Next
  <1>7. CASE UNCHANGED vars
    BY <1>7, StutterMaps
  <1> QED
    BY <1>1, <1>2, <1>3, <1>4, <1>5, <1>6, <1>7, QuietSteps
       DEF Step, RInv, IInv

\* ImplementsPromise holds whatever the numbers of threads, processes and
\* keys are: to its callers the directory of two kinds of files, with readers
\* that take no lock and a lock that does not exclude threads, is an atomic
\* cache (cache.py), while nobody else touches it and the power does not fail.
THEOREM CacheKeepsItsPromise ==
  ASSUME Undisturbed, NoCollisions
  PROVE  Spec => ImplementsPromise
  <1>1. Init => RInv
    BY InitRInv
  <1>2. RInv /\ [Next]_vars => RInv'
    BY NextRInv
  <1>3. Spec => []RInv
    BY <1>1, <1>2, PTL DEF Spec
  <1>4. RInv /\ Init => Promise!Init
    BY InitMaps
  <1>5. RInv => Meaning
    BY FilesMean
  <1>6. RInv /\ Meaning /\ Meaning' /\ [Next]_vars
        => [Promise!Next]_(Promise!cacheVars)
    BY StepMaps
  <1> QED
    BY <1>1, <1>3, <1>4, <1>5, <1>6, FilesMean, PTL DEF Spec, ImplementsPromise, Promise!Spec
===============================================================================
