------------------------- MODULE RecordEvidenceProofs -------------------------
(***************************************************************************)
(* Proofs about RecordEvidence, for any number of processes, packages,      *)
(* sidecars and roots, and whatever the network and others put before them. *)
(* The invariant follows a call: past the lookup the archive is the         *)
(* recorded one, a body that comes to be verified is the pinned one if one  *)
(* is pinned, and a body that comes to be stored has been proved under the  *)
(* root that the process still has.                                         *)
(***************************************************************************)
EXTENDS RecordEvidence, TLAPS

Underway == {"lookup", "fetch", "verify", "store"}

RequestsMade ==
    \A p \in Process : pc[p] # "idle" => request[p] \in Requests

OnlyFitArchives == \A p \in Process : pc[p] \in Underway => request[p].fit = "fit"

PinChecked ==
    \A p \in Process :
        pc[p] \in {"verify", "store"} =>
            MatchesPin(request[p], body[p]) /\ body[p] \in Body

StatusAtEnd ==
    \A p \in Process :
        /\ pc[p] = "store" => status[p] = "verified" /\ Caches(request[p])
        /\ status[p] # "none" => pc[p] \in {"store", "done"}

\* A lookup is under way only for evidence that may be looked for, and only
\* URLs of the kind that was selected have been requested.
MayBeLookedFor(r) == UsesPrefix(r) \/ r.pin \in Digest

Selected ==
    \A p \in Process :
        /\ pc[p] \in Underway => MayBeLookedFor(request[p])
        /\ contacted[p] \subseteq {Url(request[p])}
        /\ contacted[p] # {} => pc[p] # "idle" /\ MayBeLookedFor(request[p])
        /\ pc[p] \in {"idle", "select", "lookup"} => contacted[p] = {}

\* Nobody is asked offline, and the cache has been read only where it may be.
Retrieved ==
    \A p \in Process :
        /\ ~online[p] => contacted[p] = {}
        /\ source[p] = "cache" =>
              /\ ReadsCache(p) /\ MayBeLookedFor(request[p])
              /\ pc[p] \in {"verify", "store", "done"}

\* Warm evidence is in the cache.
Available(slot) ==
    \/ slot \in Package /\ binding[slot] \in stored
    \/ slot \in Digest /\ \E b \in stored : Sha256[b] = slot

WarmIsCached == \A slot \in warm : Available(slot)

\* A call that began with its evidence warm is underway with it, and has come
\* to fetch it again only where the network is.
ExpectedIsWarm ==
    /\ \A p \in Process : code[p] # "none" => pc[p] = "done"
    /\ \A p \in expected :
          /\ pc[p] # "idle"
          /\ Caches(request[p]) /\ Slot(request[p]) \in warm
          /\ pc[p] = "fetch" => online[p]

IInv ==
    /\ TypeOK
    /\ RequestsMade /\ OnlyFitArchives /\ PinChecked /\ StatusAtEnd /\ Selected
    /\ Retrieved
    /\ VerifiedIsProven /\ CacheHoldsVerified
    /\ WarmIsCached /\ ExpectedIsWarm /\ WarmIsEnough

USE DEF Goto, Finish, cache, process, result, history, Underway, TransportErrors, Codes

-----------------------------------------------------------------------------
(* About requests and errors *)

\* The fields of a request.
LEMMA RequestFields ==
  \A r \in Requests : /\ r.mode \in Modes /\ r.fit \in Fitness
                      /\ r.pin \in Digest \cup {NoPin, BadPin}
                      /\ r.package \in Package
  BY DEF Requests

\* An error of the transport is given a status, never that of a proof.
LEMMA ErrorsHaveStatus ==
  \A c, prefix : c \in TransportErrors =>
                     StatusOf(c, prefix) \in Statuses \ {"none", "verified"}
  BY DEF TransportErrors, StatusOf, Statuses

\* The body that is about to be stored proves its package.
LEMMA StoredIsProven ==
  ASSUME TypeOK, RequestsMade, StatusAtEnd, VerifiedIsProven,
         NEW p \in Process, pc[p] = "store"
  PROVE  /\ request[p].package \in Package
         /\ trust[p] \in Root
         /\ <<body[p], request[p].package, trust[p]>> \in Proves
  <1>1. <<body[p], request[p].package, trust[p]>> \in Proves
    BY DEF StatusAtEnd, VerifiedIsProven
  <1>2. <<body[p], request[p].package, trust[p]>> \in Parsed \X Package \X Root
    BY <1>1, EvidenceAssumption
  <1> QED
    BY <1>1, <1>2

-----------------------------------------------------------------------------
(* One lemma for each part of the invariant: every step preserves it *)

\* The types.
LEMMA NextTypeOK ==
  ASSUME TypeOK, RequestsMade, PinChecked, Selected, [Next]_vars
  PROVE  TypeOK'
  <1>1. ASSUME NEW p \in Process, NEW r \in Asked, Begin(p, r) PROVE TypeOK'
    BY <1>1, EvidenceAssumption DEF TypeOK, Begin
  <1>2. ASSUME NEW p \in Process, Unfit(p) PROVE TypeOK'
    BY <1>2 DEF TypeOK, Unfit, Statuses
  <1>3. ASSUME NEW p \in Process, Select(p) PROVE TypeOK'
    BY <1>3 DEF TypeOK, Select, Statuses
  <1>4. ASSUME NEW p \in Process, LookupHit(p) PROVE TypeOK'
    BY <1>4, ErrorsHaveStatus DEF TypeOK, LookupHit, Take, TransportError,
       Cached
  <1>5. ASSUME NEW p \in Process, LookupMiss(p) PROVE TypeOK'
    BY <1>5 DEF TypeOK, LookupMiss
  <1>6. ASSUME NEW p \in Process, LookupFails(p) PROVE TypeOK'
    BY <1>6 DEF TypeOK, LookupFails
  <1>7. ASSUME NEW p \in Process, FetchOffline(p) PROVE TypeOK'
    BY <1>7, ErrorsHaveStatus DEF TypeOK, FetchOffline, TransportError
  <1>8. ASSUME NEW p \in Process, NEW b \in Body, Fetch(p, b) PROVE TypeOK'
    BY <1>8, ErrorsHaveStatus DEF TypeOK, Fetch, Contact, Take,
       TransportError, Url
  <1>9. ASSUME NEW p \in Process, FetchFails(p) PROVE TypeOK'
    BY <1>9, ErrorsHaveStatus DEF TypeOK, FetchFails, Contact,
       TransportError, Url
  <1>10. ASSUME NEW p \in Process, LackTrust(p) PROVE TypeOK'
    BY <1>10 DEF TypeOK, LackTrust, Statuses
  <1>11. ASSUME NEW p \in Process, Verify(p) PROVE TypeOK'
    BY <1>11 DEF TypeOK, Verify, IsProven, AfterRejection, Statuses
  <1>12. ASSUME NEW p \in Process, Store(p) PROVE TypeOK'
    <2>1. body[p] \in Body /\ request[p] \in Requests /\ MayBeLookedFor(request[p])
      BY <1>12 DEF Store, PinChecked, RequestsMade, Selected
    <2>2. Slot(request[p]) \in Package \cup Digest
      BY <2>1, RequestFields DEF Slot, MayBeLookedFor
    <2>3. binding' \in [Package -> Body \cup {None}]
      BY <1>12, <2>1, RequestFields DEF TypeOK, Store, BoundTo
    <2> QED
      BY <1>12, <2>1, <2>2, <2>3 DEF TypeOK, Store
  <1>13. ASSUME NEW p \in Process, StoreFails(p) PROVE TypeOK'
    BY <1>13 DEF TypeOK, StoreFails, PinChecked
  <1>14. ASSUME NEW p \in Process, Return(p) PROVE TypeOK'
    BY <1>14 DEF TypeOK, Return, Forget, Statuses
  <1>15. ASSUME NEW p \in Process, Restart(p) PROVE TypeOK'
    BY <1>15 DEF TypeOK, Restart, Forget, Statuses
  <1>16. ASSUME NEW p \in Process, NEW root \in Root, ObtainTrust(p, root)
         PROVE  TypeOK'
    BY <1>16 DEF TypeOK, ObtainTrust
  <1>17. CASE Disturb
    BY <1>17, EvidenceAssumption DEF TypeOK, Disturb
  <1>18. CASE UNCHANGED vars
    BY <1>18 DEF TypeOK, vars
  <1> QED
    BY <1>1, <1>2, <1>3, <1>4, <1>5, <1>6, <1>7, <1>8, <1>9, <1>10, <1>11,
       <1>12, <1>13, <1>14, <1>15, <1>16, <1>17, <1>18 DEF Next, Step

\* A call has a request, and goes on only with a fit archive.
LEMMA NextRequests ==
  ASSUME TypeOK, RequestsMade, OnlyFitArchives, [Next]_vars
  PROVE  (RequestsMade /\ OnlyFitArchives)'
  <1>1. ASSUME NEW p \in Process, NEW r \in Asked, Begin(p, r)
         PROVE  (RequestsMade /\ OnlyFitArchives)'
    BY <1>1, EvidenceAssumption DEF TypeOK, RequestsMade, OnlyFitArchives,
       Begin
  <1>2. ASSUME NEW p \in Process, Unfit(p)
         PROVE  (RequestsMade /\ OnlyFitArchives)'
    BY <1>2 DEF TypeOK, RequestsMade, OnlyFitArchives, Unfit
  <1>3. ASSUME NEW p \in Process, Select(p)
         PROVE  (RequestsMade /\ OnlyFitArchives)'
    BY <1>3 DEF TypeOK, RequestsMade, OnlyFitArchives, Select
  <1>4. ASSUME NEW p \in Process, LookupHit(p)
         PROVE  (RequestsMade /\ OnlyFitArchives)'
    BY <1>4 DEF TypeOK, RequestsMade, OnlyFitArchives, LookupHit, Take,
       TransportError
  <1>5. ASSUME NEW p \in Process, LookupMiss(p)
         PROVE  (RequestsMade /\ OnlyFitArchives)'
    BY <1>5 DEF TypeOK, RequestsMade, OnlyFitArchives, LookupMiss
  <1>6. ASSUME NEW p \in Process, LookupFails(p)
         PROVE  (RequestsMade /\ OnlyFitArchives)'
    BY <1>6 DEF TypeOK, RequestsMade, OnlyFitArchives, LookupFails
  <1>7. ASSUME NEW p \in Process, FetchOffline(p)
         PROVE  (RequestsMade /\ OnlyFitArchives)'
    BY <1>7 DEF TypeOK, RequestsMade, OnlyFitArchives, FetchOffline,
       TransportError
  <1>8. ASSUME NEW p \in Process, NEW b \in Body, Fetch(p, b)
         PROVE  (RequestsMade /\ OnlyFitArchives)'
    BY <1>8 DEF TypeOK, RequestsMade, OnlyFitArchives, Fetch, Contact, Take,
       TransportError
  <1>9. ASSUME NEW p \in Process, FetchFails(p)
         PROVE  (RequestsMade /\ OnlyFitArchives)'
    BY <1>9 DEF TypeOK, RequestsMade, OnlyFitArchives, FetchFails, Contact,
       TransportError
  <1>10. ASSUME NEW p \in Process, LackTrust(p)
         PROVE  (RequestsMade /\ OnlyFitArchives)'
    BY <1>10 DEF TypeOK, RequestsMade, OnlyFitArchives, LackTrust
  <1>11. ASSUME NEW p \in Process, Verify(p)
         PROVE  (RequestsMade /\ OnlyFitArchives)'
    BY <1>11 DEF TypeOK, RequestsMade, OnlyFitArchives, Verify, IsProven,
       AfterRejection
  <1>12. ASSUME NEW p \in Process, Store(p)
         PROVE  (RequestsMade /\ OnlyFitArchives)'
    BY <1>12 DEF TypeOK, RequestsMade, OnlyFitArchives, Store, BoundTo
  <1>13. ASSUME NEW p \in Process, StoreFails(p)
         PROVE  (RequestsMade /\ OnlyFitArchives)'
    BY <1>13 DEF TypeOK, RequestsMade, OnlyFitArchives, StoreFails
  <1>14. ASSUME NEW p \in Process, Return(p)
         PROVE  (RequestsMade /\ OnlyFitArchives)'
    BY <1>14 DEF TypeOK, RequestsMade, OnlyFitArchives, Return, Forget
  <1>15. ASSUME NEW p \in Process, Restart(p)
         PROVE  (RequestsMade /\ OnlyFitArchives)'
    BY <1>15 DEF TypeOK, RequestsMade, OnlyFitArchives, Restart, Forget
  <1>16. ASSUME NEW p \in Process, NEW root \in Root, ObtainTrust(p, root)
         PROVE  (RequestsMade /\ OnlyFitArchives)'
    BY <1>16 DEF TypeOK, RequestsMade, OnlyFitArchives, ObtainTrust
  <1>17. CASE Disturb
    BY <1>17 DEF TypeOK, RequestsMade, OnlyFitArchives, Disturb
  <1>18. CASE UNCHANGED vars
    BY <1>18 DEF TypeOK, RequestsMade, OnlyFitArchives, vars
  <1> QED
    BY <1>1, <1>2, <1>3, <1>4, <1>5, <1>6, <1>7, <1>8, <1>9, <1>10, <1>11,
       <1>12, <1>13, <1>14, <1>15, <1>16, <1>17, <1>18 DEF Next, Step

\* What is verified has been compared with the pin.
LEMMA NextPin ==
  ASSUME TypeOK, PinChecked, [Next]_vars
  PROVE  PinChecked'
  <1>1. ASSUME NEW p \in Process, NEW r \in Asked, Begin(p, r)
         PROVE  PinChecked'
    BY <1>1 DEF TypeOK, PinChecked, Begin
  <1>2. ASSUME NEW p \in Process, Unfit(p) PROVE PinChecked'
    BY <1>2 DEF TypeOK, PinChecked, Unfit
  <1>3. ASSUME NEW p \in Process, Select(p) PROVE PinChecked'
    BY <1>3 DEF TypeOK, PinChecked, Select
  <1>4. ASSUME NEW p \in Process, LookupHit(p) PROVE PinChecked'
    BY <1>4 DEF TypeOK, PinChecked, LookupHit, Take, TransportError, Cached
  <1>5. ASSUME NEW p \in Process, LookupMiss(p) PROVE PinChecked'
    BY <1>5 DEF TypeOK, PinChecked, LookupMiss
  <1>6. ASSUME NEW p \in Process, LookupFails(p) PROVE PinChecked'
    BY <1>6 DEF TypeOK, PinChecked, LookupFails
  <1>7. ASSUME NEW p \in Process, FetchOffline(p) PROVE PinChecked'
    BY <1>7 DEF TypeOK, PinChecked, FetchOffline, TransportError
  <1>8. ASSUME NEW p \in Process, NEW b \in Body, Fetch(p, b)
         PROVE  PinChecked'
    BY <1>8 DEF TypeOK, PinChecked, Fetch, Contact, Take, TransportError
  <1>9. ASSUME NEW p \in Process, FetchFails(p) PROVE PinChecked'
    BY <1>9 DEF TypeOK, PinChecked, FetchFails, Contact, TransportError
  <1>10. ASSUME NEW p \in Process, LackTrust(p) PROVE PinChecked'
    BY <1>10 DEF TypeOK, PinChecked, LackTrust
  <1>11. ASSUME NEW p \in Process, Verify(p) PROVE PinChecked'
    BY <1>11 DEF TypeOK, PinChecked, Verify, IsProven, AfterRejection
  <1>12. ASSUME NEW p \in Process, Store(p) PROVE PinChecked'
    BY <1>12 DEF TypeOK, PinChecked, Store, BoundTo
  <1>13. ASSUME NEW p \in Process, StoreFails(p) PROVE PinChecked'
    BY <1>13 DEF TypeOK, PinChecked, StoreFails
  <1>14. ASSUME NEW p \in Process, Return(p) PROVE PinChecked'
    BY <1>14 DEF TypeOK, PinChecked, Return, Forget
  <1>15. ASSUME NEW p \in Process, Restart(p) PROVE PinChecked'
    BY <1>15 DEF TypeOK, PinChecked, Restart, Forget
  <1>16. ASSUME NEW p \in Process, NEW root \in Root, ObtainTrust(p, root)
         PROVE  PinChecked'
    BY <1>16 DEF TypeOK, PinChecked, ObtainTrust
  <1>17. CASE Disturb
    BY <1>17 DEF TypeOK, PinChecked, Disturb
  <1>18. CASE UNCHANGED vars
    BY <1>18 DEF TypeOK, PinChecked, vars
  <1> QED
    BY <1>1, <1>2, <1>3, <1>4, <1>5, <1>6, <1>7, <1>8, <1>9, <1>10, <1>11,
       <1>12, <1>13, <1>14, <1>15, <1>16, <1>17, <1>18 DEF Next, Step

\* Only a call at its end has a status.
LEMMA NextStatus ==
  ASSUME TypeOK, StatusAtEnd, [Next]_vars
  PROVE  StatusAtEnd'
  <1>1. ASSUME NEW p \in Process, NEW r \in Asked, Begin(p, r)
         PROVE  StatusAtEnd'
    BY <1>1 DEF TypeOK, StatusAtEnd, Begin
  <1>2. ASSUME NEW p \in Process, Unfit(p) PROVE StatusAtEnd'
    BY <1>2 DEF TypeOK, StatusAtEnd, Unfit
  <1>3. ASSUME NEW p \in Process, Select(p) PROVE StatusAtEnd'
    BY <1>3 DEF TypeOK, StatusAtEnd, Select
  <1>4. ASSUME NEW p \in Process, LookupHit(p) PROVE StatusAtEnd'
    BY <1>4 DEF TypeOK, StatusAtEnd, LookupHit, Take, TransportError
  <1>5. ASSUME NEW p \in Process, LookupMiss(p) PROVE StatusAtEnd'
    BY <1>5 DEF TypeOK, StatusAtEnd, LookupMiss
  <1>6. ASSUME NEW p \in Process, LookupFails(p) PROVE StatusAtEnd'
    BY <1>6 DEF TypeOK, StatusAtEnd, LookupFails
  <1>7. ASSUME NEW p \in Process, FetchOffline(p) PROVE StatusAtEnd'
    BY <1>7 DEF TypeOK, StatusAtEnd, FetchOffline, TransportError
  <1>8. ASSUME NEW p \in Process, NEW b \in Body, Fetch(p, b)
         PROVE  StatusAtEnd'
    BY <1>8 DEF TypeOK, StatusAtEnd, Fetch, Contact, Take, TransportError
  <1>9. ASSUME NEW p \in Process, FetchFails(p) PROVE StatusAtEnd'
    BY <1>9 DEF TypeOK, StatusAtEnd, FetchFails, Contact, TransportError
  <1>10. ASSUME NEW p \in Process, LackTrust(p) PROVE StatusAtEnd'
    BY <1>10 DEF TypeOK, StatusAtEnd, LackTrust
  <1>11. ASSUME NEW p \in Process, Verify(p) PROVE StatusAtEnd'
    BY <1>11 DEF TypeOK, StatusAtEnd, Verify, IsProven, AfterRejection
  <1>12. ASSUME NEW p \in Process, Store(p) PROVE StatusAtEnd'
    BY <1>12 DEF TypeOK, StatusAtEnd, Store, BoundTo
  <1>13. ASSUME NEW p \in Process, StoreFails(p) PROVE StatusAtEnd'
    BY <1>13 DEF TypeOK, StatusAtEnd, StoreFails
  <1>14. ASSUME NEW p \in Process, Return(p) PROVE StatusAtEnd'
    BY <1>14 DEF TypeOK, StatusAtEnd, Return, Forget
  <1>15. ASSUME NEW p \in Process, Restart(p) PROVE StatusAtEnd'
    BY <1>15 DEF TypeOK, StatusAtEnd, Restart, Forget
  <1>16. ASSUME NEW p \in Process, NEW root \in Root, ObtainTrust(p, root)
         PROVE  StatusAtEnd'
    BY <1>16 DEF TypeOK, StatusAtEnd, ObtainTrust
  <1>17. CASE Disturb
    BY <1>17 DEF TypeOK, StatusAtEnd, Disturb
  <1>18. CASE UNCHANGED vars
    BY <1>18 DEF TypeOK, StatusAtEnd, vars
  <1> QED
    BY <1>1, <1>2, <1>3, <1>4, <1>5, <1>6, <1>7, <1>8, <1>9, <1>10, <1>11,
       <1>12, <1>13, <1>14, <1>15, <1>16, <1>17, <1>18 DEF Next, Step

\* Only what was selected is requested.
LEMMA NextSelected ==
  ASSUME TypeOK, RequestsMade, Selected, [Next]_vars
  PROVE  Selected'
  <1>1. ASSUME NEW p \in Process, NEW r \in Asked, Begin(p, r) PROVE Selected'
    BY <1>1 DEF TypeOK, Selected, Begin
  <1>2. ASSUME NEW p \in Process, Unfit(p) PROVE Selected'
    BY <1>2 DEF TypeOK, Selected, Unfit
  <1>3. ASSUME NEW p \in Process, Select(p) PROVE Selected'
    BY <1>3, RequestFields DEF TypeOK, Selected, Select, RequestsMade,
       MayBeLookedFor, UsesPrefix, Modes
  <1>4. ASSUME NEW p \in Process, LookupHit(p) PROVE Selected'
    BY <1>4 DEF TypeOK, Selected, LookupHit, Take, TransportError
  <1>5. ASSUME NEW p \in Process, LookupMiss(p) PROVE Selected'
    BY <1>5 DEF TypeOK, Selected, LookupMiss
  <1>6. ASSUME NEW p \in Process, LookupFails(p) PROVE Selected'
    BY <1>6 DEF TypeOK, Selected, LookupFails
  <1>7. ASSUME NEW p \in Process, FetchOffline(p) PROVE Selected'
    BY <1>7 DEF TypeOK, Selected, FetchOffline, TransportError
  <1>8. ASSUME NEW p \in Process, NEW b \in Body, Fetch(p, b) PROVE Selected'
    BY <1>8 DEF TypeOK, Selected, Fetch, Contact, Take, TransportError
  <1>9. ASSUME NEW p \in Process, FetchFails(p) PROVE Selected'
    BY <1>9 DEF TypeOK, Selected, FetchFails, Contact, TransportError
  <1>10. ASSUME NEW p \in Process, LackTrust(p) PROVE Selected'
    BY <1>10 DEF TypeOK, Selected, LackTrust
  <1>11. ASSUME NEW p \in Process, Verify(p) PROVE Selected'
    BY <1>11 DEF TypeOK, Selected, Verify, IsProven, AfterRejection
  <1>12. ASSUME NEW p \in Process, Store(p) PROVE Selected'
    BY <1>12 DEF TypeOK, Selected, Store, BoundTo
  <1>13. ASSUME NEW p \in Process, StoreFails(p) PROVE Selected'
    BY <1>13 DEF TypeOK, Selected, StoreFails
  <1>14. ASSUME NEW p \in Process, Return(p) PROVE Selected'
    BY <1>14 DEF TypeOK, Selected, Return, Forget
  <1>15. ASSUME NEW p \in Process, Restart(p) PROVE Selected'
    BY <1>15 DEF TypeOK, Selected, Restart, Forget
  <1>16. ASSUME NEW p \in Process, NEW root \in Root, ObtainTrust(p, root)
         PROVE  Selected'
    BY <1>16 DEF TypeOK, Selected, ObtainTrust
  <1>17. CASE Disturb
    BY <1>17 DEF TypeOK, Selected, Disturb
  <1>18. CASE UNCHANGED vars
    BY <1>18 DEF TypeOK, Selected, vars
  <1> QED
    BY <1>1, <1>2, <1>3, <1>4, <1>5, <1>6, <1>7, <1>8, <1>9, <1>10, <1>11,
       <1>12, <1>13, <1>14, <1>15, <1>16, <1>17, <1>18 DEF Next, Step

\* A call keeps to the network or the cache as it may.
LEMMA NextRetrieved ==
  ASSUME TypeOK, RequestsMade, Selected, Retrieved, [Next]_vars
  PROVE  Retrieved'
  <1>1. ASSUME NEW p \in Process, NEW r \in Asked, Begin(p, r) PROVE Retrieved'
    BY <1>1 DEF TypeOK, Retrieved, ReadsCache, Begin
  <1>2. ASSUME NEW p \in Process, Unfit(p) PROVE Retrieved'
    BY <1>2 DEF TypeOK, Retrieved, ReadsCache, Unfit
  <1>3. ASSUME NEW p \in Process, Select(p) PROVE Retrieved'
    BY <1>3 DEF TypeOK, Retrieved, ReadsCache, Select
  <1>4. ASSUME NEW p \in Process, LookupHit(p) PROVE Retrieved'
    BY <1>4 DEF TypeOK, Retrieved, Selected, ReadsCache, LookupHit, Take, TransportError
  <1>5. ASSUME NEW p \in Process, LookupMiss(p) PROVE Retrieved'
    BY <1>5 DEF TypeOK, Retrieved, ReadsCache, LookupMiss
  <1>6. ASSUME NEW p \in Process, LookupFails(p) PROVE Retrieved'
    BY <1>6 DEF TypeOK, Retrieved, ReadsCache, LookupFails
  <1>7. ASSUME NEW p \in Process, FetchOffline(p) PROVE Retrieved'
    BY <1>7 DEF TypeOK, Retrieved, ReadsCache, FetchOffline, TransportError
  <1>8. ASSUME NEW p \in Process, NEW b \in Body, Fetch(p, b) PROVE Retrieved'
    BY <1>8 DEF TypeOK, Retrieved, ReadsCache, Fetch, Contact, Take, TransportError
  <1>9. ASSUME NEW p \in Process, FetchFails(p) PROVE Retrieved'
    BY <1>9 DEF TypeOK, Retrieved, ReadsCache, FetchFails, Contact, TransportError
  <1>10. ASSUME NEW p \in Process, LackTrust(p) PROVE Retrieved'
    BY <1>10 DEF TypeOK, Retrieved, ReadsCache, LackTrust
  <1>11. ASSUME NEW p \in Process, Verify(p) PROVE Retrieved'
    BY <1>11 DEF TypeOK, Retrieved, ReadsCache, Verify, IsProven, AfterRejection
  <1>12. ASSUME NEW p \in Process, Store(p) PROVE Retrieved'
    BY <1>12 DEF TypeOK, Retrieved, ReadsCache, Store, BoundTo
  <1>13. ASSUME NEW p \in Process, StoreFails(p) PROVE Retrieved'
    BY <1>13 DEF TypeOK, Retrieved, ReadsCache, StoreFails
  <1>14. ASSUME NEW p \in Process, Return(p) PROVE Retrieved'
    BY <1>14 DEF TypeOK, Retrieved, ReadsCache, Return, Forget
  <1>15. ASSUME NEW p \in Process, Restart(p) PROVE Retrieved'
    BY <1>15 DEF TypeOK, Retrieved, ReadsCache, Restart, Forget
  <1>16. ASSUME NEW p \in Process, NEW root \in Root, ObtainTrust(p, root)
         PROVE  Retrieved'
    BY <1>16 DEF TypeOK, Retrieved, ReadsCache, ObtainTrust
  <1>17. CASE Disturb
    BY <1>17 DEF TypeOK, Retrieved, ReadsCache, Disturb
  <1>18. CASE UNCHANGED vars
    BY <1>18 DEF TypeOK, Retrieved, ReadsCache, vars
  <1> QED
    BY <1>1, <1>2, <1>3, <1>4, <1>5, <1>6, <1>7, <1>8, <1>9, <1>10, <1>11,
       <1>12, <1>13, <1>14, <1>15, <1>16, <1>17, <1>18 DEF Next, Step

\* A verdict rests on a proof under the root the process has.
LEMMA NextProven ==
  ASSUME TypeOK, OnlyFitArchives, PinChecked, StatusAtEnd,
         VerifiedIsProven, [Next]_vars
  PROVE  VerifiedIsProven'
  <1>1. ASSUME NEW p \in Process, NEW r \in Asked, Begin(p, r)
         PROVE  VerifiedIsProven'
    BY <1>1 DEF TypeOK, VerifiedIsProven, Begin, StatusAtEnd
  <1>2. ASSUME NEW p \in Process, Unfit(p) PROVE VerifiedIsProven'
    BY <1>2 DEF TypeOK, VerifiedIsProven, Unfit
  <1>3. ASSUME NEW p \in Process, Select(p) PROVE VerifiedIsProven'
    BY <1>3 DEF TypeOK, VerifiedIsProven, Select
  <1>4. ASSUME NEW p \in Process, LookupHit(p) PROVE VerifiedIsProven'
    BY <1>4, ErrorsHaveStatus DEF TypeOK, VerifiedIsProven, LookupHit, Take,
       TransportError, StatusAtEnd
  <1>5. ASSUME NEW p \in Process, LookupMiss(p) PROVE VerifiedIsProven'
    BY <1>5 DEF TypeOK, VerifiedIsProven, LookupMiss
  <1>6. ASSUME NEW p \in Process, LookupFails(p) PROVE VerifiedIsProven'
    BY <1>6 DEF TypeOK, VerifiedIsProven, LookupFails
  <1>7. ASSUME NEW p \in Process, FetchOffline(p) PROVE VerifiedIsProven'
    BY <1>7, ErrorsHaveStatus DEF TypeOK, VerifiedIsProven, FetchOffline,
       TransportError
  <1>8. ASSUME NEW p \in Process, NEW b \in Body, Fetch(p, b)
         PROVE  VerifiedIsProven'
    BY <1>8, ErrorsHaveStatus DEF TypeOK, VerifiedIsProven, Fetch, Contact,
       Take, TransportError, StatusAtEnd
  <1>9. ASSUME NEW p \in Process, FetchFails(p) PROVE VerifiedIsProven'
    BY <1>9, ErrorsHaveStatus DEF TypeOK, VerifiedIsProven, FetchFails,
       Contact, TransportError
  <1>10. ASSUME NEW p \in Process, LackTrust(p) PROVE VerifiedIsProven'
    BY <1>10 DEF TypeOK, VerifiedIsProven, LackTrust
  <1>11. ASSUME NEW p \in Process, Verify(p) PROVE VerifiedIsProven'
    BY <1>11 DEF TypeOK, VerifiedIsProven, Verify, IsProven, AfterRejection,
       OnlyFitArchives, PinChecked, MatchesPin, UsesPrefix
  <1>12. ASSUME NEW p \in Process, Store(p) PROVE VerifiedIsProven'
    BY <1>12 DEF TypeOK, VerifiedIsProven, Store, BoundTo
  <1>13. ASSUME NEW p \in Process, StoreFails(p) PROVE VerifiedIsProven'
    BY <1>13 DEF TypeOK, VerifiedIsProven, StoreFails
  <1>14. ASSUME NEW p \in Process, Return(p) PROVE VerifiedIsProven'
    BY <1>14 DEF TypeOK, VerifiedIsProven, Return, Forget
  <1>15. ASSUME NEW p \in Process, Restart(p) PROVE VerifiedIsProven'
    BY <1>15 DEF TypeOK, VerifiedIsProven, Restart, Forget
  <1>16. ASSUME NEW p \in Process, NEW root \in Root, ObtainTrust(p, root)
         PROVE  VerifiedIsProven'
    BY <1>16, EvidenceAssumption DEF TypeOK, VerifiedIsProven, ObtainTrust
  <1>17. CASE Disturb
    BY <1>17 DEF TypeOK, VerifiedIsProven, Disturb
  <1>18. CASE UNCHANGED vars
    BY <1>18 DEF TypeOK, VerifiedIsProven, vars
  <1> QED
    BY <1>1, <1>2, <1>3, <1>4, <1>5, <1>6, <1>7, <1>8, <1>9, <1>10, <1>11,
       <1>12, <1>13, <1>14, <1>15, <1>16, <1>17, <1>18 DEF Next, Step

\* What is stored has been proved.
LEMMA NextCache ==
  ASSUME TypeOK, RequestsMade, StatusAtEnd, VerifiedIsProven,
         CacheHoldsVerified, [Next]_vars
  PROVE  CacheHoldsVerified'
  <1>1. ASSUME NEW p \in Process, NEW r \in Asked, Begin(p, r)
         PROVE  CacheHoldsVerified'
    BY <1>1 DEF TypeOK, CacheHoldsVerified, Begin
  <1>2. ASSUME NEW p \in Process, Unfit(p) PROVE CacheHoldsVerified'
    BY <1>2 DEF TypeOK, CacheHoldsVerified, Unfit
  <1>3. ASSUME NEW p \in Process, Select(p) PROVE CacheHoldsVerified'
    BY <1>3 DEF TypeOK, CacheHoldsVerified, Select
  <1>4. ASSUME NEW p \in Process, LookupHit(p) PROVE CacheHoldsVerified'
    BY <1>4 DEF TypeOK, CacheHoldsVerified, LookupHit
  <1>5. ASSUME NEW p \in Process, LookupMiss(p) PROVE CacheHoldsVerified'
    BY <1>5 DEF TypeOK, CacheHoldsVerified, LookupMiss
  <1>6. ASSUME NEW p \in Process, LookupFails(p) PROVE CacheHoldsVerified'
    BY <1>6 DEF TypeOK, CacheHoldsVerified, LookupFails
  <1>7. ASSUME NEW p \in Process, FetchOffline(p) PROVE CacheHoldsVerified'
    BY <1>7 DEF TypeOK, CacheHoldsVerified, FetchOffline
  <1>8. ASSUME NEW p \in Process, NEW b \in Body, Fetch(p, b)
         PROVE  CacheHoldsVerified'
    BY <1>8 DEF TypeOK, CacheHoldsVerified, Fetch, Contact
  <1>9. ASSUME NEW p \in Process, FetchFails(p) PROVE CacheHoldsVerified'
    BY <1>9 DEF TypeOK, CacheHoldsVerified, FetchFails, Contact
  <1>10. ASSUME NEW p \in Process, LackTrust(p) PROVE CacheHoldsVerified'
    BY <1>10 DEF TypeOK, CacheHoldsVerified, LackTrust
  <1>11. ASSUME NEW p \in Process, Verify(p) PROVE CacheHoldsVerified'
    BY <1>11 DEF TypeOK, CacheHoldsVerified, Verify, IsProven,
       AfterRejection
  <1>12. ASSUME NEW p \in Process, Store(p) PROVE CacheHoldsVerified'
    <2>1. /\ request[p].package \in Package /\ trust[p] \in Root
          /\ <<body[p], request[p].package, trust[p]>> \in Proves
      BY <1>12, StoredIsProven DEF Store
    <2>2. ASSUME disturbances = 0, NEW b \in stored'
           PROVE  \E k \in Package, root \in Root : <<b, k, root>> \in Proves
      BY <1>12, <2>1, <2>2 DEF CacheHoldsVerified, Store
    <2>3. ASSUME disturbances = 0, NEW k \in Package, binding'[k] # None
           PROVE  \E root \in Root : <<binding'[k], k, root>> \in Proves
      <3>1. \/ binding'[k] = binding[k]
            \/ k = request[p].package /\ binding'[k] = body[p]
        <4>1. CASE UsesPrefix(request[p])
          BY <1>12, <2>1, <4>1 DEF TypeOK, Store, BoundTo
        <4>2. CASE ~UsesPrefix(request[p])
          BY <1>12, <4>2 DEF Store, BoundTo
        <4> QED
          BY <4>1, <4>2
      <3> QED
        BY <2>1, <2>3, <3>1 DEF CacheHoldsVerified
    <2> QED
      BY <1>12, <2>2, <2>3 DEF CacheHoldsVerified, Store
  <1>13. ASSUME NEW p \in Process, StoreFails(p) PROVE CacheHoldsVerified'
    BY <1>13, StoredIsProven DEF TypeOK, CacheHoldsVerified, StoreFails
  <1>14. ASSUME NEW p \in Process, Return(p) PROVE CacheHoldsVerified'
    BY <1>14 DEF TypeOK, CacheHoldsVerified, Return, Forget
  <1>15. ASSUME NEW p \in Process, Restart(p) PROVE CacheHoldsVerified'
    BY <1>15 DEF TypeOK, CacheHoldsVerified, Restart, Forget
  <1>16. ASSUME NEW p \in Process, NEW root \in Root, ObtainTrust(p, root)
         PROVE  CacheHoldsVerified'
    BY <1>16 DEF TypeOK, CacheHoldsVerified, ObtainTrust
  <1>17. CASE Disturb
    BY <1>17, EvidenceAssumption DEF TypeOK, CacheHoldsVerified, Disturb
  <1>18. CASE UNCHANGED vars
    BY <1>18 DEF TypeOK, CacheHoldsVerified, vars
  <1> QED
    BY <1>1, <1>2, <1>3, <1>4, <1>5, <1>6, <1>7, <1>8, <1>9, <1>10, <1>11,
       <1>12, <1>13, <1>14, <1>15, <1>16, <1>17, <1>18 DEF Next, Step

\* A step that leaves the cache alone leaves warm evidence in it.
LEMMA NextWarm ==
  ASSUME TypeOK, RequestsMade, PinChecked, Selected, WarmIsCached, [Next]_vars
  PROVE  WarmIsCached'
  <1>1. ASSUME NEW p \in Process, Store(p) PROVE WarmIsCached'
    <2>0. PICK r : r = request[p]
      OBVIOUS
    <2>1. /\ body[p] \in Body /\ r \in Requests
          /\ MatchesPin(r, body[p]) /\ MayBeLookedFor(r)
      BY <1>1, <2>0 DEF Store, PinChecked, RequestsMade, Selected
    <2>2. r.package \in Package
      BY <2>1, RequestFields
    <2>3. stored' = stored \cup {body[p]} /\ warm' = warm \cup {Slot(r)}
      BY <1>1, <2>0 DEF Store
    <2>4. CASE UsesPrefix(r)
      <3>1. Slot(r) = r.package /\ binding' = [binding EXCEPT ![r.package] = body[p]]
        BY <1>1, <2>0, <2>4 DEF Slot, Store, BoundTo
      <3>2. \A k \in Package : binding'[k] \in {binding[k], body[p]}
        BY <2>2, <3>1 DEF TypeOK
      <3>3. binding'[r.package] = body[p]
        BY <2>2, <3>1 DEF TypeOK
      <3>4. Available(r.package)'
        BY <2>2, <2>3, <3>3 DEF Available
      <3>5. \A slot \in warm : Available(slot)'
        BY <2>3, <3>2 DEF WarmIsCached, Available
      <3> QED
        BY <2>3, <3>1, <3>4, <3>5 DEF WarmIsCached
    <2>5. CASE ~UsesPrefix(r)
      <3>1. Slot(r) = r.pin /\ binding' = binding
        BY <1>1, <2>0, <2>5 DEF Slot, Store, BoundTo
      <3>2. r.pin \in Digest /\ Sha256[body[p]] = r.pin
        BY <2>1, <2>5 DEF MayBeLookedFor, MatchesPin
      <3> QED
        BY <2>3, <3>1, <3>2 DEF WarmIsCached, Available
    <2> QED
      BY <2>4, <2>5
  <1>2. ASSUME NEW p \in Process, StoreFails(p) PROVE WarmIsCached'
    BY <1>2 DEF WarmIsCached, Available, StoreFails
  <1>3. CASE Disturb
    BY <1>3 DEF WarmIsCached, Disturb
  <1>4. CASE UNCHANGED <<stored, binding, warm>>
    BY <1>4 DEF WarmIsCached, Available
  <1> QED
    BY <1>1, <1>2, <1>3, <1>4 DEF Next, Step, Begin, Unfit, Select, LookupHit,
       LookupMiss, LookupFails, FetchOffline, Fetch, FetchFails, Contact,
       LackTrust, Verify, Return, Forget, Restart, ObtainTrust, vars

\* A lookup of warm evidence misses only where the cache is not consulted, and
\* there the network is.
LEMMA WarmIsFound ==
  ASSUME TypeOK, RequestsMade, Selected, WarmIsCached, ExpectedIsWarm,
         NEW p \in expected, LookupMiss(p)
  PROVE  online[p]
  <1> DEFINE r == request[p]
  <1>1. /\ r \in Requests /\ MayBeLookedFor(r) /\ Caches(r)
        /\ Slot(r) \in warm
    BY DEF TypeOK, LookupMiss, RequestsMade, Selected, ExpectedIsWarm
  <1>2. Available(Slot(r)) /\ r.package \in Package
    BY <1>1, RequestFields DEF WarmIsCached
  <1>3. ~ReadsCache(p) \/ Cached(r) = {}
    BY DEF LookupMiss
  <1>4. CASE UsesPrefix(r)
    <2>1. Slot(r) = r.package /\ r.package \notin Digest
      BY <1>2, <1>4, EvidenceAssumption DEF Slot
    <2>2. Cached(r) # {}
      BY <1>2, <1>4, <2>1 DEF Available, Cached
    <2> QED
      BY <1>1, <1>3, <1>4, <2>2 DEF ReadsCache, Caches
  <1>5. CASE ~UsesPrefix(r)
    <2>1. Slot(r) = r.pin /\ r.pin \in Digest /\ r.pin \notin Package
      BY <1>1, <1>5, EvidenceAssumption DEF Slot, MayBeLookedFor
    <2>2. Cached(r) # {}
      BY <1>2, <1>5, <2>1 DEF Available, Cached
    <2> QED
      BY <1>3, <1>5, <2>2 DEF ReadsCache
  <1> QED
    BY <1>4, <1>5

\* A call that finds its evidence warm keeps it.
LEMMA NextExpected ==
  ASSUME TypeOK, RequestsMade, Selected, WarmIsCached, ExpectedIsWarm, [Next]_vars
  PROVE  ExpectedIsWarm'
  <1>1. ASSUME NEW p \in Process, NEW r \in Asked, Begin(p, r)
         PROVE  ExpectedIsWarm'
    BY <1>1 DEF TypeOK, ExpectedIsWarm, Begin
  <1>2. ASSUME NEW p \in Process, Unfit(p)
         PROVE  ExpectedIsWarm'
    BY <1>2 DEF TypeOK, ExpectedIsWarm, Unfit
  <1>3. ASSUME NEW p \in Process, Select(p)
         PROVE  ExpectedIsWarm'
    BY <1>3 DEF TypeOK, ExpectedIsWarm, Select
  <1>4. ASSUME NEW p \in Process, LookupHit(p)
         PROVE  ExpectedIsWarm'
    BY <1>4 DEF TypeOK, ExpectedIsWarm, LookupHit, Take, TransportError
  <1>5. ASSUME NEW p \in Process, LookupMiss(p)
         PROVE  ExpectedIsWarm'
    BY <1>5, WarmIsFound DEF TypeOK, ExpectedIsWarm, LookupMiss
  <1>6. ASSUME NEW p \in Process, LookupFails(p)
         PROVE  ExpectedIsWarm'
    BY <1>6 DEF TypeOK, ExpectedIsWarm, LookupFails
  <1>7. ASSUME NEW p \in Process, FetchOffline(p)
         PROVE  ExpectedIsWarm'
    BY <1>7 DEF TypeOK, ExpectedIsWarm, FetchOffline, TransportError
  <1>8. ASSUME NEW p \in Process, NEW b \in Body, Fetch(p, b)
         PROVE  ExpectedIsWarm'
    BY <1>8 DEF TypeOK, ExpectedIsWarm, Fetch, Contact, Take, TransportError
  <1>9. ASSUME NEW p \in Process, FetchFails(p)
         PROVE  ExpectedIsWarm'
    BY <1>9 DEF TypeOK, ExpectedIsWarm, FetchFails, Contact, TransportError
  <1>10. ASSUME NEW p \in Process, LackTrust(p)
         PROVE  ExpectedIsWarm'
    BY <1>10 DEF TypeOK, ExpectedIsWarm, LackTrust
  <1>11. ASSUME NEW p \in Process, Verify(p)
         PROVE  ExpectedIsWarm'
    BY <1>11 DEF TypeOK, ExpectedIsWarm, Verify, IsProven, AfterRejection
  <1>12. ASSUME NEW p \in Process, Store(p)
         PROVE  ExpectedIsWarm'
    BY <1>12 DEF TypeOK, ExpectedIsWarm, Store
  <1>13. ASSUME NEW p \in Process, StoreFails(p)
         PROVE  ExpectedIsWarm'
    BY <1>13 DEF TypeOK, ExpectedIsWarm, StoreFails
  <1>14. ASSUME NEW p \in Process, Return(p)
         PROVE  ExpectedIsWarm'
    BY <1>14 DEF TypeOK, ExpectedIsWarm, Return, Forget
  <1>15. ASSUME NEW p \in Process, Restart(p)
         PROVE  ExpectedIsWarm'
    BY <1>15 DEF TypeOK, ExpectedIsWarm, Restart, Forget
  <1>16. ASSUME NEW p \in Process, NEW root \in Root, ObtainTrust(p, root)
         PROVE  ExpectedIsWarm'
    BY <1>16 DEF TypeOK, ExpectedIsWarm, ObtainTrust
  <1>17. CASE Disturb
    BY <1>17 DEF TypeOK, ExpectedIsWarm, Disturb
  <1>18. CASE UNCHANGED vars
    BY <1>18 DEF TypeOK, ExpectedIsWarm, vars
  <1> QED
    BY <1>1, <1>2, <1>3, <1>4, <1>5, <1>6, <1>7, <1>8, <1>9, <1>10, <1>11,
       <1>12, <1>13, <1>14, <1>15, <1>16, <1>17, <1>18 DEF Next, Step

\* No such call reports an offline cache miss.
LEMMA NextEnough ==
  ASSUME TypeOK, ExpectedIsWarm, WarmIsEnough, [Next]_vars
  PROVE  WarmIsEnough'
  <1>1. ASSUME NEW p \in Process, NEW r \in Asked, Begin(p, r)
         PROVE  WarmIsEnough'
    BY <1>1 DEF TypeOK, WarmIsEnough, ExpectedIsWarm, Begin
  <1>2. ASSUME NEW p \in Process, Unfit(p)
         PROVE  WarmIsEnough'
    BY <1>2 DEF TypeOK, WarmIsEnough, ExpectedIsWarm, Unfit
  <1>3. ASSUME NEW p \in Process, Select(p)
         PROVE  WarmIsEnough'
    BY <1>3 DEF TypeOK, WarmIsEnough, ExpectedIsWarm, Select
  <1>4. ASSUME NEW p \in Process, LookupHit(p)
         PROVE  WarmIsEnough'
    BY <1>4 DEF TypeOK, WarmIsEnough, ExpectedIsWarm, LookupHit, Take, TransportError
  <1>5. ASSUME NEW p \in Process, LookupMiss(p)
         PROVE  WarmIsEnough'
    BY <1>5 DEF TypeOK, WarmIsEnough, ExpectedIsWarm, LookupMiss
  <1>6. ASSUME NEW p \in Process, LookupFails(p)
         PROVE  WarmIsEnough'
    BY <1>6 DEF TypeOK, WarmIsEnough, ExpectedIsWarm, LookupFails
  <1>7. ASSUME NEW p \in Process, FetchOffline(p)
         PROVE  WarmIsEnough'
    BY <1>7 DEF TypeOK, WarmIsEnough, ExpectedIsWarm, FetchOffline, TransportError
  <1>8. ASSUME NEW p \in Process, NEW b \in Body, Fetch(p, b)
         PROVE  WarmIsEnough'
    BY <1>8 DEF TypeOK, WarmIsEnough, ExpectedIsWarm, Fetch, Contact, Take, TransportError
  <1>9. ASSUME NEW p \in Process, FetchFails(p)
         PROVE  WarmIsEnough'
    BY <1>9 DEF TypeOK, WarmIsEnough, ExpectedIsWarm, FetchFails, Contact, TransportError
  <1>10. ASSUME NEW p \in Process, LackTrust(p)
         PROVE  WarmIsEnough'
    BY <1>10 DEF TypeOK, WarmIsEnough, ExpectedIsWarm, LackTrust
  <1>11. ASSUME NEW p \in Process, Verify(p)
         PROVE  WarmIsEnough'
    BY <1>11 DEF TypeOK, WarmIsEnough, ExpectedIsWarm, Verify, IsProven, AfterRejection
  <1>12. ASSUME NEW p \in Process, Store(p)
         PROVE  WarmIsEnough'
    BY <1>12 DEF TypeOK, WarmIsEnough, ExpectedIsWarm, Store
  <1>13. ASSUME NEW p \in Process, StoreFails(p)
         PROVE  WarmIsEnough'
    BY <1>13 DEF TypeOK, WarmIsEnough, ExpectedIsWarm, StoreFails
  <1>14. ASSUME NEW p \in Process, Return(p)
         PROVE  WarmIsEnough'
    BY <1>14 DEF TypeOK, WarmIsEnough, ExpectedIsWarm, Return, Forget
  <1>15. ASSUME NEW p \in Process, Restart(p)
         PROVE  WarmIsEnough'
    BY <1>15 DEF TypeOK, WarmIsEnough, ExpectedIsWarm, Restart, Forget
  <1>16. ASSUME NEW p \in Process, NEW root \in Root, ObtainTrust(p, root)
         PROVE  WarmIsEnough'
    BY <1>16 DEF TypeOK, WarmIsEnough, ExpectedIsWarm, ObtainTrust
  <1>17. CASE Disturb
    BY <1>17 DEF TypeOK, WarmIsEnough, ExpectedIsWarm, Disturb
  <1>18. CASE UNCHANGED vars
    BY <1>18 DEF TypeOK, WarmIsEnough, ExpectedIsWarm, vars
  <1> QED
    BY <1>1, <1>2, <1>3, <1>4, <1>5, <1>6, <1>7, <1>8, <1>9, <1>10, <1>11,
       <1>12, <1>13, <1>14, <1>15, <1>16, <1>17, <1>18 DEF Next, Step

-----------------------------------------------------------------------------
(* The invariant, and what follows from it *)

\* The invariant holds before any call.
LEMMA InitIInv == Init => IInv
  <1> SUFFICES ASSUME Init PROVE IInv
    OBVIOUS
  <1> USE DEF Init
  <1>1. TypeOK
    BY EvidenceAssumption DEF TypeOK, Statuses
  <1>2. /\ RequestsMade /\ OnlyFitArchives /\ PinChecked /\ StatusAtEnd
        /\ Selected /\ Retrieved
    BY DEF RequestsMade, OnlyFitArchives, PinChecked, StatusAtEnd, Selected,
       Retrieved
  <1>3. VerifiedIsProven /\ CacheHoldsVerified
    BY DEF VerifiedIsProven, CacheHoldsVerified
  <1>4. WarmIsCached /\ ExpectedIsWarm /\ WarmIsEnough
    BY DEF WarmIsCached, ExpectedIsWarm, WarmIsEnough
  <1> QED
    BY <1>1, <1>2, <1>3, <1>4 DEF IInv

\* No step breaks it.
LEMMA NextIInv == IInv /\ [Next]_vars => IInv'
  <1> SUFFICES ASSUME IInv, [Next]_vars PROVE IInv'
    OBVIOUS
  <1>1. /\ TypeOK
        /\ RequestsMade /\ OnlyFitArchives /\ PinChecked /\ StatusAtEnd /\ Selected
        /\ Retrieved /\ VerifiedIsProven /\ CacheHoldsVerified
        /\ WarmIsCached /\ ExpectedIsWarm /\ WarmIsEnough
    BY DEF IInv
  <1>2. TypeOK'
    BY <1>1, NextTypeOK
  <1>3. RequestsMade' /\ OnlyFitArchives'
    BY <1>1, NextRequests
  <1>4. PinChecked' /\ StatusAtEnd' /\ Selected' /\ Retrieved'
    BY <1>1, NextPin, NextStatus, NextSelected, NextRetrieved
  <1>5. VerifiedIsProven' /\ CacheHoldsVerified'
    BY <1>1, NextProven, NextCache
  <1>6. WarmIsCached' /\ ExpectedIsWarm' /\ WarmIsEnough'
    BY <1>1, NextWarm, NextExpected, NextEnough
  <1> QED
    BY <1>2, <1>3, <1>4, <1>5, <1>6 DEF IInv

\* So it holds throughout.
LEMMA AlwaysIInv == Spec => []IInv
  BY InitIInv, NextIInv, PTL DEF Spec

\* What was selected decides which URLs are requested.
LEMMA SelectionDecides == RequestsMade /\ Selected /\ Retrieved => PinIsAuthoritative
  <1> SUFFICES ASSUME RequestsMade, Selected, Retrieved, NEW p \in Process
               PROVE  /\ "v0.sigs" \in contacted[p] =>
                            request[p].mode = "prefix" \/ request[p].pin = NoPin
                      /\ "sigs.digest" \in contacted[p] => request[p].pin \in Digest
                      /\ request[p].mode = "repodata" => "v0.sigs" \notin contacted[p]
                      /\ ~online[p] => contacted[p] = {}
                      /\ online[p] /\ source[p] = "cache" =>
                            request[p].mode # "prefix" /\ request[p].pin # NoPin
    BY DEF PinIsAuthoritative
  <1>1. ~online[p] => contacted[p] = {}
    BY DEF Retrieved
  <1>2. ASSUME online[p], source[p] = "cache"
         PROVE  request[p].mode # "prefix" /\ request[p].pin # NoPin
    <2>1. ~UsesPrefix(request[p]) /\ request[p].pin \in Digest
      BY <1>2 DEF Retrieved, ReadsCache, MayBeLookedFor
    <2> QED
      BY <2>1, EvidenceAssumption DEF UsesPrefix
  <1>3. CASE contacted[p] = {}
    BY <1>1, <1>2, <1>3
  <1>4. CASE contacted[p] # {}
    BY <1>1, <1>2, <1>4, EvidenceAssumption DEF Selected, MayBeLookedFor, Url,
       UsesPrefix
  <1> QED
    BY <1>3, <1>4

\* The types of the state hold.
THEOREM TypesAreRight == Spec => []TypeOK
  BY AlwaysIInv, PTL DEF IInv

\* A verified package is proved by the sidecar in hand, under the root that
\* its process trusts, and by the pinned sidecar where one is pinned.
THEOREM VerdictsAreProved == Spec => []VerifiedIsProven
  BY AlwaysIInv, PTL DEF IInv

\* A pin is never replaced by an adjacent sidecar.
THEOREM PinsAreAuthoritative == Spec => []PinIsAuthoritative
  <1>1. IInv => PinIsAuthoritative
    BY SelectionDecides DEF IInv
  <1> QED
    BY AlwaysIInv, <1>1, PTL

\* Undisturbed, the cache holds sidecars that have verified, and no others.
THEOREM CacheIsOfVerified == Spec => []CacheHoldsVerified
  BY AlwaysIInv, PTL DEF IInv

\* Evidence that a verified call has cached is found by the calls after it.
THEOREM WarmSuffices == Spec => []WarmIsEnough
  BY AlwaysIInv, PTL DEF IInv

\* Calls add to the cache what they have verified; only others take from it.
THEOREM CacheGrowsOnly == Spec => CacheOnlyGrows
  <1>1. ASSUME IInv, Next PROVE CacheStep
    <2> USE <1>1
    <2>1. ASSUME NEW p \in Process, Store(p) \/ StoreFails(p) PROVE CacheStep
      <3>1. /\ status[p] = "verified" /\ request[p].mode # "prefix"
            /\ binding \in [Package -> Body \cup {None}]
            /\ UsesPrefix(request[p]) => request[p].pin = NoPin
        BY <2>1 DEF IInv, TypeOK, StatusAtEnd, Store, StoreFails, Caches, UsesPrefix
      <3>2. CASE stored' = stored /\ UNCHANGED binding
        BY <3>2 DEF CacheStep
      <3>3. CASE stored' = stored \cup {body[p]} /\ UNCHANGED binding
        BY <3>1, <3>3 DEF CacheStep
      <3>4. CASE Store(p) /\ UsesPrefix(request[p])
        <4>1. stored' = stored \cup {body[p]}
          BY <3>4 DEF Store
        <4>2. binding' = [binding EXCEPT ![request[p].package] = body[p]]
          BY <3>4 DEF Store, BoundTo
        <4>3. ASSUME NEW k \in Package, binding'[k] # binding[k]
               PROVE  binding'[k] = body[p] /\ k = request[p].package
          BY <3>1, <4>2, <4>3
        <4> QED
          BY <3>1, <3>4, <4>1, <4>3 DEF CacheStep
      <3> QED
        BY <2>1, <3>2, <3>3, <3>4 DEF Store, StoreFails, BoundTo
    <2>2. CASE Disturb
      BY <2>2 DEF CacheStep, Disturb, IInv, TypeOK
    <2>3. CASE UNCHANGED cache
      BY <2>3 DEF CacheStep
    <2> QED
      BY <1>1, <2>1, <2>2, <2>3 DEF Next, Step, Begin, Unfit, Select, LookupHit,
         LookupMiss, LookupFails, FetchOffline, Fetch, FetchFails, Contact,
         LackTrust, Verify, Return, Forget, Restart, ObtainTrust
  <1>2. ASSUME IInv, [Next]_vars PROVE [CacheStep]_vars
    BY <1>1, <1>2
  <1> QED
    BY AlwaysIInv, <1>2, PTL DEF Spec, CacheOnlyGrows

=============================================================================
