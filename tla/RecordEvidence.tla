---------------------------- MODULE RecordEvidence ----------------------------
(***************************************************************************)
(* How an install callback or an audit comes to its verdict on one package: *)
(* InstallVerifier.verify (install.py), EnvironmentAuditor.audit_record and *)
(* verify_record_evidence (audit.py), and SidecarTransport (transport.py),  *)
(* several processes at a time over one evidence cache and one server.      *)
(*                                                                         *)
(* Repodata may pin the sidecar of a package by digest; the pinned sidecar  *)
(* never changes.  Without a pin, Prefix.dev's adjacent .v0.sigs file is    *)
(* used, whose content the publisher may change at any time, so the server  *)
(* answers every request with whatever it likes.  The cache is the one that *)
(* EvidenceCache specifies, at the granularity of its calls: a load answers *)
(* in one step, and a store that fails may have taken effect in part.       *)
(***************************************************************************)
EXTENDS Naturals, FiniteSets

CONSTANTS
    Process,    \* conda processes
    Package,    \* archives: a filename, a digest and a channel
    Body,       \* what a sidecar request may return
    Digest,
    Sha256,     \* the digest of a body
    Parsed,     \* the bodies that are sidecars
    Root,       \* trusted roots a process may work under
    Proves,     \* <<body, package, root>>: verify_bundles says verified
    NoPin,      \* repodata has no attestations_sha256 for the package
    BadPin,     \* it has one that is not a lowercase SHA-256
    None,
    Asked,      \* the requests that are made
    MaxDisturbances \* how often others change the cache

\* fit is what is known before any evidence is looked for: of an archive to be
\* installed, that it is the one the record names, under a usable digest; of
\* an installed package, that its archive is retained and is the recorded one.
Modes    == {"install", "repodata", "prefix"}
Fitness  == {"fit", "absent", "different"}
Requests ==
    {r \in [mode : Modes, package : Package, pin : Digest \cup {NoPin, BadPin},
            url : BOOLEAN, fit : Fitness] :
        r.mode = "install" => r.fit # "absent"}

ASSUME EvidenceAssumption ==
    /\ Asked \subseteq Requests
    /\ Sha256 \in [Body -> Digest]
    /\ Parsed \subseteq Body
    /\ Proves \subseteq Parsed \X Package \X Root
    /\ NoPin \notin Digest /\ BadPin \notin Digest /\ NoPin # BadPin
    /\ None \notin Body \cup Package \cup Root \cup Digest
    /\ Digest \cap Package = {}
    /\ MaxDisturbances \in Nat

VARIABLES
    pc,         \* where the call of each process is
    online,     \* whether the process runs with the network
    trust,      \* the root its verifier was built from, or None so far
    request,    \* the package, how evidence is to be found, and the record
    body,       \* the sidecar in hand
    status, code,   \* the result: its status and the failure that explains it
    stored,     \* the cache: bodies available by digest
    binding,    \*   and the body each package is bound to
    disturbances,
    contacted,  \* history: the URLs a call has requested
    source,     \* history: where the body in hand comes from
    warm,       \* history: the evidence that a finished call left in the cache
    expected    \* history: the calls that began with their evidence warm

cache   == <<stored, binding>>
process == <<online, trust>>
result  == <<status, code>>
history == <<contacted, source, warm, expected>>
vars    == <<pc, process, request, body, result, cache, disturbances, history>>

NoRequest == [mode |-> "none", package |-> None, pin |-> NoPin,
              url |-> FALSE, fit |-> "absent"]

Statuses == {"none", "verified", "missing", "retrieval-failed", "invalid",
             "record-digest-only", "evidence-unavailable", "rejected", "raised"}

\* The codes a result may carry: those of a TransportError (an injected fetcher,
\* which could raise others, is not modelled), and those of the other outcomes.
TransportErrors == {"missing-sidecar", "offline-cache-miss", "digest-mismatch",
                    "retrieval-failed", "sidecar-too-large", "invalid-sidecar"}

Codes == TransportErrors \cup
    {"none", "unsupported", "record-digest-only", "artifact-digest-mismatch",
     "missing-attestations", "invalid-attestations-sha256", "invalid-url",
     "evidence-unavailable", "invalid", "invalid-bundle", "raised"}

Init ==
    /\ pc = [p \in Process |-> "idle"]
    /\ online \in [Process -> BOOLEAN]
    /\ trust \in [Process -> Root \cup {None}]
    /\ request = [p \in Process |-> NoRequest]
    /\ body = [p \in Process |-> None]
    /\ status = [p \in Process |-> "none"]
    /\ code = [p \in Process |-> "none"]
    /\ stored = {} /\ binding = [k \in Package |-> None]
    /\ disturbances = 0
    /\ contacted = [p \in Process |-> {}]
    /\ source = [p \in Process |-> "none"]
    /\ warm = {} /\ expected = {}

Goto(p, label) == pc' = [pc EXCEPT ![p] = label]

Finish(p, s, c) ==
    /\ Goto(p, "done")
    /\ status' = [status EXCEPT ![p] = s]
    /\ code' = [code EXCEPT ![p] = c]

-----------------------------------------------------------------------------
(* Selecting the evidence.  Just before some definitions stands a faulty
   variant of them, a slip the code could have made; the properties are tried
   against it. *)

UsesPrefixUnlessUsable(r) ==
    r.mode = "prefix" \/ (r.mode = "install" /\ r.pin \notin Digest)
UsesPrefix(r) == r.mode = "prefix" \/ (r.mode = "install" /\ r.pin = NoPin)

\* The entry of the cache that belongs to a request: by digest for a pinned
\* sidecar, by package for an adjacent one.
Slot(r) == IF UsesPrefix(r) THEN r.package ELSE r.pin

CachesEverything(r) == TRUE
Caches(r) == ~UsesPrefix(r) \/ r.mode = "install"

Begin(p, r) ==
    /\ pc[p] = "idle"
    /\ Goto(p, "select")
    /\ request' = [request EXCEPT ![p] = r]
    /\ expected' = IF Caches(r) /\ Slot(r) \in warm
                   THEN expected \cup {p} ELSE expected
    /\ UNCHANGED <<process, body, result, cache, disturbances, contacted,
                   source, warm>>

\* InstallVerifier.verify and audit_record decide by themselves about an
\* archive that is absent, or not the one the record names.
Unfit(p) ==
    LET r == request[p] IN
    /\ pc[p] = "select"
    /\ \/ /\ r.mode = "install" /\ r.fit # "fit"
          /\ Finish(p, "rejected", "unsupported")
       \/ /\ r.mode # "install" /\ r.fit = "absent"
          /\ Finish(p, "record-digest-only", "record-digest-only")
       \/ /\ r.mode # "install" /\ r.fit = "different"
          /\ Finish(p, "invalid", "artifact-digest-mismatch")
    /\ UNCHANGED <<process, request, body, cache, disturbances, history>>

Select(p) ==
    LET r == request[p] IN
    /\ pc[p] = "select" /\ r.fit = "fit"
    /\ CASE r.mode = "repodata" /\ r.pin = NoPin ->
               Finish(p, "missing", "missing-attestations")
         [] ~UsesPrefix(r) /\ r.pin = BadPin ->
               Finish(p, "invalid", "invalid-attestations-sha256")
         [] (UsesPrefix(r) \/ r.pin \in Digest) /\ ~r.url ->
               Finish(p, "invalid", "invalid-url")
         [] OTHER -> Goto(p, "lookup") /\ UNCHANGED result
    /\ UNCHANGED <<process, request, body, cache, disturbances, history>>

-----------------------------------------------------------------------------
(* load_repodata, load_prefix, fetch and parse *)

\* The status verify_record_evidence gives to an error of the transport.
StatusUnmapped(c, prefix) ==
    IF c = "missing-sidecar" /\ prefix THEN "missing" ELSE c
StatusOf(c, prefix) ==
    CASE c = "missing-sidecar" /\ prefix -> "missing"
      [] c = "offline-cache-miss" -> "evidence-unavailable"
      [] \/ c \in {"digest-mismatch", "retrieval-failed", "sidecar-too-large"}
         \/ c \in {"missing-sidecar", "invalid-sidecar"} /\ ~prefix
           -> "retrieval-failed"
      [] OTHER -> "invalid"

RetriedError(p, c) == Goto(p, "lookup") /\ UNCHANGED result
TransportError(p, c) == Finish(p, StatusOf(c, UsesPrefix(request[p])), c)

\* A body in hand is compared with the pin and parsed.
MatchesAnyPin(r, b) == TRUE
MatchesPin(r, b) == UsesPrefix(r) \/ Sha256[b] = r.pin

Take(p, b, from) ==
    /\ IF ~MatchesPin(request[p], b) THEN TransportError(p, "digest-mismatch")
       ELSE IF b \notin Parsed THEN TransportError(p, "invalid-sidecar")
       ELSE Goto(p, "verify") /\ UNCHANGED result
    /\ body' = [body EXCEPT ![p] = b]
    /\ source' = [source EXCEPT ![p] = from]

\* The pinned cache is consulted always, the adjacent one only by an install
\* that runs offline.
ReadsCache(p) ==
    LET r == request[p] IN
    ~UsesPrefix(r) \/ (r.mode = "install" /\ ~online[p])

Cached(r) ==
    IF UsesPrefix(r)
    THEN {binding[r.package]} \cap stored
    ELSE {b \in stored : Sha256[b] = r.pin}

LookupHit(p) ==
    /\ pc[p] = "lookup" /\ ReadsCache(p)
    /\ \E b \in Cached(request[p]) : Take(p, b, "cache")
    /\ UNCHANGED <<process, request, cache, disturbances, contacted, warm,
                   expected>>

LookupMiss(p) ==
    /\ pc[p] = "lookup"
    /\ ~ReadsCache(p) \/ Cached(request[p]) = {}
    /\ Goto(p, "fetch")
    /\ UNCHANGED <<process, request, body, result, cache, disturbances, history>>

\* A cache that cannot be read is taken for an empty one.
LookupFails(p) ==
    /\ pc[p] = "lookup" /\ ReadsCache(p)
    /\ Goto(p, "fetch")
    /\ expected' = expected \ {p}
    /\ UNCHANGED <<process, request, body, result, cache, disturbances,
                   contacted, source, warm>>

FetchOffline(p) ==
    /\ pc[p] = "fetch" /\ ~online[p]
    /\ TransportError(p, "offline-cache-miss")
    /\ UNCHANGED <<process, request, body, cache, disturbances, history>>

Url(r) == IF UsesPrefix(r) THEN "v0.sigs" ELSE "sigs.digest"

Contact(p) ==
    /\ pc[p] = "fetch" /\ online[p]
    /\ contacted' = [contacted EXCEPT ![p] = @ \cup {Url(request[p])}]
    /\ UNCHANGED <<process, request, cache, disturbances, warm, expected>>

Fetch(p, b) == Contact(p) /\ Take(p, b, "network")

\* The server has no such file, the connection fails, or the body exceeds
\* what the settings allow.
FetchFails(p) ==
    /\ Contact(p)
    /\ \E c \in {"missing-sidecar", "retrieval-failed", "sidecar-too-large"} :
          TransportError(p, c)
    /\ UNCHANGED <<body, source>>

-----------------------------------------------------------------------------
(* Verifying and storing *)

\* Trust material may be missing; once obtained it stays with the process.
\* A sidecar of malformed bundles only is invalid without it.
LackTrust(p) ==
    /\ pc[p] = "verify" /\ trust[p] = None
    /\ \E s \in {"evidence-unavailable", "invalid"} : Finish(p, s, s)
    /\ UNCHANGED <<process, request, body, cache, disturbances, history>>

IsProven(p) == <<body[p], request[p].package, trust[p]>> \in Proves

StoresUnverified == "store"
AfterRejection == "done"

\* verify_bundles rejects the sidecar, or ends in an exception that the call
\* does not catch (BundleVerification!ProvenanceRaises).
Verify(p) ==
    /\ pc[p] = "verify" /\ trust[p] # None
    /\ IF IsProven(p)
       THEN /\ status' = [status EXCEPT ![p] = "verified"]
            /\ Goto(p, IF Caches(request[p]) THEN "store" ELSE "done")
            /\ UNCHANGED code
       ELSE /\ \E s \in {"invalid", "raised"} :
                  /\ status' = [status EXCEPT ![p] = s]
                  /\ code' = [code EXCEPT ![p] =
                                 IF s = "invalid" THEN "invalid-bundle" ELSE s]
            /\ Goto(p, AfterRejection)
    /\ UNCHANGED <<process, request, body, cache, disturbances, history>>

BoundToNothing(r, b) == binding
BoundTo(r, b) ==
    IF UsesPrefix(r) THEN [binding EXCEPT ![r.package] = b] ELSE binding

Store(p) ==
    /\ pc[p] = "store"
    /\ stored' = stored \cup {body[p]}
    /\ binding' = BoundTo(request[p], body[p])
    /\ warm' = warm \cup {Slot(request[p])}
    /\ Goto(p, "done")
    /\ UNCHANGED <<process, request, body, result, disturbances, contacted,
                   source, expected>>

\* An OSError is ignored: the verdict stands.  The body may be there already
\* without the pointer to it.
StoreFails(p) ==
    /\ pc[p] = "store"
    /\ stored' \in {stored, stored \cup {body[p]}}
    /\ Goto(p, "done")
    /\ UNCHANGED <<process, request, body, result, binding, disturbances, history>>

Forget(p) ==
    /\ Goto(p, "idle")
    /\ request' = [request EXCEPT ![p] = NoRequest]
    /\ body' = [body EXCEPT ![p] = None]
    /\ status' = [status EXCEPT ![p] = "none"]
    /\ code' = [code EXCEPT ![p] = "none"]
    /\ contacted' = [contacted EXCEPT ![p] = {}]
    /\ source' = [source EXCEPT ![p] = "none"]
    /\ expected' = expected \ {p}
    /\ UNCHANGED <<cache, disturbances, warm>>

Return(p) == pc[p] = "done" /\ Forget(p) /\ UNCHANGED process

-----------------------------------------------------------------------------
(* The environment *)

ObtainTrust(p, root) ==
    /\ trust[p] = None
    /\ trust' = [trust EXCEPT ![p] = root]
    /\ UNCHANGED <<pc, online, request, body, result, cache, disturbances, history>>

\* The process ends, wherever its call is; a later one is started with or
\* without the network, and under the trusted root of its day.
Restart(p) ==
    /\ \E on \in BOOLEAN : online' = [online EXCEPT ![p] = on]
    /\ trust' = [trust EXCEPT ![p] = None]
    /\ Forget(p)

\* Others remove a body or a pointer, or point a package at any other body
\* (a file that does not have its digest is a miss: DigestCache!LoadsRecheck).
Disturb ==
    /\ disturbances < MaxDisturbances
    /\ disturbances' = disturbances + 1
    /\ \/ \E b \in Body : stored' = stored \ {b} /\ UNCHANGED binding
       \/ /\ \E k \in Package, b \in Body \cup {None} :
                binding' = [binding EXCEPT ![k] = b]
          /\ UNCHANGED stored
    /\ warm' = {} /\ expected' = {}
    /\ UNCHANGED <<pc, process, request, body, result, contacted, source>>

-----------------------------------------------------------------------------
Step(p) ==
    \/ Unfit(p) \/ Select(p)
    \/ LookupHit(p) \/ LookupMiss(p) \/ LookupFails(p)
    \/ FetchOffline(p) \/ FetchFails(p) \/ \E b \in Body : Fetch(p, b)
    \/ LackTrust(p) \/ Verify(p) \/ Store(p) \/ StoreFails(p) \/ Return(p)

Next ==
    \/ \E p \in Process :
          \/ Step(p) \/ Restart(p)
          \/ \E r \in Asked : Begin(p, r)
          \/ \E root \in Root : ObtainTrust(p, root)
    \/ Disturb

Spec == Init /\ [][Next]_vars

\* Calls run on; a request of the network is answered or times out.
FairSpec == Spec /\ \A p \in Process : WF_vars(Step(p))

-----------------------------------------------------------------------------
(* Properties *)

TypeOK ==
    /\ pc \in [Process -> {"idle", "select", "lookup", "fetch", "verify", "store",
                          "done"}]
    /\ online \in [Process -> BOOLEAN] /\ trust \in [Process -> Root \cup {None}]
    /\ request \in [Process -> Requests \cup {NoRequest}]
    /\ body \in [Process -> Body \cup {None}]
    /\ status \in [Process -> Statuses] /\ code \in [Process -> Codes]
    /\ stored \subseteq Body /\ binding \in [Package -> Body \cup {None}]
    /\ disturbances \in 0..MaxDisturbances
    /\ contacted \in [Process -> SUBSET {"v0.sigs", "sigs.digest"}]
    /\ source \in [Process -> {"none", "cache", "network"}]
    /\ warm \subseteq Package \cup Digest
    /\ expected \subseteq Process

\* A package is verified only by a sidecar that proves it under the root this
\* process trusts now, wherever the sidecar comes from and whoever else has
\* accepted it, cached it or pointed the package at it; and only by the one
\* repodata pins, if repodata pins one.
VerifiedIsProven ==
    \A p \in Process : status[p] = "verified" =>
        LET r == request[p] IN
        /\ <<body[p], r.package, trust[p]>> \in Proves
        /\ r.fit = "fit"
        /\ r.mode # "prefix" /\ r.pin # NoPin => Sha256[body[p]] = r.pin

\* A present attestations_sha256 never falls back to .v0.sigs, be it invalid,
\* be its sidecar gone or wrong (docs/reference/upstream-contracts.md), and
\* repodata without one never leads an audit to look for a sidecar.  An offline
\* process leaves the network alone, and an online one never takes an adjacent
\* sidecar from the cache, where it may have been superseded.
PinIsAuthoritative ==
    \A p \in Process :
        /\ "v0.sigs" \in contacted[p] =>
              request[p].mode = "prefix" \/ request[p].pin = NoPin
        /\ "sigs.digest" \in contacted[p] => request[p].pin \in Digest
        /\ request[p].mode = "repodata" => "v0.sigs" \notin contacted[p]
        /\ ~online[p] => contacted[p] = {}
        /\ online[p] /\ source[p] = "cache" =>
              request[p].mode # "prefix" /\ request[p].pin # NoPin

\* Sidecars enter the cache only once they have verified
\* (docs/explanation/security-model.md): without outside interference every
\* body in it proves some package, and the one a package is bound to proves
\* that package.
CacheHoldsVerified ==
    disturbances = 0 =>
        /\ \A b \in stored : \E k \in Package, root \in Root : <<b, k, root>> \in Proves
        /\ \A k \in Package :
              binding[k] # None => \E root \in Root : <<binding[k], k, root>> \in Proves

\* What a verified install or audit has cached is there for a later call of
\* any process: one that begins after it never reports an offline cache miss,
\* unless the cache was disturbed or could not be read meanwhile
\* (docs/how-to/offline.md: prepare online, repeat offline).
WarmIsEnough == \A p \in expected : code[p] # "offline-cache-miss"

\* Only a verified call changes the cache, by adding the sidecar it verified;
\* an audit of adjacent sidecars never changes it.
CacheStep ==
    \/ UNCHANGED cache
    \/ disturbances' # disturbances
    \/ /\ \E p \in Process :
             /\ status[p] = "verified" /\ request[p].mode # "prefix"
             /\ stored' = stored \cup {body[p]}
             /\ \A k \in Package : binding'[k] # binding[k] =>
                    /\ binding'[k] = body[p] /\ k = request[p].package
                    /\ request[p].pin = NoPin

CacheOnlyGrows == [][CacheStep]_vars

\* Every call comes to a verdict, or ends with its process.
CallsEnd == \A p \in Process : pc[p] # "idle" ~> pc[p] = "idle"
=============================================================================
