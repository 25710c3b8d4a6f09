# A verification project for conda-sigstore

TLA+ models of conda-sigstore, the runs of TLC that check them, and theorems
about them that the TLA+ proof system (tlapm) has checked.  conda-sigstore signs
conda packages with Sigstore, verifies them when they are installed, and audits
installed environments.  Paths below are relative to `src/conda_sigstore/` of
the repository unless they begin with `docs/`.

## 1. The system

### Components, their state and operations

| component | state | operations | module |
|---|---|---|---|
| `cache.py` `DigestCache` | files `sidecars/<digest>.json` and `artifacts/<key>.sha256`, the record lock `.write-lock` | `store_sidecar`, `store_artifact_sidecar`, `load_sidecar`, `load_artifact_sidecar` | `EvidenceCache` (promise), `DigestCache` |
| `verification.py` `SigstoreVerifier` | `_trust_model`, `_verifier`, `_initialization_lock`, shared by all callbacks of a process | `verify`, `trust_model` | `SigstoreVerifier` |
| `verification.py` `verify_bundles`, `verify_artifact` | the evidence, failures and flags of one call | verify one sidecar against one archive | `BundleVerification` |
| `statements.py`, `provenance.py` | none | what a statement must say | `Statements` |
| `audit.py` `audit_record`, `verify_record_evidence`; `transport.py`; `install.py` | one call per package: request, body, verdict | select, look up, fetch, verify, store | `RecordEvidence` |
| `attestation.py` | archive, output, a temporary file | `create_attestation` | `Attestation` |
| `audit.py` `audit_environment`, `audit_sources` | the report so far; a snapshot of the archive | audit all packages of a prefix, and the source evidence embedded in each | `SourceAudit` |
| `source_attestations.py` | none | requirements of a recipe, embedded bundles, publishers | `SourceRequirements`, `SourceAudit` |
| `source_archive.py` | two byte budgets of a reader and their switch | bounded extraction | `SourceArchive` |
| `settings.py`, `plugin.py`, `exceptions.py`, `cli/` | none of their own | configuration, hooks, error classes, arguments and output | not modelled |

### How they interact

conda calls `InstallVerifier.verify` for each package before it is extracted,
from threads of its own, and `conda sigstore audit` calls
`audit_record` for each package of a prefix.  Both go through
`verify_record_evidence`: it selects the evidence (a sidecar pinned by
`attestations_sha256` in repodata, or Prefix.dev's adjacent `.v0.sigs`), asks
`SidecarTransport` for it (cache, then network), has `verify_bundles` check it
with the verifier of the process, and stores it in the cache once it has
verified.  The cache directory is shared by all conda processes of a user.  The
verifier is shared by all threads of a process.  `create_attestation` signs with
the same libraries but shares nothing with the rest except the file system.
`audit_environment` calls `audit_record` for one record after another and, if it
is asked for source evidence, `audit_sources`, which looks the archive up again,
copies it, has `extract_recipe` take the recipe and its bundles out of the copy,
and has each source of the recipe audited with the verifier of the process.

### What is hard about it

- *Interleaving.*  conda's lock is a POSIX record lock: it excludes processes and
  not threads, and the first thread to leave drops it for its process.  Readers
  take no lock.  The verifier is initialised behind two checks made without its
  lock and one lock that is not reentrant.
- *Crashes and power loss* between the sidecar and the pointer to it, before and
  after a rename, in the middle of an attestation.
- *Staleness.*  Files change between `stat` and `read`; archives between two
  hashes, or between the check of their publication and the copy that is inspected; roots rotate between two processes and between two loads of one process;
  publishers replace adjacent sidecars.
- *Partial failure.*  Trust material is missing for the first bundles of a sidecar
  only; a store fails after the verdict; one bundle of many is malformed; what is
  raised for one package of a prefix ends the audit of all, or does not.
- *Limits* that are counted over declarations nobody has parsed yet, and byte
  budgets that are counted down inside of tarfile's reads.
- *Selection.*  A pin must never give way to the mutable adjacent evidence.

### What makes each component correct

- The cache: nothing torn, nothing lost, no pointer to a sidecar that is not
  there, a load returns bytes that have been hashed, and callers see an atomic map.
- The verifier: one trust model and one verifier for the life of the process,
  verdicts that agree, failures that are not remembered, calls that end.
- The bundle loop: a status that depends on the bundles as a set, and evidence that
  is what has been authenticated.
- The record's evidence: verified means proved by the pinned sidecar under the root
  trusted now; the cache holds what has verified; offline repeats online.
- Attestations: one writer succeeds, nothing is replaced or half written, and the
  statement is about the archive that was read both times.
- Source evidence: only from the bytes whose publication was verified; the
  documented precedence of statuses; a report that says something of every package.
- The extraction: every byte is charged to the right budgets; an archive that breaks
  a documented rule or limit is rejected, and no other (finding 3 is the exception).

`PROJECT.json` lists the hazards one by one with the line where each bites and
the properties that would catch it.

## 2. Modules

### EvidenceCache and DigestCache

`EvidenceCache` is what callers may believe while nobody else touches the
directory: a map from digests to bodies that only grows, a binding of each key
to one kept body, loads that are decided at one instant, and stores that may
take effect in part when they fail.  `DigestCache` has one action for each
system call that something else can fall between: `StartStore` (hash and
compare), `Lock`, `CreateTemp`, `WriteTemp` (write, flush, fsync), `ReplaceFile`,
`Unlock` (the `finally` clause and the end of the lock, going on to the pointer
file or returning), `StartLoad`, `ReadPointer`, `StatSidecar`, `ReadSidecar`, and
the failures `LockFails`, `WriteFails` and `ReadFails`.  A thread that closes the lock
file drops the lock of its whole process, whether it leaves the lock or has failed to
get it (`LockAfterwards`).  `Crash` kills the threads
of a process anywhere and drops its lock; `PowerLoss` goes back to the directory
entries that the kernel had written (`WriteBack`), in which a file that had not
been synced before its rename is empty; `Tamper` overwrites or removes a file.
`MayLock` is the record lock.

The refinement mapping reads the abstract cache off the directory: a body is kept
when it is found under its own digest, a key is bound to the kept body its
pointer names.  A load by key is decided when it reads the pointer: what it will
return is then what the file the pointer names holds (`DecidedAnswer`).
`DigestCacheRefinement` proves that this mapping is right.

### SigstoreVerifier

One action for each access to the shared attributes: `CheckVerifier` and
`CheckModel` outside the lock, `LockForModel`, `Load` (with the repeated check;
a load that raises leaves the lock), `TakeRoot` (the property reads the attribute
again), `LockForVerifier`, `Construct`, `VerifyDsse`.  `Serve` rotates the trust
material or takes it away at any time.  A bundle is valid under some roots and
not under others.

### Statements and BundleVerification

A bundle is a record: does it parse, is it signed, by whom, and what is its
payload.  Each outcome of one turn of the loop in `verify_bundles` is an action
(`RejectMalformedBundle`, `LackTrust`, `RejectSignature`, `NoStatement`,
`PublishAttestation`, `Provenance`, `ProvenanceRaises`, `OtherStatement`);
`Conclude` is the precedence of statuses, `HashArchive` and `RehashArchive` are the
two hashes of `verify_artifact`, `HashFails` their OSError, `Rewrite` is somebody who writes the archive
between them.  Trust material may be missing for some first bundles, and then be
there: what the loop sees of `SigstoreVerifier`, whose `TrustIsFixed` says that it
does not go away again.  A digest that is not ASCII is `Uncomparable`: comparing it
raises, and no clause around the comparison catches that.

### RecordEvidence

One call per process, as many calls as one likes: `Unfit` (absent or different
archive, by `InstallVerifier.verify` and `audit_record`), `Select`, `LookupHit`,
`LookupMiss`, `LookupFails`, `Fetch`, `FetchFails`, `FetchOffline`, `LackTrust`,
`Verify`, `Store`, `StoreFails`, `Return`.  A request has a mode (install, audit by
repodata, audit by adjacent sidecars), a pin (a digest, none, or one that is not
a digest), a URL that may be unusable, and an archive that may not be the
recorded one.  The network answers every request with any body or an error;
`Proves` says which body proves which package under which root.  The cache is the
one `EvidenceCache` specifies, at the granularity of its calls, and the verifier
the one `SigstoreVerifier` specifies: a root that is obtained once
(`ObtainTrust`) and stays until the process ends (`Restart`).  A call may end
without a verdict, by an exception.

### Attestation

Callers of `create_attestation`, each a process: the checks, the two hashes
(`HashFails` for any error in either),
signing and local verification, the temporary file, the exclusive `os.link`, the
`finally` clause.  `ChangePackage` rewrites or removes the archive,
`ChangeOutput` creates or removes an output, `Crash` ends a caller anywhere.

### SourceRequirements and SourceAudit

`SourceRequirements` has the functions of `source_attestations.py`: the parsing of
publishers (`Publisher`) and of a source's declaration (`Requirement`), which list
is counted and which is parsed (`Counted`, `ParsedItems`), the verdict on one
embedded bundle (`BundleVerdict`), `PublisherMatches` over identities that are
sequences of tokens, and `SourceStatus`.  A declaration is a record with its parts
or `Malformed` at any level.

`SourceAudit` is the loop of `audit_environment`.  For each record:
`FindArchive`, `FindNoArchive`, `HashArchive`, `VerifyEvidence` (`audit_record`;
what it asks of `verify_record_evidence` is one step with the outcomes
`RecordEvidence` specifies) and `RecordFails` (the two exceptions that become
results); then `CheckPublication`, `Locate`, `StatArchive`, `OpenArchive`,
`CopyBlock`, `EndCopy`, `ExtractRecipe`, `SnapshotFails` (`audit_sources`),
`CountSource`, `EndCount`, `ParseSource`, `EndParse` (`from_recipe`),
`AuditBundle`, `BundleUnavailable`, `ConcludeRequirement`, `EndRequirements`; and
`Report`.  `ChangeArchive` overwrites, replaces or removes an archive at any step:
overwriting shows in a file that is open, the others do not.  The digest of a record
may be missing, empty (`Empty`, which `audit_record` takes for missing and
`VerificationResult` for malformed), malformed, or not ASCII.  An exception that
nothing catches leads to `"aborted"`.

`DocumentedStatus` is the specification of a source's status: the table of
`docs/reference/json-output.md`, said of the bundles as a set and without the
order in which the code looks at them; `Acceptable` and `StandsFor` say what
`docs/reference/source-attestations.md` asks of a bundle and of a signer.

### SourceArchive

A package is its container, and a tar stream that may end anywhere: its entries
with their type, number of header blocks and size, and the bytes there are.  Two of
the types are headers that tarfile cannot parse: `"damaged"` (a wrong checksum, an
extended header with a record that is none) and `"headless"` (an extended header that
no header follows).  `ReadBlock` is one `ArchiveReader.read` with its budgets, as large
as tarfile asks for (a block); `InspectMember` is the body of the loop in
`extract_recipe` up to the drain or the copy, `EndSkip` and `EndBody` are their ends,
with the switch back to reading metadata.  `OpenContainer` is the ZIP part of a
`.conda`; `EndOfStream`, `EndOfArchive` and `UnparsedHeader` are how tarfile takes an
end of the input, a block of zeros, and a header it cannot parse; `Fail` is an OSError.

tarfile raises for a bad first header, and for an end inside of a payload or inside of
an extended header.  A later header of which the first block is cut off, or which is
damaged, it takes for the end of the archive (`TakenForEnd`), and `extract_recipe` does
not notice.

`OutcomeIsExact` compares the result with a specification of the archive as a whole:
where each member ends and what is parsed up to there are sums over all members before
it (`Ends`, `Costs`), and the members present are those whose headers are in the stream
and can be parsed, up to the first that is not (`Count`).  What the documentation asks
for is `SoundContainer`, `WithinBudgets`, `SoundMembers` and `EndsWell`: zeros follow
the last member, or nothing does, and decompression does not fail.  What the code admits
beyond it is a name of its own, `EndsUnnoticed`, and `MalformedIsInvalid` is the
documented rule without it, which finding 3 shows violated.

### Conventions

A definition whose name says that something is slipped (`NamedByProcess`,
`FoundUnchecked`, `HeldAfterFailure`, ...) stands just before the definition it is a
faulty variant of.  No other definition uses it.  For every property of every run
`PROJECT.json` names the variant which, put in the place of the right definition,
makes that property fail: this shows that the property can fail.

The `MC` modules define the instances of the constants, the `.cfg` files
choose among them.

## 3. Runs

| run | what it asks | bounds |
|---|---|---|
| `CacheThreads` | is `EvidenceCache` implemented, with no stray files, when the lock does not exclude; is the lock always let go of | two threads of one process, one key, two bodies, any crashes and I/O errors |
| `CacheDisturbed` | do writers of different processes exclude each other, is the lock released, do pointers lead somewhere; are files whole after a power loss, do loads check what they read | two processes of one thread, one key and one body, a size limit that admits it and one that does not, one power loss and one change by others at any step, any crashes and I/O errors |
| `Verifier` | one trust, one verifier, agreeing verdicts; do calls end | two threads; a root that is replaced, its replacement and one that no verifier can be built from; three bundles: each valid root has one that only it accepts, one is malformed |
| `Bundles` | is the status the documented one, is each bundle reported, is a verified archive a published one | every pair of 17 kinds of bundle, with and without a required signer, three supplied channels, two names, trust that comes before any bundle, one rewrite of the archive, and an archive that cannot be read |
| `SiblingRaises` | may a bundle that cannot be compared deny the verdict of its valid sibling (finding 1) | as `Bundles`, without rewrites |
| `EvidenceSelection` | proven, and pinned if anything is pinned; is the cache of verified sidecars only; do calls end | one process that restarts with and without network and with either of two roots; two packages, three bodies (two sidecars, one that is none), all requests, one disturbance of the cache |
| `EvidenceSharing` | what does one process' cache do for another | two processes, one package, two sidecars that only one root each accepts, pinned and not |
| `AttestationRace` | one writer, nothing replaced, nothing half written | two callers, two outputs and the archive's own path as the output, three changes of the archive, one change of an output |
| `SourceEvidence` | does source evidence come from verified bytes, has it the documented status, is it bounded, is every package reported | up to two records with every archive or none, of which one kind is never published, and with every kind of digest; recipes with any two of 11 bundles, publishers of every form, one malformed declaration of every kind, and up to four sources with counts at and over limits of 2, 3 and 5; two changes of archives at any step; archives of two and three blocks with a limit of two |
| `ArchiveRemoved` | does a missing archive only cost its own package its source evidence (finding 2) | as `SourceEvidence`, one change |
| `SourceArchives` | is every byte charged to the right budgets; is exactly what the documentation admits extracted, save for an end that tarfile mistakes | every archive of up to two members of 17 kinds, of three of 8 kinds and of four of 2, three kinds of headers that cannot be parsed among them, cut off at each of 20 lengths, torn or not; 13 containers; blocks of 2 bytes, budgets of 16 and 9 bytes, 3 members |
| `DamagedHeader` | is an archive with a member's header cut off or damaged invalid (finding 3) | as `SourceArchives` |

Two of everything that competes is enough for the cases above to happen, since
each hazard has two parties (a writer and a writer or reader, an initialiser and
another, an old root and a new one, an audit and someone who changes its archive).
The bounds that are counters (`MaxTampering`, `MaxOutages`, `MaxRewrites`,
`MaxDisturbances`, `MaxChanges`, `MaxRemovals`, `MaxBundles`) bound what the
environment does, not the code; the theorems below do not depend on them.  Two
changes of archives are enough to swap one between its hash and its copy and to
swap it back, or to disturb two records.  The small limits of `SourceEvidence` and
`SourceArchives` are parameters; each is met exactly, and exceeded by one, by
several of the recipes and archives.  Claims about an undisturbed directory
(`tampering = 0`) are stated so.

`Bundles`, `SiblingRaises`, `SourceEvidence`, `ArchiveRemoved`, `SourceArchives` and
`DamagedHeader` end: a call returns.  The other models go on for ever, and TLC checks that they
never stop.

### Findings

1. `SiblingRaises`, verification.py:399: `hmac.compare_digest` raises `TypeError` for
   a text that is not ASCII, and the digest of a subject is any text.  A bundle by the
   required signer whose SLSA provenance has such a subject digest ends
   `verify_bundles` with that exception, although another bundle of the sidecar is
   valid; docs/explanation/design.md:52 says that a single valid publish attestation
   suffices.  source_attestations.py:122 compares the same way, with the same effect
   on an audit (`SourceAudit`'s escape `"comparison"`).
2. `ArchiveRemoved`, audit.py:313: `archive.stat()` is outside of the `try` in
   `audit_sources`, which is itself called outside of the `try` in
   `audit_environment`.  An archive removed after `is_file` ends the audit of the
   whole prefix; docs/reference/source-attestations.md:56 says that a missing archive
   produces `evidence-unavailable`.
3. `DamagedHeader`, source_archive.py:133: iterating over a tarfile just ends at a header
   that is cut off within its first block or has a wrong checksum, unless it is the
   first.  The recipe and the bundles before it are extracted and audited as if they
   were all there is; docs/reference/source-attestations.md:54-55 says that a malformed
   archive produces an `invalid` source result.  (The bytes are those of a package whose
   publication has been verified, so this is about what its publisher packed.)

### Fairness

- `DigestCache`: each thread is weakly fair (`Step(t)`).  The lock is taken with a
  timeout in conda, which `LockFails` models, so that a thread waiting for it always
  has a step to take; nothing is assumed about who gets the lock.  Crashes,
  restarts and calls are not fair.  `LockIsLetGo` rests on the fairness of the thread
  that is inside the lock alone: a process that keeps it for ever could only do so by
  a thread that retries, or that ends without its `finally` clause.
- `SigstoreVerifier`: each thread is weakly fair, and a load over the network comes
  back (it answers or raises).  `threading.Lock` promises no order among those who
  wait, so a thread could lose the lock to others for ever while their loads keep
  failing; `CallsEndOnceServed` therefore has the premise that trust material
  stays available from some time on, and that what has been loaded is of use.
  `SomeCallEnds` needs neither.
- `RecordEvidence`: each call is weakly fair: requests are made with timeouts.
- No liveness is claimed of the other modules.  They are loops over finite lists,
  and `SourceAudit` and `SourceArchive` may fail at nearly every step.

## 4. Theorems

tlapm checks these for every value of the constants that satisfies the assumption
of the module (`CacheAssumption`, `VerifierAssumption`, `BundleAssumption`,
`EvidenceAssumption`, `AttestationAssumption`, `RequirementAssumption` with
`AuditAssumption`, `ArchiveAssumption`): the constants have the types one
expects and the names that stand for "none" are not among the values.  One theorem,
that of the refinement, assumes more and says so.  There is no bound on threads, processes, bodies, bundles, sidecars, packages, recipes or
archives, nor on what others do.  Each proof defines an inductive invariant (in
`SourceAuditProofs` by the names of its parts), has a lemma for the initial states
and one for each part of the invariant with a step for each action, and derives the
properties from it.

- **`DigestCacheProofs`**: `TypesAreRight`, `FilesAreWhole` (`NoTornFiles`),
  `PointersNeverDangle` (`PointersLead`), `TempsAreRemoved`, `LoadsAreChecked`,
  `LockIsReleased`, `WritersAreApart`, `FilesNeverVanish`.  `NoTornFiles` is not
  inductive: a rename is safe because the temporary file is whole and synced
  (`TempsWhole`) and the thread has come to the file its call writes
  (`StoresOnTheirWay`).  `PointersLead` needs `SidecarFirst`: a thread
  that is writing a pointer has stored its sidecar, and nobody takes it away.
  Nowhere does the argument use the lock except for `WritersExclude` itself: the
  files are whole because of private temporary files and renames.
- **`DigestCacheRefinement`**: `CacheKeepsItsPromise`, that `DigestCache` implements
  `EvidenceCache` under the mapping of `ImplementsPromise`: the initial states
  map to initial ones, and every step to a step or a stutter.  It assumes that
  nobody else changes the directory and the power does not fail (`Undisturbed`:
  `MaxTampering` and `MaxOutages` are 0; the promise is made for that case, and
  `CacheDisturbed` and `DigestCacheProofs` cover the others), and that no two bodies
  have one SHA-256 (`NoCollisions`: the second of two such bodies would never be
  stored).  The run `CacheThreads` satisfies both.  Processes die anywhere, any I/O
  fails.  The invariant (`RInv`) adds to that of `DigestCacheProofs` that sidecars
  are bodies (`SidecarsAreBodies`), that threads do what they have been called for
  (`CallsCarriedOut`), that answers come at the end (`AnsweredWhenDone`), and that
  a load by key which has read the pointer finds the sidecar (`FindsSucceed`); in it
  the abstract cache has a plain reading (`Meaning`).  Then `RenamedSidecarKeeps`
  and `RenamedPointerBinds` are the two steps that change the map,
  `ReadPointerMaps` is the one that decides a load by key, and every other step of a
  call is hidden or decides its own answer.
- **`SigstoreVerifierProofs`**: `TypesAreRight`, `LockIsExclusive`, `OneTrust`,
  `OneVerdictPerBundle`, `ReadyStaysReady`, `TrustNeverChanges`.  The invariant
  says what a thread knows after each check it made without the lock: a root it has
  taken is the trust model (`RootsTaken`), so that whoever constructs the
  verifier constructs the same one.
- **`BundleVerificationProofs`**: `TypesAreRight`, `StatusIsDocumented`,
  `VerifiedWasPublished`, `NoEvidenceUnsigned`, `BundlesAreReported`.  The invariant reads the three
  flags of the loop as statements about the bundles behind the index (`FlagInv`);
  at the end these are all bundles (`LoopInv`), and the precedence in the code is
  the one documented in `docs/reference/json-output.md`, whatever the order.
  `ReportInv` says of every bundle behind the index that the report has its
  evidence or its failure; results are only added to (`ResultGrows`), so no later
  bundle takes that away.
- **`RecordEvidenceProofs`**: `TypesAreRight`, `VerdictsAreProved`,
  `PinsAreAuthoritative`, `CacheIsOfVerified`, `CacheGrowsOnly`, `WarmSuffices`.
  The invariant
  follows a call: only fit archives pass selection, what is verified has been
  compared with the pin (`PinChecked`), what is stored has been proved under the
  root the process still has (`StatusAtEnd` with `VerifiedIsProven`), and only
  what was selected is requested (`Selected`).  For `WarmSuffices`, what has once
  verified stays available while nobody else changes the cache (`WarmIsCached`),
  and a call that began with its evidence available fetches it again only where
  the network is (`ExpectedIsWarm`).
- **`AttestationProofs`**: `TypesAreRight`, `OneCallerSucceeds`,
  `AttestationIsTrue`, `TempsAreRemoved`, `OutputsAreNeverReplaced`,
  `ArchiveIsNeverWritten`.  The last one holds although the check that the output is
  not the archive is made long before the link: the path of the output does not
  change, and that it is not the archive's is part of the invariant
  (`OutputIsNotPackage`).
- **`SourceAuditProofs`**: `TypesAreRight`, `SourcesAreOfVerifiedBytes`,
  `ReportsAreComplete`, `DeclarationsBounded`, `SourcesAreDocumented`.  `Traced`
  follows one record: a publication that is verified is that of `hashed`, and what
  is extracted is `hashed` because the copy was compared with it, whatever the
  path has led to meanwhile.  `Told` says it of the records before.  For the status,
  `Listing` says that requirements are those of the sources parsed so far, in order,
  and `Auditing` that the outcomes so far are the verdicts of the bundles so far;
  `StatusIsDocumented` then has the precedence over outcomes agree with the
  documented table over bundles, by `VerdictIsDeserved` and `MatchesIsStandsFor`.
  `Bounded` ties the running count to what parsing can consume.
- **`SourceArchiveProofs`**: `TypesAreRight`, `BudgetsHold`, `CopiesAreAdmitted`,
  `ExtractionIsExact`, `DamageIsTheException`.  The invariant adds that the switch is off exactly
  within a member's payload (`Switch`), and that a budget which is left is never
  passed by more than the one byte that `Asked` adds (`ReadIsCapped`).
  `CopiesAreAdmitted`, for any archive: whatever is copied is a selected regular
  file within its limit, under a name no other copied file has when case is
  ignored.  `ExtractionIsExact` is the strongest: for any archive and any
  limits the reader, which decides block by block, extracts exactly the archives
  that are sound as a whole, or sound up to an end that tarfile mistakes
  (`EndsUnnoticed`).  `DamageIsTheException` draws the line to the documentation from
  it: no archive that keeps every rule is refused, and whatever else is extracted
  is malformed at its end and nowhere else.  `Located` says that tarfile stands where the members
  before it end, and that their headers are in the stream; `Accounted` that what has
  been read on the way to a member is what the specification charges for these
  members; `SeenIsCopied` and `ContainerPassed` that nothing is refused for a name
  that has not been copied, nor opened in an unsound container.  Headers and
  payloads are whole blocks and reads return whole blocks or the rest of the
  stream, so no read passes the end of the header or payload it is for
  (`WholeGap`, `ReadsUpToTarget`).  A reader that has come to an end has counted
  all members before it (`LastIsCounted`), and all of an accepted archive can be
  read up to there (`AcceptedHeaderIsRead`, `AcceptedPayloadIsRead`).  An accepted
  archive is therefore never refused, whether for a budget, for an end of the stream,
  for a header or for a member (`ReadOutIsRefused`, `CutOffIsRefused`,
  `UnparsedIsRefused`, `RefusedIsUnsound`), and what is extracted is accepted
  (`ExtractedPasses`).  The sums are recursive functions; what they need of
  induction is `Induction`, over sets of numbers, which follows from the
  well-foundedness of inclusion among finite sets (`SumsAdd`, `SumsGrow`,
  `CountIsLast`).

Every safety property of the passing runs is proved, for `ImplementsPromise` under
the two assumptions above.  Only model-checked: the liveness properties (the
prover does not reason about fairness and ENABLED), `LockIsLetGo` of the cache,
`CallsEnd` of the record's evidence, `CallsEndOnceServed` and `SomeCallEnds` of the verifier.

## 5. Assumptions, and what is left out

- The record lock, `rename`, `link` and `fsync` do what POSIX says; Windows is not
  modelled.  mkstemp finds a free name.  A temporary file that can be
  created can be removed.  Files left under random names by a dead process are not
  kept in the models, since no code path looks at them.
- sigstore-python, conda's record lock, `PackageCacheData` and `compute_sum` are
  external: whether a bundle verifies under a root, and what a certificate names,
  are constants.  SHA-256 is modelled without collisions: a digest is a function of
  the content, and each run's instance gives every body one of its own.
- tarfile, zipfile and the decompressors are external.  Of tarfile the model has
  that it reads in blocks, never seeks back, takes an end of the input where headers
  would begin, inside the first block of one, or a damaged header for the end of the
  archive unless it is the first, and skips payloads of unknown types itself.  All
  damage to a header that tarfile detects is of one of the two kinds `Unparsed`.  An
  archive that stops behind a member without a block of zeros is read as well formed,
  in the code and in `EndsWell`.
- `compute_sum` of an archive is one step; the copy by `audit_sources` is a step for
  each block.  An archive that was replaced between the two gives `invalid` (EndCopy):
  the bytes differ from those that were verified.
- `EmbeddedSourceBundle.audit` is given its verifier by the caller: that trust
  material is missing for one bundle and there for the next is left open
  (`BundleUnavailable`).  `ParsedItems` is what is parsed at most: parsing stops at
  the first malformed declaration.
- Symbolic links beside an embedded bundle are not modelled: `extract_recipe` creates
  regular files only.
- JSON, YAML, URL and channel decoding, filename checks and the texts of failures are
  abstracted to their outcome (parses, names a package, is a usable URL).
- `audit_sources` refuses a record whose file name has no extension of a package
  (audit.py:320-322).  Not modelled: a verified statement names the package, by a name
  with such an extension, so this concerns only a record whose name in the statement
  has been taken from an explicit URL; the result would be one more `invalid` without
  a source.
- Every caller passes a size limit of its own to the loads of the cache
  (transport.py:287, 330).  `DigestCache` has these limits; `RecordEvidence` has one
  limit for all, under which every cached body stays: a cached body that is a miss for
  a caller with a smaller limit is not modelled there, and `WarmIsEnough` speaks of
  callers with one limit.
- `SigstoreVerifier.shared()` is cached by `functools.cache`, which does not lock
  while the factory runs; the model is of one instance.
- Settings, plugin hooks, exception classes and the command line keep no state.
  `cli/verify.py` loads a sidecar from a file and calls `verify_artifact`, which is
  modelled.

## 6. Plan

Done, in this order: the cache and its promise; the verifier; the bundle loop;
record evidence over both; attestations; the source requirements; the audit of a
prefix and of its source evidence; the extraction; proofs about each.

Next:

- Composition: `RecordEvidence` over `DigestCache` in place of the call-level
  cache, and `SourceAudit` over `RecordEvidence` in place of its `VerifyEvidence`, as
  far as the state space allows.
