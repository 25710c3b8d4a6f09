-------------------------- MODULE SourceRequirements --------------------------
(***************************************************************************)
(* source_attestations.py: what a source of a rendered recipe requires of   *)
(* the Sigstore bundles that are embedded beside the recipe, and what a     *)
(* bundle, and all the bundles of a source together, are worth.             *)
(*                                                                         *)
(* A source as it is declared is Malformed (no mapping), or a record: does  *)
(* it have a URL and no other origin, its digest, and its attestation.  The *)
(* attestation is None, Malformed, or a record: its publishers and verified *)
(* lists (a single publisher string is a list of one; what is no list is    *)
(* Malformed) and its predicateType.  Whatever is Malformed raises a        *)
(* ValueError where the code comes to it.                                   *)
(*                                                                         *)
(* An identity is a sequence of tokens, "/" and "@" among them, cut so that *)
(* identities that share a beginning share its tokens.                      *)
(***************************************************************************)
EXTENDS Statements

CONSTANTS
    Token,              \* what identities and repositories are made of
    CaseFold,           \* [Token -> Token]: casefold
    Absent,             \* no file under a path
    NotInToto,          \* a payload of some other DSSE payload type
    MaxPublishers,      \* MAX_SOURCE_PUBLISHERS
    MaxBundles,         \* MAX_SOURCE_BUNDLES
    MaxSources,         \* MAX_RECIPE_SOURCES
    MaxDeclarations     \* MAX_RECIPE_DECLARATIONS

ASSUME RequirementAssumption ==
    /\ {"https://", "github.com", "gitlab.com", "/"} \subseteq Token
    /\ CaseFold \in [Token -> Token]
    /\ {MaxPublishers, MaxBundles, MaxSources, MaxDeclarations} \subseteq Nat
    /\ None # Malformed

Https == "https://"

-----------------------------------------------------------------------------
(* Publishers.  Just before some definitions stands a faulty variant of them,
   a slip the code could have made; the properties are tried against it. *)

\* The hosted providers that publishers may be named by.
Providers ==
    [github |-> [root   |-> <<Https, "github.com">>,
                 issuer |-> "https://token.actions.githubusercontent.com"],
     gitlab |-> [root   |-> <<Https, "gitlab.com">>,
                 issuer |-> "https://gitlab.com"]]

\* An owner and a repository, or a longer path, with no empty part in it.
IsRepository(path) ==
    /\ \E i \in DOMAIN path : path[i] = "/"
    /\ \A i \in DOMAIN path :
          path[i] = "/" => i \notin {1, Len(path)} /\ path[i + 1] # "/"

\* A publisher is an explicit identity with its issuer, a shorthand, or the
\* mapping that a shorthand is rendered to, which is turned into one again.
Publisher(value) ==
    IF value = Malformed THEN Malformed
    ELSE IF value.form = "explicit"
    THEN [identity |-> value.identity, issuer |-> value.issuer]
    ELSE LET path == IF value.form = "shorthand" THEN value.path
                     ELSE <<value.owner, "/", value.repo>>
         IN  IF value.ref # None \/ value.provider \notin DOMAIN Providers
                \/ ~IsRepository(path)
             THEN Malformed
             ELSE [identity |-> Providers[value.provider].root \o <<"/">> \o path,
                   issuer   |-> Providers[value.provider].issuer]

Folded(identity) == [i \in DOMAIN identity |-> CaseFold[identity[i]]]

Begins(long, short) ==
    Len(short) <= Len(long) /\ \A i \in DOMAIN short : long[i] = short[i]

\* publisher_matches: an identity on the web stands for what lies under it.
PublisherMatches(expected, actual) ==
    LET publisher == Folded(expected.identity)
        identity  == Folded(actual.identity)
    IN  /\ expected.issuer = actual.issuer
        /\ IF expected.identity[1] # Https
           THEN expected.identity = actual.identity
           ELSE \/ identity = publisher
                \/ /\ Begins(identity, publisher) /\ Len(identity) > Len(publisher)
                   /\ identity[Len(publisher) + 1] \in {"/", "@"}

-----------------------------------------------------------------------------
(* Declarations *)

IsList(list) == Len(list) \in Nat /\ DOMAIN list = 1..Len(list)

IsPublisher(value) ==
    /\ value.form \in {"explicit", "shorthand", "rendered"}
    /\ value.form = "explicit"  => value.identity \in Seq(Token)
    /\ value.form = "shorthand" => value.path \in Seq(Token)
    /\ value.form = "rendered"  => {value.owner, value.repo} \subseteq Token

IsAttestation(attestation) ==
    /\ attestation.publishers # Malformed =>
          /\ IsList(attestation.publishers)
          /\ \A i \in DOMAIN attestation.publishers :
                attestation.publishers[i] # Malformed =>
                    IsPublisher(attestation.publishers[i])
    /\ attestation.verified # Malformed => IsList(attestation.verified)

\* What a recipe is, and the files beside it.
IsRecipe(recipe) ==
    /\ IsList(recipe.sources)
    /\ \A i \in DOMAIN recipe.sources :
          LET source == recipe.sources[i] IN
          (source # Malformed /\ source.attestation \notin {None, Malformed})
              => IsAttestation(source.attestation)
    /\ \A path \in DOMAIN recipe.files :
          /\ recipe.files[path] # Absent
          /\ recipe.files[path].signer.identity \in Seq(Token)

ListLength(list) == IF list = Malformed THEN 0 ELSE Len(list)

\* from_recipe counts what each source declares before anything is parsed,
\* repeated and malformed declarations too.
CountedBundles(source) ==
    IF source = Malformed \/ source.attestation \in {None, Malformed} THEN 0
    ELSE ListLength(source.attestation.verified)
Counted(source) ==
    IF source = Malformed \/ source.attestation \in {None, Malformed} THEN 0
    ELSE ListLength(source.attestation.publishers)
            + ListLength(source.attestation.verified)

\* At most these declarations of a source are handed to the parsers of publishers
\* and of descriptors: a list that is too long is not, nor what follows it.
ParsedItems(source) ==
    IF source = Malformed \/ source.attestation \in {None, Malformed} THEN 0
    ELSE LET publishers == ListLength(source.attestation.publishers)
             bundles    == ListLength(source.attestation.verified)
         IN  IF publishers > MaxPublishers THEN 0
             ELSE publishers + IF bundles > MaxBundles THEN 0 ELSE bundles

\* from_source: the requirement that a source declares, None, or Malformed.
Requirement(source) ==
    IF source = Malformed THEN Malformed
    ELSE LET attestation == source.attestation IN
    IF attestation = None THEN None
    ELSE IF \/ attestation = Malformed \/ ~source.url
            \/ source.sha256 = Malformed
            \/ ListLength(attestation.publishers) \notin 1..MaxPublishers
            \/ attestation.predicateType = Malformed
            \/ attestation.verified = Malformed
            \/ ListLength(attestation.verified) > MaxBundles
            \/ \E i \in DOMAIN attestation.publishers :
                  Publisher(attestation.publishers[i]) = Malformed
            \/ \E i \in DOMAIN attestation.verified :
                  attestation.verified[i] = Malformed
         THEN Malformed
         ELSE [sha256        |-> source.sha256,
               publishers    |-> [i \in DOMAIN attestation.publishers |->
                                     Publisher(attestation.publishers[i])],
               predicateType |-> attestation.predicateType,
               bundles       |-> attestation.verified]

-----------------------------------------------------------------------------
(* Verdicts *)

\* EmbeddedSourceBundle.audit: a file of the recipe, with its own digest, and
\* of a bundle as in BundleVerification whether it parses, whether Sigstore
\* verifies it, its signer and payload.  A comparison that raises (as in
\* Statements) is not caught here either.
BundleVerdict(requirement, descriptor, files) ==
    LET file == IF descriptor.path \in DOMAIN files THEN files[descriptor.path]
                ELSE Absent
    IN  CASE file = Absent -> "missing"
          [] file # Absent
             /\ (file.sha256 # descriptor.sha256 \/ ~file.parses \/ ~file.signed
                 \/ file.payload \in {NotInToto, Malformed}) -> "invalid"
          [] OTHER ->
             CASE requirement.predicateType \notin {None, file.payload.predicateType}
                      -> "invalid"
               [] requirement.predicateType \in {None, file.payload.predicateType} ->
                  IF ComparisonRaises(file.payload, requirement.sha256) THEN "raised"
                  ELSE IF BindsSha256(file.payload, requirement.sha256)
                       THEN "verified" ELSE "invalid"

\* The signers of the bundles that were found verified.
Signers(requirement, outcomes, files) ==
    {files[requirement.bundles[i].path].signer :
        i \in {j \in DOMAIN outcomes : outcomes[j] = "verified"}}

\* SourceAttestationRequirement.audit: the status of a source follows from
\* what its bundles came out as, in this order of precedence.
Matched(requirement, signers) ==
    {i \in DOMAIN requirement.publishers :
        \E s \in signers : PublisherMatches(requirement.publishers[i], s)}

AnyPublisher(requirement, signers) == Matched(requirement, signers) # {}
EveryPublisher(requirement, signers) ==
    Matched(requirement, signers) = DOMAIN requirement.publishers

SourceStatus(requirement, outcomes, signers) ==
    LET some(verdict) == \E i \in DOMAIN outcomes : outcomes[i] = verdict IN
    IF outcomes = <<>> \/ some("missing") THEN "missing"
    ELSE IF some("invalid") THEN "invalid"
    ELSE IF some("evidence-unavailable") THEN "evidence-unavailable"
    ELSE IF ~EveryPublisher(requirement, signers) THEN "untrusted-identity"
    ELSE "verified"
=============================================================================
