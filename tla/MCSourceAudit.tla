----------------------------- MODULE MCSourceAudit -----------------------------
(* Instances of SourceAudit for TLC.  An archive is a header block and a block
   that says what recipe is inside: one source with any two of the bundles
   below, publishers of every form, and recipes of several sources at and over
   the limits.  The same files lie beside every recipe. *)
EXTENDS SourceAudit, TLC

CONSTANTS header, s1, s2, main

Actions == "https://token.actions.githubusercontent.com"

Identity(repository) == <<Https, "github.com", "/", "acme", "/">> \o repository

Ci      == [identity |-> Identity(<<"tool", "/", "ci.yml", "@", "main">>), issuer |-> Actions]
Similar == [identity |-> Identity(<<"tool", "-extra", "/", "ci.yml">>), issuer |-> Actions]
Alice   == [identity |-> <<"alice@example.org">>, issuer |-> "idp"]

MCToken == {Https, "github.com", "gitlab.com", "/", "@", "acme", "Acme", "tool",
            "-extra", "ci.yml", "main", "group", "alice@example.org"}
MCCaseFold == [t \in MCToken |-> IF t = "Acme" THEN "acme" ELSE t]

Shorthand(provider, path, ref) ==
    [form |-> "shorthand", provider |-> provider, path |-> path, ref |-> ref]
Tool     == Shorthand("github", <<"acme", "/", "tool">>, None)
Rendered == [form |-> "rendered", provider |-> "github", owner |-> "Acme",
             repo |-> "tool", ref |-> None]
Group    == Shorthand("gitlab", <<"group", "/", "acme", "/", "tool">>, None)
Person   == [form |-> "explicit", identity |-> Alice.identity, issuer |-> "idp"]
Owner    == [form |-> "explicit", identity |-> <<Https, "github.com", "/", "acme">>,
             issuer |-> Actions]
Stranger == [form |-> "explicit", identity |-> Alice.identity, issuer |-> Actions]

BadPublishers ==
    {Malformed, Shorthand("github", <<"acme", "/", "tool">>, main),
     Shorthand("codeberg", <<"acme", "/", "tool">>, None),
     Shorthand("github", <<"acme">>, None), Shorthand("github", <<"acme", "/">>, None)}

Statement(kind, digests) ==
    [predicateType |-> kind, predicate |-> None,
     subjects |-> [i \in DOMAIN digests |->
                      [name |-> "source", digest |-> ("sha256" :> digests[i])]]]
File(name, signer, payload) ==
    [sha256 |-> name, parses |-> TRUE, signed |-> TRUE, signer |-> signer,
     payload |-> payload]

MCFiles ==
    ("ci"      :> File("ci", Ci, Statement(Slsa, <<s2, s1>>))) @@
    ("similar" :> File("similar", Similar, Statement(Slsa, <<s1>>))) @@
    ("alice"   :> File("alice", Alice, Statement(Other, <<s1>>))) @@
    ("forged"  :> [File("forged", Ci, Statement(Slsa, <<s1>>)) EXCEPT !.signed = FALSE]) @@
    ("garbage" :> [File("garbage", Ci, Malformed) EXCEPT !.parses = FALSE]) @@
    ("text"    :> File("text", Ci, NotInToto)) @@
    ("other"   :> File("other", Ci, Statement(Slsa, <<s2>>))) @@
    ("nothing" :> File("nothing", Ci, Statement(Slsa, <<>>))) @@
    ("strange" :> File("strange", Ci, Statement(Slsa, <<Uncomparable, s1>>)))

Listed(path) == [path |-> path, sha256 |-> path]
Descriptors ==
    {Listed(path) : path \in DOMAIN MCFiles}
        \cup {Listed("absent"), [path |-> "ci", sha256 |-> "alice"]}

Source(publishers, verified, predicateType) ==
    [url |-> TRUE, sha256 |-> s1,
     attestation |-> [publishers |-> publishers, verified |-> verified,
                      predicateType |-> predicateType]]
Plain == [url |-> TRUE, sha256 |-> s1, attestation |-> None]
CiOnly == Source(<<Tool>>, <<Listed("ci")>>, None)
Bare   == Source(<<Tool>>, <<>>, None)

\* One source: any two bundles, any publishers, anything malformed.
SingleSources ==
    {Source(<<Tool>>, bundles, None) :
        bundles \in {<<>>} \cup {<<d>> : d \in Descriptors} \cup (Descriptors \X Descriptors)}
    \cup {Source(publishers, <<Listed("ci"), Listed("alice")>>, None) :
            publishers \in {<<p, q>> : p, q \in {Tool, Rendered, Group, Person, Owner, Stranger}}}
    \cup {Source(<<p>>, <<Listed("similar")>>, Slsa) : p \in {Tool, Owner} \cup BadPublishers}
    \cup {Source(<<Person>>, <<Listed("alice")>>, kind) : kind \in {Slsa, Other, Malformed}}
    \cup {Source(Malformed, <<>>, None), Source(<<>>, <<>>, None),
          Source(<<Tool>>, Malformed, None), Source(<<Tool>>, <<Malformed>>, None),
          [CiOnly EXCEPT !.url = FALSE], [CiOnly EXCEPT !.sha256 = Malformed],
          [CiOnly EXCEPT !.attestation = Malformed], Malformed}

\* Several sources, with more or fewer declarations than are allowed.
Recipes ==
    {<<source>> : source \in SingleSources} \cup
    {<<>>, <<CiOnly, Plain, Bare>>, <<Malformed, Bare>>, <<Bare, CiOnly, Bare>>,
     <<CiOnly, CiOnly, Bare>>, <<CiOnly, CiOnly, CiOnly>>,
     <<Malformed, CiOnly, CiOnly, Bare>>, <<Source(Malformed, <<>>, None), CiOnly>>,
     <<Source(<<Tool, Tool, Tool>>, <<>>, None)>>,
     <<Source(<<Tool>>, <<Listed("ci"), Listed("ci"), Listed("ci")>>, None)>>,
     <<Plain, Plain, Plain, Plain>>}

Package(recipe) == <<header, recipe>>
Packages   == {Package(r) : r \in Recipes}
Unreadable == <<header, header>>
NoRecipe   == <<header>>
Rebuilt    == <<main, <<CiOnly, Bare>>>>
MCBlock    == {header, main, <<CiOnly, Bare>>} \cup Recipes
Large      == <<header, header, header>>
MCContent   == Packages \cup {Unreadable, NoRecipe, Large, Rebuilt}
MCPublished == MCContent \ {Rebuilt}
MCInside ==
    [c \in MCContent |->
        CASE c \in Packages \cup {Rebuilt} -> [sources |-> c[2], files |-> MCFiles]
          [] c = NoRecipe -> None
          [] OTHER -> Malformed]

Good == Package(<<CiOnly>>)
MCReplacement == {Good, Large, Rebuilt}
Installed(sha256, content) == [sha256 |-> sha256, archive |-> content]
MCEnvironments ==
    {<<Installed(None, c)>> : c \in MCContent}
        \cup {<<>>, <<Installed(Good, Good), Installed(None, Absent)>>,
              <<Installed(None, Absent), Installed(Good, Good)>>,
              <<Installed(NoRecipe, Good), Installed(Malformed, Good)>>,
              <<Installed(Good, Good), Installed(Malformed, Absent)>>,
              <<Installed(Empty, Good)>>, <<Installed(Empty, Absent)>>,
              <<Installed(None, NoRecipe), Installed(Uncomparable, Good)>>}
=============================================================================
