------------------------ MODULE MCBundleVerification ------------------------
(* Instances of BundleVerification for TLC: two archive contents and names,
   two signers, two channels of which one is not a valid target channel, and
   a bundle for each way in which a bundle can be acceptable or not. *)
EXTENDS BundleVerification, TLC

CONSTANTS alice, bob, sha1, sha2, pkg, notPkg, team, notUrl

Subject(n, d) == [name |-> n, digest |-> d]
Statement(kind, subjects, predicate) ==
    [predicateType |-> kind, subjects |-> subjects, predicate |-> predicate]

PkgSubject == Subject(pkg, "sha256" :> sha1)

Signed(signer, payload) ==
    [parses |-> TRUE, signed |-> TRUE, signer |-> signer, payload |-> payload]

Published(predicate) == Statement(Publish, <<PkgSubject>>, predicate)

Acceptable == {Signed(alice, Published(None)), Signed(bob, Published(None)),
               Signed(alice, Published(team))}

Unreadable ==
    {[parses |-> FALSE, signed |-> FALSE, signer |-> alice, payload |-> Malformed],
     [parses |-> TRUE, signed |-> FALSE, signer |-> alice, payload |-> Published(None)]}

BadPayloads == {Signed(alice, NotInToto), Signed(bob, Malformed)}

BadStatements ==
    {Signed(alice, st) : st \in
        {Statement(Publish, <<Subject(pkg, "sha256" :> sha2)>>, None),
         Statement(Publish, <<Subject(notPkg, "sha256" :> sha1)>>, None),
         Statement(Publish, <<PkgSubject, PkgSubject>>, None),
         Statement(Publish, <<Subject(pkg, ("sha256" :> sha1) @@ ("md5" :> sha1))>>, None),
         Statement(Publish, <<PkgSubject>>, Malformed),
         Statement(Publish, <<>>, None),
         Statement(Other, <<PkgSubject>>, None)}}

Provenances ==
    {Signed(bob, st) : st \in
        {Statement(Slsa, <<Subject(notPkg, "sha256" :> sha2), PkgSubject>>, team),
         Statement(Slsa, <<Subject(pkg, "md5" :> sha1)>>, team),
         Statement(Slsa, <<Subject(pkg, "sha256" :> Uncomparable), PkgSubject>>, team),
         Statement(Slsa, <<PkgSubject>>, Malformed)}}

AllBundles == Acceptable \cup Unreadable \cup BadPayloads \cup BadStatements
                 \cup Provenances
=============================================================================
