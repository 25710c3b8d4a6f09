---------------------------- MODULE MCDigestCache ----------------------------
(* Instances of DigestCache for TLC: two bodies with a digest each, and one
   digest for everything else that may be found in a file. *)
EXTENDS DigestCache, TLC

CONSTANTS k1, b1, b2, d1, d2, other, t1, t2, p1, p2

MCSha256 == [c \in Content |->
                CASE c = b1 -> d1 [] c = b2 -> d2 [] OTHER -> other]

\* b2 exceeds the smaller of the two limits a caller may pass.
MCSize == [c \in Content |-> IF c = b2 THEN 2 ELSE 1]

OneProcessEach == (t1 :> p1) @@ (t2 :> p2)
SharedProcess  == (t1 :> p1) @@ (t2 :> p1)
=============================================================================
