--------------------------- MODULE MCRecordEvidence ---------------------------
(* Instances of RecordEvidence for TLC.  early proves the first package under
   the old root only and late under the new root only, as when a publisher
   replaces a sidecar after a root is rotated; foreign proves the other
   package; noise is not a sidecar. *)
EXTENDS RecordEvidence, TLC

CONSTANTS p1, p2, k1, k2, early, late, foreign, noise, old, new, dE, dL, dF, dN

MCSha256 == [b \in Body |->
    CASE b = early -> dE [] b = late -> dL [] b = foreign -> dF [] b = noise -> dN]

MCProves == {<<early, k1, old>>, <<late, k1, new>>,
             <<foreign, k2, old>>, <<foreign, k2, new>>}
            \cap (Body \X Package \X Root)

\* Fit packages under usable URLs, pinned to early or not pinned, to be
\* installed or audited by their adjacent sidecars.
FitRequests ==
    {r \in Requests : /\ r.mode \in {"install", "prefix"} /\ r.pin \in {NoPin, dE}
                      /\ r.url /\ r.fit = "fit"}

ProcessSymmetry == Permutations(Process)
=============================================================================
