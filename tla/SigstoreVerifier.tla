--------------------------- MODULE SigstoreVerifier ---------------------------
(***************************************************************************)
(* SigstoreVerifier.verify and .trust_model (verification.py): the verifier *)
(* that all package callbacks of a process share.  It loads its trust model *)
(* when the first bundle needs it, builds one verifier from it, and guards  *)
(* both with the same non-reentrant lock, each behind a check made without  *)
(* the lock and repeated inside it.                                         *)
(*                                                                         *)
(* Callbacks run in threads.  The trust material on offer changes between   *)
(* two loads: roots are rotated, and the network or the file may be gone.   *)
(***************************************************************************)
EXTENDS Naturals, FiniteSets

CONSTANTS
    Thread,     \* threads that verify bundles
    Root,       \* trusted roots that may be on offer
    Usable,     \* those a verifier can be built from
    Bundle,     \* Sigstore bundles
    WellFormed, \* those that parse and whose certificate names a signer
    Valid,      \* <<bundle, root>>: the signature verifies under that root
    None

ASSUME VerifierAssumption ==
    /\ Usable \subseteq Root
    /\ WellFormed \subseteq Bundle
    /\ Valid \subseteq Bundle \X Root
    /\ None \notin Thread \cup Root \cup Bundle

VARIABLES
    pc,         \* where each thread is
    bundle,     \* the bundle a thread is verifying
    root,       \* the trusted root a thread took from the trust model
    outcome,    \* what verify returns or raises
    trustModel, \* the root of _trust_model, or None
    verifier,   \* the root _verifier was built from, or None
    lock,       \* the holder of _initialization_lock, or None
    served,     \* the trust material a load would find, or None
    ready,      \* history: the threads that found a verifier when they began
    verdicts    \* history: the verdicts given, as <<bundle, outcome>>

local == <<bundle, root>>
vars  == <<pc, local, outcome, trustModel, verifier, lock, served, ready,
           verdicts>>

Verdicts == {"verified", "invalid-bundle"}
Outcomes == Verdicts \cup {"none", "unavailable"}
InLock   == {"load", "construct"}
Labels   == {"idle", "parse", "check", "model", "waitModel", "take",
             "waitVerifier", "use", "done"} \cup InLock

Init ==
    /\ pc = [t \in Thread |-> "idle"]
    /\ bundle = [t \in Thread |-> None]
    /\ root = [t \in Thread |-> None]
    /\ outcome = [t \in Thread |-> "none"]
    /\ trustModel = None
    /\ verifier = None
    /\ lock = None
    /\ served \in Root \cup {None}
    /\ ready = {}
    /\ verdicts = {}

Goto(t, label) == pc' = [pc EXCEPT ![t] = label]

Finish(t, o) ==
    /\ Goto(t, "done")
    /\ outcome' = [outcome EXCEPT ![t] = o]

Proceed(t, label) == Goto(t, label) /\ UNCHANGED outcome

trust   == <<trustModel, verifier>>
history == <<ready, verdicts>>

Begin(t, b) ==
    /\ pc[t] = "idle"
    /\ Goto(t, "parse")
    /\ bundle' = [bundle EXCEPT ![t] = b]
    /\ ready' = IF verifier # None THEN ready \cup {t} ELSE ready
    /\ UNCHANGED <<root, outcome, trust, lock, served, verdicts>>

\* The bundle is parsed and its signer read before any trust is needed.
Parse(t) ==
    /\ pc[t] = "parse"
    /\ IF bundle[t] \in WellFormed THEN Proceed(t, "check")
                                   ELSE Finish(t, "invalid-bundle")
    /\ UNCHANGED <<local, trust, lock, served, history>>

CheckVerifier(t) ==
    /\ pc[t] = "check"
    /\ Proceed(t, IF verifier = None THEN "model" ELSE "use")
    /\ UNCHANGED <<local, trust, lock, served, history>>

CheckModel(t) ==
    /\ pc[t] = "model"
    /\ Proceed(t, IF trustModel = None THEN "waitModel" ELSE "take")
    /\ UNCHANGED <<local, trust, lock, served, history>>

Acquire(t, from, to) ==
    /\ pc[t] = from
    /\ lock = None
    /\ lock' = t
    /\ Proceed(t, to)
    /\ UNCHANGED <<local, trust, served, history>>

LockForModel(t)    == Acquire(t, "waitModel", "load")
LockForVerifier(t) == Acquire(t, "waitVerifier", "construct")

\* Just before some definitions stands a faulty variant of them, a slip the
\* code could have made; the properties are tried against it.
NeedsLoadAlways == TRUE
NeedsLoad == trustModel = None

HeldAfterFailure == IF NeedsLoad /\ served = None THEN lock ELSE None
LockAfterLoad == None

\* The check is repeated inside the lock.  A load that raises leaves the lock
\* and is not remembered, so a later call tries again.
Load(t) ==
    /\ pc[t] = "load"
    /\ IF NeedsLoad /\ served = None
       THEN Finish(t, "unavailable") /\ UNCHANGED trustModel
       ELSE /\ Proceed(t, "take")
            /\ trustModel' = IF NeedsLoad THEN served ELSE trustModel
    /\ lock' = LockAfterLoad
    /\ UNCHANGED <<local, verifier, served, history>>

\* The property returns the attribute, read again outside the lock.
TakeRoot(t) ==
    /\ pc[t] = "take"
    /\ root' = [root EXCEPT ![t] = trustModel]
    /\ Proceed(t, "waitVerifier")
    /\ UNCHANGED <<bundle, trust, lock, served, history>>

Construct(t) ==
    /\ pc[t] = "construct"
    /\ lock' = None
    /\ IF verifier # None
       THEN Proceed(t, "use") /\ UNCHANGED verifier
       ELSE IF root[t] \in Usable
       THEN Proceed(t, "use") /\ verifier' = root[t]
       ELSE Finish(t, "unavailable") /\ UNCHANGED verifier
    /\ UNCHANGED <<local, trustModel, served, history>>

\* Whatever verify_dsse raises becomes BundleVerificationError.
VerdictUncaught(b, r) == IF <<b, r>> \in Valid THEN "verified" ELSE "raised"
VerdictOn(b, r) == IF <<b, r>> \in Valid THEN "verified" ELSE "invalid-bundle"

RetainedUnlessRejected(t, x) ==
    IF VerdictOn(bundle[t], verifier) = "verified" THEN x ELSE None
Retained(t, x) == x

VerifyDsse(t) ==
    /\ pc[t] = "use"
    /\ Finish(t, VerdictOn(bundle[t], verifier))
    /\ verdicts' = verdicts \cup {<<bundle[t], VerdictOn(bundle[t], verifier)>>}
    /\ trustModel' = Retained(t, trustModel)
    /\ verifier' = Retained(t, verifier)
    /\ UNCHANGED <<local, lock, served, ready>>

Return(t) ==
    /\ pc[t] = "done"
    /\ Goto(t, "idle")
    /\ bundle' = [bundle EXCEPT ![t] = None]
    /\ root' = [root EXCEPT ![t] = None]
    /\ outcome' = [outcome EXCEPT ![t] = "none"]
    /\ ready' = ready \ {t}
    /\ UNCHANGED <<trust, lock, served, verdicts>>

Step(t) ==
    \/ Parse(t) \/ CheckVerifier(t) \/ CheckModel(t)
    \/ LockForModel(t) \/ Load(t) \/ TakeRoot(t)
    \/ LockForVerifier(t) \/ Construct(t) \/ VerifyDsse(t) \/ Return(t)

\* Roots are rotated, and trust material comes and goes.
Serve(r) ==
    /\ served' = r
    /\ UNCHANGED <<pc, local, outcome, trust, lock, history>>

Next ==
    \/ \E t \in Thread : Step(t) \/ \E b \in Bundle : Begin(t, b)
    \/ \E r \in Root \cup {None} : Serve(r)

Spec == Init /\ [][Next]_vars

\* A thread that can run does, and a load comes back.  threading.Lock promises
\* no order among the threads that wait for it, so acquiring it is only
\* weakly fair.
Fairness == \A t \in Thread : WF_vars(Step(t))

FairSpec == Spec /\ Fairness

-----------------------------------------------------------------------------
(* Properties *)

TypeOK ==
    /\ pc \in [Thread -> Labels]
    /\ bundle \in [Thread -> Bundle \cup {None}]
    /\ root \in [Thread -> Root \cup {None}]
    /\ outcome \in [Thread -> Outcomes]
    /\ trustModel \in Root \cup {None}
    /\ verifier \in Root \cup {None}
    /\ lock \in Thread \cup {None}
    /\ served \in Root \cup {None}
    /\ ready \subseteq Thread
    /\ verdicts \subseteq Bundle \X Verdicts

\* The verifier in use was built from the retained trust model, however many
\* threads found neither and whatever roots each of them might have loaded.
VerifierOfTrustModel == verifier # None => verifier = trustModel

\* Callbacks of one process never contradict each other: no bundle is
\* accepted by one and rejected by another, though roots rotate meanwhile.
VerdictsAgree ==
    \A b \in Bundle : ~({<<b, v>> : v \in Verdicts} \subseteq verdicts)

\* A call that began when there was a verifier is never told that trust
\* material is unavailable, whatever becomes of that material.
ReadyNeverUnavailable == \A t \in ready : outcome[t] # "unavailable"

\* Trust, once established, is neither replaced nor dropped: the process
\* keeps the trust model and the verifier it first obtained.
TrustIsKept ==
    /\ trustModel # None => trustModel' = trustModel
    /\ verifier # None => verifier' = verifier

TrustIsFixed == [][TrustIsKept]_vars

\* Two threads are never inside the lock together, and a thread never waits
\* for the lock it holds.
OnlyHolderInLock == \A t \in Thread : pc[t] \in InLock <=> lock = t

\* Once trust material stays available, and unless what was loaded is of no
\* use, every call ends.  Otherwise a thread may lose the lock for ever to
\* others whose attempts keep failing.
CallsEndOnceServed ==
    <>[](served # None) /\ [](trustModel \in Usable \cup {None}) =>
        \A t \in Thread : pc[t] # "idle" ~> pc[t] = "idle"

\* Even so the callbacks as a whole never stop: as long as calls are under
\* way, some call comes to its end.
SomeCallEnds ==
    (\E t \in Thread : pc[t] # "idle") ~> (\E t \in Thread : pc[t] = "done")
=============================================================================
